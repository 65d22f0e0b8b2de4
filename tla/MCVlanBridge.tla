---------------------------- MODULE MCVlanBridge ----------------------------
(* Instances of VlanBridge for TLC. *)
EXTENDS VlanBridge

CONSTANTS Host, Server, Onu1, Onu2, L1, L2, Other

MCHosts == {Host}
MCServers == {Server}
MCOnus == {Onu1, Onu2}
MCUndefined == -1
MCBroadcast == 32767
\* The OLT has three services, one ONU the first two and the other one only the
\* first: the position of the VLAN 3 is the number of its LLIDs.
MCServices == <<5, 4, 3>>
MCServicesOf == [o \in MCOnus |-> IF o = Onu1 THEN <<5, 4>> ELSE <<5>>]
\* The VLAN 6 belongs to no service.
MCTags == {-1, 3, 4, 6}
\* LLIDs are drawn at random, 0 among them, and two ONUs may share one; what
\* lies outside a list may be one of them or another number.
MCLLIDs == {0, L1, L2}
MCGarbage == MCLLIDs \union {-1}
MCStray == MCLLIDs \union {Other}
Symmetry == Permutations({L1, L2})
=============================================================================
