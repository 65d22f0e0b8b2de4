----------------------------- MODULE MCOnuRelay -----------------------------
(* Instances of OnuRelay for TLC. *)
EXTENDS OnuRelay

CONSTANTS Local1, Local2, Remote

MCLocals == {Local1, Local2}
MCRemotes == {Remote}
MCUndefined == -1
MCBroadcast == 32767
MCGarbage == {-1, 12, 9}
MCServices == <<3, 4>>
\* The VLAN 6 belongs to no service.
MCTags == {-1, 4, 6}
MCStray == {0}
MCAssigned == <<11, 12, 13>>
=============================================================================
