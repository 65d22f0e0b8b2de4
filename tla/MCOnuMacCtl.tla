---------------------------- MODULE MCOnuMacCtl ----------------------------
(* Instances of OnuMacCtl for TLC. *)
EXTENDS OnuMacCtl

\* Two slots of a super slot of 8 ticks, the second too short for the longer
\* frame; between them a new GATE may move the ONU.
MCGrants == {[start |-> 2, length |-> 4], [start |-> 5, length |-> 3]}
MCAirs == {1, 3}
=============================================================================
