---------------------------- MODULE MCPollingPon ----------------------------
(* Instances of PollingPon for TLC. *)
EXTENDS PollingPon

MCPorts == 0 .. 1
\* The second ONU is farther away.
MCDist == [p \in Ports |-> p]
\* A GATE may wait at the OLT for three ticks.
MCGateDelays == {0, 3}
MCAirs == {1, 3}
\* These times are as the theorems need them.
MCLate == [e \in 0 .. Window |-> IF e < 4 THEN 4 ELSE 5]
ASSUME MCTimes == PollingTimes /\ Covers(0, MCLate)
=============================================================================
