-------------------------- MODULE MCNonPollingPon --------------------------
(* Instances of NonPollingPon for TLC. *)
EXTENDS NonPollingPon

MCPorts == 0 .. 1
MCOwned == [p \in Ports |-> 1]
\* A frame that leaves no room for a second one in its slot.
MCAirsOne == {5}
\* Two frames that fill a slot.
MCAirsTwo == {3}
=============================================================================
