----------------------------- MODULE MCOltRelay -----------------------------
(* Instances of OltRelay for TLC. *)
EXTENDS OltRelay

CONSTANTS Mobile, Fixed, Server

MCHosts == {Mobile, Fixed, Server}
MCUndefined == -1
MCBroadcast == 32767
\* The mobile host moves between the ONUs.
MCPlaces == [h \in MCHosts |-> IF h = Mobile THEN {1, 2} ELSE IF h = Fixed THEN {2} ELSE {Lan}]
MCTags == {-1, 3}
MCGarbage == {-1, 1, 9}
=============================================================================
