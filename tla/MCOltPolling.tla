---------------------------- MODULE MCOltPolling ----------------------------
(* Instances of OltPolling for TLC. *)
EXTENDS OltPolling
=============================================================================
