-------------------------- MODULE MCOltDownstream --------------------------
(* Instances of OltDownstream for TLC. *)
EXTENDS OltDownstream, TLC

CONSTANTS l1, l2

MCQueueOf == l1 :> 1 @@ l2 :> 2
=============================================================================
