------------------------ MODULE MCEponRegistration ------------------------
(* Instances of EponRegistration for TLC. *)
EXTENDS EponRegistration

CONSTANTS o1, o2, o3, l1, l2

\* Three ONUs, the second with a service of its own beside the default queue.
MCNumLLIDs == o1 :> 1 @@ o2 :> 2 @@ o3 :> 1
MCSrvPrior == <<5>>
=============================================================================
