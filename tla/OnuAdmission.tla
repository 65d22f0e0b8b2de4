---------------------------- MODULE OnuAdmission ----------------------------
(***************************************************************************)
(* What the registration promises, without messages, timers or tables: an  *)
(* ONU is offered LLIDs once, and the offer ends in one of two ways.  Once *)
(* an ONU is admitted it stays admitted, with the LLIDs it was offered.    *)
(***************************************************************************)
EXTENDS Integers, Functions

CONSTANTS ONU, LLID, NumLLIDs

VARIABLES
  status,   \* of each ONU: "silent", "offered", "admitted" or "refused"
  lease     \* the LLIDs of each ONU that is offered or admitted

vars == <<status, lease>>

Init ==
  /\ status = [o \in ONU |-> "silent"]
  /\ lease = [o \in ONU |-> <<>>]

Offer(o) ==
  /\ status[o] = "silent"
  /\ status' = [status EXCEPT ![o] = "offered"]
  /\ \E ids \in [1 .. NumLLIDs[o] -> LLID] :
       /\ IsInjective(ids)
       /\ lease' = [lease EXCEPT ![o] = ids]

Admit(o) ==
  /\ status[o] = "offered"
  /\ status' = [status EXCEPT ![o] = "admitted"]
  /\ UNCHANGED lease

Refuse(o) ==
  /\ status[o] = "offered"
  /\ status' = [status EXCEPT ![o] = "refused"]
  /\ lease' = [lease EXCEPT ![o] = <<>>]

Next == \E o \in ONU : Offer(o) \/ Admit(o) \/ Refuse(o)

Spec == Init /\ [][Next]_vars

\* Every ONU gets an offer, and every offer is settled.
FairSpec ==
  /\ Spec
  /\ \A o \in ONU : WF_vars(Offer(o)) /\ WF_vars(Admit(o) \/ Refuse(o))
=============================================================================
