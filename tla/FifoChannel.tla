---------------------------- MODULE FifoChannel ----------------------------
(***************************************************************************)
(* A channel that delivers what it is given, once, in order.  This is what *)
(* EponRegistration takes the downstream direction for: a REGISTER arrives *)
(* before the GATE that is sent after it.                                  *)
(***************************************************************************)
EXTENDS Integers, Sequences

CONSTANT Message

VARIABLES
  given,      \* the messages given to the channel so far
  delivered   \* those it has delivered

vars == <<given, delivered>>

Init == given = <<>> /\ delivered = <<>>

Give ==
  /\ \E m \in Message : given' = Append(given, m)
  /\ UNCHANGED delivered

Deliver ==
  /\ Len(delivered) < Len(given)
  /\ delivered' = Append(delivered, given[Len(delivered) + 1])
  /\ UNCHANGED given

Next == Give \/ Deliver

Spec == Init /\ [][Next]_vars /\ WF_vars(Deliver)
=============================================================================
