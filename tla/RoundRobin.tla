----------------------------- MODULE RoundRobin -----------------------------
(***************************************************************************)
(* A queue module that serves its queues in turn: requestPacket as         *)
(* ONU_QPL_RR and OLT_QPL_RR define it.  Its state is a record:            *)
(*   pon       pon_queues, a sequence of queues of frames                  *)
(*   next      nextQIndex                                                  *)
(*   allEmpty  allQsEmpty                                                  *)
(***************************************************************************)
EXTENDS Integers, Sequences

\* Is there no frame in any queue?
NoFrame(pon) == \A i \in 1 .. Len(pon) : pon[i] = <<>>

(***************************************************************************)
(* The queue served by the next request: the first one with a frame, from  *)
(* nextQIndex on and around.                                               *)
(***************************************************************************)
Turn(q, k) == ((q.next + k - 1) % Len(q.pon)) + 1
Served(q) ==
  LET ahead == {k \in 0 .. Len(q.pon) - 1 : q.pon[Turn(q, k)] # <<>>}
  IN  Turn(q, CHOOSE k \in ahead : \A j \in ahead : k <= j)

\* Mutant: the index does not go around.
RequestPacketEnd(q) ==
  IF NoFrame(q.pon)
  THEN [q EXCEPT !.allEmpty = TRUE]
  ELSE LET i == Served(q)
           pon == [q.pon EXCEPT ![i] = Tail(@)]
       IN  [q EXCEPT !.pon = pon, !.next = i + 1, !.allEmpty = NoFrame(pon)]

(***************************************************************************)
(* requestPacket: serve one frame, move to the next queue, and note        *)
(* whether that left all of them empty (checkIfAllEmpty).                  *)
(***************************************************************************)
RequestPacket(q) ==
  IF NoFrame(q.pon)
  THEN [q EXCEPT !.allEmpty = TRUE]
  ELSE LET i == Served(q)
           pon == [q.pon EXCEPT ![i] = Tail(@)]
       IN  [q EXCEPT !.pon = pon, !.next = (i % Len(pon)) + 1, !.allEmpty = NoFrame(pon)]

\* Mutant: a request of empty queues sends an empty frame.
PacketForNull(q) == IF NoFrame(q.pon) THEN <<[id |-> 0, llid |-> 0]>> ELSE <<Head(q.pon[Served(q)])>>

\* What a request sends to the MAC control.
PacketFor(q) == IF NoFrame(q.pon) THEN <<>> ELSE <<Head(q.pon[Served(q)])>>
=============================================================================
