--------------------------- MODULE OltDownstream ---------------------------
(***************************************************************************)
(* The downstream direction of the OLT without polling: the queue module   *)
(* (OLTQPerLLiDBase with the requestPacket of OLT_QPL_RR) and the MAC      *)
(* control OLTMacCtl_NP, which holds one frame at a time on the line and   *)
(* asks the queues for another when it has nothing left to send.           *)
(*                                                                         *)
(* The length of a transmission is left open: TxEnd happens at any time    *)
(* after the frame was sent.                                               *)
(***************************************************************************)
EXTENDS RoundRobin, FiniteSets

CONSTANTS
  LLID,         \* LLIDs with a queue
  Unknown,      \* an LLID without a queue
  Mpcp,         \* stands for the LLID of a frame the module itself sends
  QueueOf,      \* the index of the queue of each LLID
  QueueLimit,   \* queueLimit
  MaxFrames     \* bound: frames given to the OLT

NumQueues == Cardinality({QueueOf[l] : l \in LLID})

ASSUME DownstreamParameters ==
  /\ IsFiniteSet(LLID) /\ LLID # {}
  /\ QueueOf \in [LLID -> 1 .. NumQueues]
  /\ Unknown \notin LLID /\ Mpcp \notin LLID
  /\ QueueLimit \in Nat /\ MaxFrames \in Nat

VARIABLES
  queues,   \* the queue module
  link,     \* frames from the queue module, delivered without delay
  tmp,      \* tmp_queue of the MAC control
  sending,  \* transmitState is TX_SENDING: the txEnd timer runs
  given,    \* the frames given to the OLT (history)
  line      \* the frames sent to the EPON_mac (history)

vars == <<queues, link, tmp, sending, given, line>>

Frame == [id : 1 .. MaxFrames, llid : LLID \union {Unknown, Mpcp}]

Init ==
  /\ queues = [pon |-> [i \in 1 .. NumQueues |-> <<>>], next |-> 1, allEmpty |-> TRUE]
  /\ link = <<>>
  /\ tmp = <<>>
  /\ sending = FALSE
  /\ given = <<>>
  /\ line = <<>>

-----------------------------------------------------------------------------
(* The queue module *)

\* Mutant: frames are queued even when the MAC control has nothing to send.
EnqueueAlways(f) ==
  /\ queues' = IF f.llid = Unknown THEN queues
               ELSE [queues EXCEPT !.pon[QueueOf[f.llid]] = Append(@, f), !.allEmpty = FALSE]
  /\ UNCHANGED link

(***************************************************************************)
(* processFrameFromHigherLayer: straight to the MAC control while all the  *)
(* queues are empty, otherwise to the queue of its LLID, if there is one   *)
(* and it has room.                                                        *)
(***************************************************************************)
Enqueue(f) ==
  IF queues.allEmpty
  THEN link' = Append(link, f) /\ UNCHANGED queues
  ELSE /\ queues' = IF \/ f.llid = Unknown
                       \/ Len(queues.pon[QueueOf[f.llid]]) >= QueueLimit
                    THEN queues
                    ELSE [queues EXCEPT !.pon[QueueOf[f.llid]] = Append(@, f)]
       /\ UNCHANGED link

NewFrame(l) == [id |-> Len(given) + 1, llid |-> l]

\* A frame from the relay.
FrameArrives ==
  /\ Len(given) < MaxFrames
  /\ \E l \in LLID \union {Unknown} :
       /\ given' = Append(given, NewFrame(l))
       /\ Enqueue(NewFrame(l))
  /\ UNCHANGED <<tmp, sending, line>>

\* A GATE the module sends itself, past the queues (SendGateUpdates).
SendMpcp ==
  /\ Len(given) < MaxFrames
  /\ given' = Append(given, NewFrame(Mpcp))
  /\ link' = Append(link, NewFrame(Mpcp))
  /\ UNCHANGED <<queues, tmp, sending, line>>

-----------------------------------------------------------------------------
(* The MAC control *)

(***************************************************************************)
(* handleTxEnd with the frames t in tmp_queue: ask the queue module when   *)
(* there is none, otherwise transmit the first (doTransmit).               *)
(***************************************************************************)
HandleTxEnd(t, lnk) ==
  IF t = <<>>
  THEN /\ sending' = FALSE
       /\ queues' = RequestPacket(queues)
       /\ link' = lnk \o PacketFor(queues)
       /\ UNCHANGED <<tmp, line>>
  ELSE /\ sending' = TRUE
       /\ line' = Append(line, Head(t))
       /\ tmp' = Tail(t)
       /\ link' = lnk
       /\ UNCHANGED queues

\* Mutant: a frame that finds the transmitter idle is not sent.
LinkDeliversOnly ==
  /\ link # <<>>
  /\ tmp' = Append(tmp, Head(link))
  /\ link' = Tail(link)
  /\ UNCHANGED <<queues, sending, line, given>>

\* processFrameFromHigherLayer: queue the frame, and transmit when idle.
LinkDelivers ==
  /\ link # <<>>
  /\ LET t == Append(tmp, Head(link))
     IN  IF sending
         THEN tmp' = t /\ link' = Tail(link) /\ UNCHANGED <<queues, sending, line>>
         ELSE HandleTxEnd(t, Tail(link))
  /\ UNCHANGED given

\* The transmission is over.
TxEnd ==
  /\ sending
  /\ HandleTxEnd(tmp, link)
  /\ UNCHANGED given

Next == FrameArrives \/ SendMpcp \/ LinkDelivers \/ TxEnd

\* The simulation kernel delivers every message and fires every timer.
Fairness == WF_vars(LinkDelivers) /\ WF_vars(TxEnd)

Spec == Init /\ [][Next]_vars /\ Fairness
-----------------------------------------------------------------------------
(* Properties *)

\* The shape of the state.
TypeOK ==
  /\ queues.pon \in [1 .. NumQueues -> Seq(Frame)]
  /\ queues.next \in 1 .. NumQueues
  /\ queues.allEmpty \in BOOLEAN
  /\ link \in Seq(Frame) /\ tmp \in Seq(Frame)
  /\ sending \in BOOLEAN
  /\ given \in Seq(Frame) /\ line \in Seq(Frame)

(***************************************************************************)
(* When the transmitter is idle and no message is on its way between the   *)
(* modules, everything given to the OLT has been sent: the MAC control is  *)
(* never left idle with a frame waiting (handleTxEnd stops without a timer *)
(* when requestPacket finds nothing).                                      *)
(***************************************************************************)
IdleMeansDone == (~ sending /\ link = <<>>) => line = given

(***************************************************************************)
(* processFrameFromHigherLayer always finds allQsEmpty set, so no frame is *)
(* ever queued by LLID: frames wait in tmp_queue of the MAC control, which *)
(* has no limit, and queueLimit and the check of the LLID play no part.    *)
(***************************************************************************)
QueuesUnused == queues.allEmpty /\ \A i \in 1 .. NumQueues : queues.pon[i] = <<>>

(***************************************************************************)
(* Relay frames and the module's own MPCP frames, direct and queued ones,  *)
(* leave in the order in which they were given, and all of them leave.     *)
(***************************************************************************)
Channel == INSTANCE FifoChannel WITH Message <- Frame, delivered <- line
ChannelSpec == Channel!Spec
=============================================================================
