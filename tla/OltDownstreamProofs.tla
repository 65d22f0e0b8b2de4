------------------------ MODULE OltDownstreamProofs ------------------------
(***************************************************************************)
(* Proofs about OltDownstream, for every set of LLIDs, every queue limit   *)
(* and any number of frames.                                               *)
(***************************************************************************)
EXTENDS OltDownstream, ProofBasics

EmptyQueues == [pon : {[i \in 1 .. NumQueues |-> <<>>]}, next : 1 .. NumQueues, allEmpty : {TRUE}]

(***************************************************************************)
(* The inductive invariant.  What has been given is what has been sent,    *)
(* what the MAC control holds and what is on its way to it, in this order; *)
(* the MAC control holds nothing when it is idle; and the queues are never *)
(* used.                                                                   *)
(***************************************************************************)
DInv ==
  /\ queues \in EmptyQueues
  /\ sending \in BOOLEAN
  /\ link \in Seq(Frame) /\ tmp \in Seq(Frame)
  /\ given \in Seq(Frame) /\ line \in Seq(Frame)
  /\ given = line \o (tmp \o link)
  /\ ~ sending => tmp = <<>>

\* There is at least one queue.
LEMMA NumQueuesNat == NumQueues \in Nat \ {0}
<1> DEFINE S == {QueueOf[l] : l \in LLID}
<1>1. IsFiniteSet(S) /\ S # {}
  <2>1. IsFiniteSet(S)
    <3>1. QueueOf \in Surjection(LLID, S)
      BY DownstreamParameters DEF Surjection
    <3> HIDE DEF S
    <3> QED BY <3>1, DownstreamParameters, FS_Surjection
  <2>2. S # {}
    BY DownstreamParameters
  <2> QED BY <2>1, <2>2
<1> HIDE DEF S
<1>2. Cardinality(S) \in Nat /\ Cardinality(S) # 0
  BY <1>1, FS_CardinalityType, FS_EmptySet
<1> QED BY <1>2 DEF NumQueues, S

\* A request of the empty queues finds nothing and changes nothing.
LEMMA RequestEmpty ==
  ASSUME NEW q \in EmptyQueues
  PROVE  RequestPacket(q) \in EmptyQueues /\ PacketFor(q) = <<>>
<1>1. NoFrame(q.pon)
  <2>1. q.pon = [i \in 1 .. NumQueues |-> <<>>]
    BY DEF EmptyQueues
  <2>2. Len(q.pon) = NumQueues
    BY <2>1, NumQueuesNat
  <2> QED BY <2>1, <2>2 DEF NoFrame
<1>2. RequestPacket(q) = [q EXCEPT !.allEmpty = TRUE]
  BY <1>1 DEF RequestPacket
<1>3. [q EXCEPT !.allEmpty = TRUE] \in EmptyQueues
  BY DEF EmptyQueues
<1> QED BY <1>1, <1>2, <1>3 DEF PacketFor

\* A frame given to the OLT is a frame of the model.
LEMMA NewFrameTyped ==
  ASSUME given \in Seq(Frame), Len(given) < MaxFrames,
         NEW l \in LLID \union {Unknown, Mpcp}
  PROVE  NewFrame(l) \in Frame
<1>1. Len(given) + 1 \in 1 .. MaxFrames
  BY LenProperties, DownstreamParameters
<1> QED BY <1>1 DEF NewFrame, Frame

\* A frame given to the queue module or to the MAC control goes to the link.
LEMMA GiveStep ==
  ASSUME DInv, FrameArrives \/ SendMpcp
  PROVE  \E f \in Frame : /\ given' = Append(given, f)
                          /\ link' = Append(link, f)
                          /\ UNCHANGED <<queues, tmp, sending, line>>
<1>1. CASE FrameArrives
  <2>1. PICK l \in LLID \union {Unknown} :
          given' = Append(given, NewFrame(l)) /\ Enqueue(NewFrame(l))
    BY <1>1 DEF FrameArrives
  <2>2. queues.allEmpty
    BY DEF DInv, EmptyQueues
  <2>3. link' = Append(link, NewFrame(l)) /\ UNCHANGED queues
    BY <2>1, <2>2 DEF Enqueue
  <2>4. NewFrame(l) \in Frame
    BY <1>1, NewFrameTyped DEF FrameArrives, DInv
  <2> QED BY <1>1, <2>1, <2>3, <2>4 DEF FrameArrives
<1>2. CASE SendMpcp
  <2>1. NewFrame(Mpcp) \in Frame
    BY <1>2, NewFrameTyped DEF SendMpcp, DInv
  <2> QED BY <1>2, <2>1 DEF SendMpcp
<1> QED BY <1>1, <1>2

(***************************************************************************)
(* What the MAC control does: it takes a frame while it is busy, sends the *)
(* oldest frame it has, or stops because it has none.                      *)
(***************************************************************************)
Take == /\ link # <<>> /\ sending
        /\ tmp' = Append(tmp, Head(link)) /\ link' = Tail(link)
        /\ UNCHANGED <<queues, sending, given, line>>

SendOldest == /\ tmp \o link # <<>>
              /\ line' = Append(line, Head(tmp \o link))
              /\ tmp' \o link' = Tail(tmp \o link)
              /\ tmp' \in Seq(Frame) /\ link' \in Seq(Frame)
              /\ sending' = TRUE
              /\ UNCHANGED <<queues, given>>

Stop == /\ tmp = <<>> /\ sending' = FALSE
        /\ queues' \in EmptyQueues
        /\ UNCHANGED <<link, tmp, given, line>>

\* A step of the MAC control sends the oldest frame it holds, takes one over,
\* or stops with nothing left.
LEMMA MacStep ==
  ASSUME DInv, LinkDelivers \/ TxEnd
  PROVE  Take \/ SendOldest \/ Stop
<1>0. link \in Seq(Frame) /\ tmp \in Seq(Frame)
  BY DEF DInv
<1>1. CASE LinkDelivers
  <2>1. link # <<>> /\ Head(link) \in Frame /\ Tail(link) \in Seq(Frame)
    BY <1>0, <1>1, TailFacts DEF LinkDelivers
  <2>2. CASE sending
    BY <1>1, <2>1, <2>2 DEF LinkDelivers, Take
  <2>3. CASE ~ sending
    <3>1. tmp = <<>>
      BY <2>3 DEF DInv
    <3> DEFINE t == Append(tmp, Head(link))
    <3>2. t # <<>> /\ Head(t) = Head(link) /\ Tail(t) = <<>>
      BY <1>0, <2>1, <3>1, HeadTailAppend, AppendProperties
    <3>3. HandleTxEnd(t, Tail(link)) /\ UNCHANGED given
      BY <1>1, <2>3 DEF LinkDelivers
    <3> HIDE DEF t
    <3>4. /\ sending' = TRUE /\ line' = Append(line, Head(link)) /\ tmp' = <<>>
          /\ link' = Tail(link) /\ UNCHANGED <<queues, given>>
      BY <3>2, <3>3 DEF HandleTxEnd
    <3>5. tmp \o link = link /\ tmp' \o link' = Tail(link)
      BY <1>0, <2>1, <3>1, <3>4, ConcatEmptySeq
    <3>6. tmp' \in Seq(Frame) /\ link' \in Seq(Frame)
      BY <2>1, <3>4
    <3> QED BY <2>1, <2>3, <3>4, <3>5, <3>6 DEF SendOldest
  <2> QED BY <2>2, <2>3
<1>2. CASE TxEnd
  <2>1. HandleTxEnd(tmp, link) /\ UNCHANGED given
    BY <1>2 DEF TxEnd
  <2>2. CASE tmp = <<>>
    <3>1. /\ sending' = FALSE /\ queues' = RequestPacket(queues)
          /\ link' = link \o PacketFor(queues) /\ UNCHANGED <<tmp, line>>
      BY <2>1, <2>2 DEF HandleTxEnd
    <3>2. queues' \in EmptyQueues /\ PacketFor(queues) = <<>>
      BY <3>1, RequestEmpty DEF DInv
    <3>3. link' = link
      BY <1>0, <3>1, <3>2, ConcatEmptySeq
    <3> QED BY <2>1, <2>2, <3>1, <3>2, <3>3 DEF Stop
  <2>3. CASE tmp # <<>>
    <3>1. /\ sending' = TRUE /\ line' = Append(line, Head(tmp)) /\ tmp' = Tail(tmp)
          /\ link' = link /\ UNCHANGED <<queues, given>>
      BY <2>1, <2>3 DEF HandleTxEnd
    <3>2. Head(tmp) \in Frame /\ Tail(tmp) \in Seq(Frame) /\ <<Head(tmp)>> \in Seq(Frame)
      BY <1>0, <2>3, TailFacts
    <3>3. tmp \o link = <<Head(tmp)>> \o (Tail(tmp) \o link)
      <4>1. tmp = <<Head(tmp)>> \o Tail(tmp)
        BY <1>0, <2>3, HeadTailProperties
      <4>2. (<<Head(tmp)>> \o Tail(tmp)) \o link = <<Head(tmp)>> \o (Tail(tmp) \o link)
        BY <1>0, <3>2, ConcatAssociative
      <4> QED BY <4>1, <4>2
    <3>4. /\ tmp \o link # <<>>
          /\ Head(tmp \o link) = Head(tmp)
          /\ Tail(tmp \o link) = Tail(tmp) \o link
      <4> DEFINE u == Tail(tmp) \o link
      <4>1. u \in Seq(Frame)
        BY <1>0, <3>2, ConcatProperties
      <4> HIDE DEF u
      <4>2. /\ <<Head(tmp)>> \o u # <<>>
            /\ Head(<<Head(tmp)>> \o u) = Head(tmp)
            /\ Tail(<<Head(tmp)>> \o u) = u
        BY <3>2, <4>1
      <4> QED BY <3>3, <4>2 DEF u
    <3> QED BY <1>0, <2>3, <3>1, <3>2, <3>4 DEF SendOldest
  <2> QED BY <2>2, <2>3
<1> QED BY <1>1, <1>2

-----------------------------------------------------------------------------
(* The invariant *)

\* The initialised modules satisfy the inductive invariant.
LEMMA InitDInv == Init => DInv
<1> SUFFICES ASSUME Init PROVE DInv
  OBVIOUS
<1>1. <<>> \o (<<>> \o <<>>) = <<>>
  <2>1. <<>> \in Seq(Frame)
    OBVIOUS
  <2> QED BY <2>1, ConcatEmptySeq
<1>2. queues \in EmptyQueues
  BY NumQueuesNat DEF Init, EmptyQueues
<1>3. /\ link = <<>> /\ tmp = <<>> /\ sending = FALSE /\ given = <<>> /\ line = <<>>
  BY DEF Init
<1>4. <<>> \in Seq(Frame)
  OBVIOUS
<1> QED BY <1>1, <1>2, <1>3, <1>4 DEF DInv

\* Every step preserves the inductive invariant.
LEMMA StepDInv == DInv /\ [Next]_vars => DInv'
<1> SUFFICES ASSUME DInv, [Next]_vars PROVE DInv'
  OBVIOUS
<1>0. /\ link \in Seq(Frame) /\ tmp \in Seq(Frame) /\ line \in Seq(Frame)
      /\ tmp \o link \in Seq(Frame)
  BY ConcatProperties DEF DInv
<1>1. CASE FrameArrives \/ SendMpcp
  <2>1. PICK f \in Frame : /\ given' = Append(given, f) /\ link' = Append(link, f)
                           /\ UNCHANGED <<queues, tmp, sending, line>>
    BY <1>1, GiveStep
  <2>2. given' \in Seq(Frame) /\ link' \in Seq(Frame)
    BY <2>1, AppendProperties DEF DInv
  <2>3. line \o (tmp \o Append(link, f)) = Append(line \o (tmp \o link), f)
    <3>1. tmp \o Append(link, f) = Append(tmp \o link, f)
      BY <1>0, AppendConcat
    <3>2. line \o Append(tmp \o link, f) = Append(line \o (tmp \o link), f)
      BY <1>0, AppendConcat
    <3> QED BY <3>1, <3>2
  <2> QED BY <2>1, <2>2, <2>3 DEF DInv
<1>2. CASE Take
  <2>1. Head(link) \in Frame /\ tmp' \in Seq(Frame) /\ link' \in Seq(Frame)
    BY <1>0, <1>2, TailFacts, AppendProperties DEF Take
  <2>2. tmp' \o link' = tmp \o link
    BY <1>0, <1>2, MoveHead DEF Take
  <2> QED BY <1>2, <2>1, <2>2 DEF Take, DInv
<1>3. CASE SendOldest
  <2>1. line' \in Seq(Frame)
    BY <1>0, <1>3, TailFacts, AppendProperties DEF SendOldest
  <2>2. line' \o (tmp' \o link') = line \o (tmp \o link)
    <3> DEFINE r == tmp \o link
    <3>1. r \in Seq(Frame) /\ r # <<>> /\ line' = Append(line, Head(r)) /\ tmp' \o link' = Tail(r)
      BY <1>0, <1>3 DEF SendOldest
    <3> HIDE DEF r
    <3>2. Append(line, Head(r)) \o Tail(r) = line \o r
      BY <1>0, <3>1, MoveHead
    <3> QED BY <3>1, <3>2 DEF r
  <2> QED BY <1>3, <2>1, <2>2 DEF SendOldest, DInv
<1>4. CASE Stop
  BY <1>4 DEF Stop, DInv
<1>5. CASE UNCHANGED vars
  BY <1>5 DEF vars, DInv
<1> QED BY <1>1, <1>2, <1>3, <1>4, <1>5, MacStep DEF Next

\* The inductive invariant holds in every reachable state.
LEMMA DInvAlways == Spec => []DInv
BY InitDInv, StepDInv, PTL DEF Spec

\* Each part of the state keeps its shape, and nextQIndex stays an index.
THEOREM DownstreamTypes == Spec => []TypeOK
<1>1. DInv => TypeOK
  <2> SUFFICES ASSUME DInv PROVE TypeOK
    OBVIOUS
  <2>1. /\ queues.pon = [i \in 1 .. NumQueues |-> <<>>]
        /\ queues.next \in 1 .. NumQueues /\ queues.allEmpty \in BOOLEAN
    BY DEF DInv, EmptyQueues
  <2>2. [i \in 1 .. NumQueues |-> <<>>] \in [1 .. NumQueues -> Seq(Frame)]
    <3>1. <<>> \in Seq(Frame)
      OBVIOUS
    <3> QED BY <3>1
  <2> QED BY <2>1, <2>2 DEF DInv, TypeOK
<1> QED BY <1>1, DInvAlways, PTL

(***************************************************************************)
(* The MAC control of the OLT never goes idle with a frame waiting: when   *)
(* it is idle and no frame is on its way to it, all it was given has been  *)
(* sent.  handleTxEnd stops without a timer, so this is what makes the     *)
(* next frame the only thing that has to wake it.                          *)
(***************************************************************************)
THEOREM IdleAlwaysMeansDone == Spec => []IdleMeansDone
<1>1. DInv => IdleMeansDone
  <2> SUFFICES ASSUME DInv, ~ sending, link = <<>> PROVE line = given
    BY DEF IdleMeansDone
  <2>1. tmp = <<>> /\ line \in Seq(Frame) /\ given = line \o (tmp \o link)
    BY DEF DInv
  <2>2. <<>> \o <<>> = <<>> /\ line \o <<>> = line
    <3>1. <<>> \in Seq(Frame)
      OBVIOUS
    <3> QED BY <2>1, <3>1, ConcatEmptySeq
  <2> QED BY <2>1, <2>2
<1> QED BY <1>1, DInvAlways, PTL

(***************************************************************************)
(* The queues of the OLT are never used: however frames, GATEs and ends of *)
(* transmission follow one another, processFrameFromHigherLayer always     *)
(* takes the direct path, and every frame waits in tmp_queue instead.      *)
(***************************************************************************)
THEOREM QueuesNeverUsed == Spec => []QueuesUnused
<1>1. DInv => QueuesUnused
  BY DEF DInv, EmptyQueues, QueuesUnused
<1> QED BY <1>1, DInvAlways, PTL

-----------------------------------------------------------------------------
(* Refinement *)

\* Every step from a state of the invariant is a step of the channel or a
\* stutter.
LEMMA ChannelStep ==
  ASSUME DInv, [Next]_vars
  PROVE  [Channel!Next]_(Channel!vars)
<1>0. /\ line \in Seq(Frame) /\ tmp \o link \in Seq(Frame)
      /\ given = line \o (tmp \o link)
  BY ConcatProperties DEF DInv
<1>1. CASE FrameArrives \/ SendMpcp
  BY <1>1, GiveStep DEF Channel!Next, Channel!Give
<1>2. CASE Take \/ Stop
  BY <1>2 DEF Take, Stop, Channel!vars
<1>3. CASE SendOldest
  <2>1. Len(line) < Len(given) /\ given[Len(line) + 1] = Head(tmp \o link)
    BY <1>0, <1>3, NextOfConcat DEF SendOldest
  <2> QED BY <1>3, <2>1 DEF SendOldest, Channel!Next, Channel!Deliver
<1>4. CASE UNCHANGED vars
  BY <1>4 DEF vars, Channel!vars
<1> QED BY <1>1, <1>2, <1>3, <1>4, MacStep DEF Next

(***************************************************************************)
(* The queue module and the MAC control of the OLT implement a FIFO        *)
(* channel: whatever is given to them, relay frames and MPCP frames alike, *)
(* is sent once, unchanged and in the order in which it was given.  (That  *)
(* all of it is sent, the fairness of ChannelSpec, is model-checked.)      *)
(***************************************************************************)
THEOREM ImplementsChannel ==
  Spec => Channel!Init /\ [][Channel!Next]_(Channel!vars)
<1>1. Init => Channel!Init
  BY DEF Init, Channel!Init
<1>2. DInv /\ [Next]_vars => [Channel!Next]_(Channel!vars)
  BY ChannelStep
<1> QED BY <1>1, <1>2, DInvAlways, PTL DEF Spec
=============================================================================
