--------------------------- MODULE OnuMacCtlProofs ---------------------------
(***************************************************************************)
(* Proofs about an ONU without polling, for any slots, frames, clocks and  *)
(* numbers of queues: about the functions of ONUMacCtl_NP first, one after *)
(* the other, and then about the events that call them.                    *)
(***************************************************************************)
EXTENDS OnuMacCtl, ProofBasics

States == {"init", "on", "off", "idle", "sleep", "error"}
Clocks == 0 .. ClockMax - 1
Packets == Seq(Frame \union {WakeUp})

\* The transmitter has a timer unless it is idle, and a frame to send in "tx".
Macs ==
  {m \in [state : {"idle", "ifg", "tx"}, queue : Seq(Frame), timer : Timer] :
     (m.state = "idle" => m.timer = None) /\ (m.state = "tx" => m.queue # <<>>)}
Queues == [pon : [1 .. NumQueues -> Seq(Frame)], next : 1 .. NumQueues, allEmpty : BOOLEAN]
Onus ==
  [clock : Clocks, start : Clocks, len : 0 .. ClockMax, state : States, gates : Nat,
   startTx : Timer, stopTx : Timer, tmp : Seq(Frame), link : Packets, mac : Macs, q : Queues]

-----------------------------------------------------------------------------
(* The registers *)

LEMMA Parameters ==
  /\ ClockMax \in Nat /\ ClockMax > 0 /\ SlotTime \in Nat /\ SlotTime > 0 /\ Delay \in Nat
  /\ Ifg \in Nat /\ Ifg > 0 /\ Extra \in Nat /\ None \notin Nat /\ NumQueues \in Nat /\ NumQueues > 0
  /\ QueueLimit \in Nat
BY OnuParameters

\* Registers of 32 bits.
LEMMA U32Facts ==
  ASSUME NEW x \in Int
  PROVE  U32(x) \in 0 .. ClockMax /\ (x \in 0 .. ClockMax => U32(x) = x)
BY Parameters DEF U32

LEMMA FrameFacts ==
  ASSUME NEW f \in Frame
  PROVE  f.air \in Nat /\ f.air > 0 /\ Needed(f) \in Nat /\ Needed(f) = f.air + Ifg
<1>1. f.air \in Nat \ {0}
  BY OnuInputs DEF Frame
<1> QED BY <1>1, Parameters DEF Needed

\* The slot in the registers of an ONU.
LEMMA RemainingFacts ==
  ASSUME NEW s \in Onus
  PROVE  Remaining(s) \in Nat /\ End(s) \in Nat
<1>1. s.start \in Int /\ s.len \in Int /\ s.clock \in Int
  BY DEF Onus, Clocks
<1> QED BY <1>1, U32Facts DEF Remaining, End

\* scheduleStartTxPeriod never schedules startTxMsg before the start register.
LEMMA ScheduleStartFacts ==
  ASSUME NEW s \in Onus
  PROVE  /\ ScheduleStart(s) \in Onus
         /\ ScheduleStart(s).startTx \in Nat
         /\ s.clock + ScheduleStart(s).startTx >= s.start
         /\ ScheduleStart(s) = [s EXCEPT !.state = "off", !.startTx = ScheduleStart(s).startTx]
<1> DEFINE at == IF s.start # 0 /\ s.start + s.len < s.clock
                 THEN ClockMax - s.clock + s.start
                 ELSE IF s.start >= s.clock THEN s.start - s.clock ELSE 0
<1>1. at \in Nat /\ s.clock + at >= s.start
  BY Parameters DEF Onus, Clocks
<1>2. ScheduleStart(s) = [s EXCEPT !.state = "off", !.startTx = at]
  BY DEF ScheduleStart
<1> HIDE DEF at
<1>3. ScheduleStart(s).startTx = at /\ ScheduleStart(s) \in Onus
  BY <1>1, <1>2 DEF Onus, States, Timer
<1> QED BY <1>1, <1>2, <1>3

\* A shift by n super slots, and startTxMsg scheduled for it.
LEMMA ShiftStartFacts ==
  ASSUME NEW s \in Onus, NEW n \in Nat
  PROVE  /\ ShiftStart(s, n) \in Onus
         /\ ShiftStart(s, n).startTx \in Nat
         /\ s.clock + ShiftStart(s, n).startTx >= ShiftStart(s, n).start
         /\ ShiftStart(s, n) = [s EXCEPT !.state = "off",
                                         !.start = (s.start + n * SlotTime) % ClockMax,
                                         !.startTx = ShiftStart(s, n).startTx]
<1> DEFINE start == (s.start + n * SlotTime) % ClockMax
           t == [s EXCEPT !.start = start]
<1>1. start \in Clocks
  <2>1. s.start \in Nat /\ n * SlotTime \in Nat
    BY Parameters DEF Onus, Clocks
  <2> HIDE DEF start
  <2>2. s.start + n * SlotTime \in Nat
    BY <2>1
  <2> QED BY <2>2, Parameters DEF Clocks, start
<1> HIDE DEF start
<1>2. t \in Onus /\ t.clock = s.clock /\ t.start = start
  BY <1>1 DEF Onus
<1>3. ShiftStart(s, n) = ScheduleStart(t)
  BY DEF ShiftStart, start
<1>4. [t EXCEPT !.state = "off", !.startTx = ScheduleStart(t).startTx]
        = [s EXCEPT !.state = "off", !.start = start, !.startTx = ScheduleStart(t).startTx]
  BY DEF Onus
<1> HIDE DEF t
<1>5. /\ ScheduleStart(t) \in Onus /\ ScheduleStart(t).startTx \in Nat
      /\ t.clock + ScheduleStart(t).startTx >= t.start
      /\ ScheduleStart(t) = [t EXCEPT !.state = "off", !.startTx = ScheduleStart(t).startTx]
  BY <1>2, ScheduleStartFacts
<1>6. ScheduleStart(t).start = start
  BY <1>1, <1>2, <1>5 DEF Onus
<1> QED BY <1>2, <1>3, <1>4, <1>5, <1>6 DEF start

-----------------------------------------------------------------------------
(* The queues *)

\* requestPacket, as RequestFacts states it of any queues.
LEMMA PacketFacts ==
  ASSUME NEW q \in Queues
  PROVE  /\ RequestPacket(q) \in Queues
         /\ PacketFor(q) \in Packets
         /\ PacketFor(q) # <<>> \/ (NoFrame(RequestPacket(q).pon) /\ RequestPacket(q).allEmpty)
<1>1. Queues = RoundRobins(NumQueues, Frame) /\ NumQueues \in Nat \ {0}
  BY Parameters DEF Queues, RoundRobins
<1>2. /\ RequestPacket(q) \in Queues
      /\ PacketFor(q) = <<>> \/ \E f \in Frame : PacketFor(q) = <<f>>
      /\ PacketFor(q) # <<>> \/ (NoFrame(RequestPacket(q).pon) /\ RequestPacket(q).allEmpty)
  BY <1>1, RequestFacts
<1>3. <<>> \in Packets /\ \A f \in Frame : <<f>> \in Packets
  BY DEF Packets
<1> QED BY <1>2, <1>3

-----------------------------------------------------------------------------
(* The transmitter *)

LEMMA MacSendFacts ==
  ASSUME NEW m \in Macs, NEW f \in Frame
  PROVE  MacSend(m, f) \in Macs /\ MacSend(m, f).queue = Append(m.queue, f)
<1> DEFINE state == IF m.state = "idle" THEN "ifg" ELSE m.state
           timer == IF m.state = "idle" THEN Ifg ELSE m.timer
           queue == Append(m.queue, f)
<1>1. MacSend(m, f) = [m EXCEPT !.queue = queue, !.state = state, !.timer = timer]
  BY DEF MacSend, Macs
<1>2. queue \in Seq(Frame) /\ queue # <<>>
  BY AppendProperties DEF Macs
<1>3. state \in {"ifg", "tx"} /\ timer \in Timer
  BY Parameters DEF Macs, Timer
<1> HIDE DEF state, timer, queue
<1> QED BY <1>1, <1>2, <1>3 DEF Macs, queue

LEMMA MacTimerFacts ==
  ASSUME NEW m \in Macs, m.timer = 0
  PROVE  LET n == IF m.state = "ifg" THEN MacEndIFG(m) ELSE MacEndTx(m)
         IN  n \in Macs /\ Len(n.queue) <= Len(m.queue)
<1>1. m.queue \in Seq(Frame) /\ Len(m.queue) \in Nat /\ 0 # None
  BY Parameters, LenProperties DEF Macs
<1>2. CASE m.state = "ifg" /\ m.queue = <<>>
  <2>1. MacInit \in Macs /\ Len(MacInit.queue) = 0
    BY Parameters DEF MacInit, Macs, Timer
  <2> QED BY <1>1, <1>2, <2>1 DEF MacEndIFG
<1>3. CASE m.state = "ifg" /\ m.queue # <<>>
  <2> DEFINE timer == Head(m.queue).air + Extra
  <2>1. timer \in Timer
    BY <1>1, <1>3, TailFacts, FrameFacts, Parameters DEF Timer
  <2> HIDE DEF timer
  <2>2. [m EXCEPT !.state = "tx", !.timer = timer] \in Macs
    BY <1>3, <2>1 DEF Macs
  <2>3. [m EXCEPT !.state = "tx", !.timer = timer].queue = m.queue
    BY DEF Macs
  <2> QED BY <1>1, <1>3, <2>2, <2>3 DEF MacEndIFG, timer
<1>4. CASE m.state # "ifg"
  <2>1. m.queue # <<>>
    BY <1>1, <1>4 DEF Macs
  <2>2. Tail(m.queue) \in Seq(Frame) /\ Len(Tail(m.queue)) <= Len(m.queue)
    BY <1>1, <2>1, TailFacts
  <2>3. MacEndTx(m) \in Macs /\ MacEndTx(m).queue = Tail(m.queue)
    BY <2>2, Parameters DEF MacEndTx, Macs, Timer
  <2> QED BY <1>4, <2>2, <2>3
<1> QED BY <1>2, <1>3, <1>4

-----------------------------------------------------------------------------
(* startTxOnPON *)

\* What the function never touches.
Same(s, t) == t.clock = s.clock /\ t.len = s.len /\ t.gates = s.gates

\* On to a later slot, for which startTxMsg is scheduled.
Moves(s, t, n) ==
  /\ t.state = "off" /\ t.startTx \in Nat /\ t.clock + t.startTx >= t.start
  /\ t.start = (s.start + n * SlotTime) % ClockMax
  /\ t.stopTx \in {s.stopTx, None}
  /\ t.tmp = s.tmp \/ (s.tmp # <<>> /\ t.tmp = Tail(s.tmp))
  /\ t.mac = s.mac /\ t.q = s.q /\ t.link = s.link

\* 64 byte times for the transmitter.
Waits(s, t) ==
  /\ Len(s.mac.queue) > 1
  /\ t = [s EXCEPT !.startTx = Delay]

\* Before the first slot: off, with a request.
Asks(s, t) ==
  /\ s.start = 0 /\ s.tmp = <<>>
  /\ t.state = "off"
  /\ t.start = s.start /\ t.tmp = s.tmp /\ t.startTx = s.startTx /\ t.stopTx = s.stopTx
  /\ t.mac = s.mac

\* Idle, with a request, until the slot ends.
Idles(s, t) ==
  /\ s.start # 0 /\ s.tmp = <<>> /\ Len(s.mac.queue) <= 1
  /\ t.state = "idle" /\ t.startTx = None /\ t.stopTx \in Nat
  /\ t.start = s.start /\ t.tmp = s.tmp /\ t.mac = s.mac

\* A frame that fits in what is left of the slot goes to the transmitter.
Transmits(s, t) ==
  /\ s.tmp # <<>>
  /\ s.start # 0 => s.clock <= End(s)
  /\ Needed(Head(s.tmp)) <= Remaining(s)
  /\ t = [s EXCEPT !.state = "on", !.tmp = Tail(s.tmp), !.startTx = Needed(Head(s.tmp)),
                   !.mac = MacSend(s.mac, Head(s.tmp))]

\* What startTxOnPON, or a caller of its branches, may lead to.
StartOutcome(s, t) ==
  \/ Moves(s, t, 1) /\ (s.start # 0 \/ s.tmp # <<>> \/ Len(s.mac.queue) > 1)
  \/ Waits(s, t) \/ Asks(s, t) \/ Idles(s, t) \/ Transmits(s, t)

LEMMA MovesFacts ==
  ASSUME NEW s \in Onus, NEW n \in Nat
  PROVE  /\ ShiftStart(s, n) \in Onus
         /\ Same(s, ShiftStart(s, n)) /\ Moves(s, ShiftStart(s, n), n)
<1> PICK t : t = ShiftStart(s, n)
  OBVIOUS
<1>1. /\ t \in Onus /\ t.startTx \in Nat /\ s.clock + t.startTx >= t.start
      /\ t = [s EXCEPT !.state = "off", !.start = (s.start + n * SlotTime) % ClockMax,
                       !.startTx = t.startTx]
  BY ShiftStartFacts
<1> DEFINE start == (s.start + n * SlotTime) % ClockMax
<1> HIDE DEF start
<1>2. t = [s EXCEPT !.state = "off", !.start = start, !.startTx = t.startTx]
  BY <1>1 DEF start
<1>3. /\ t.state = "off" /\ t.start = start /\ t.clock = s.clock /\ t.len = s.len
      /\ t.gates = s.gates /\ t.stopTx = s.stopTx /\ t.tmp = s.tmp /\ t.mac = s.mac
      /\ t.q = s.q /\ t.link = s.link
  BY <1>2 DEF Onus
<1> QED BY <1>1, <1>3 DEF Same, Moves, start

LEMMA RequestsFacts ==
  ASSUME NEW s \in Onus
  PROVE  LET t == Request(s)
         IN  /\ t \in Onus /\ Same(s, t)
             /\ t.start = s.start /\ t.state = s.state /\ t.tmp = s.tmp /\ t.mac = s.mac
             /\ t.startTx = s.startTx /\ t.stopTx = s.stopTx
             /\ t.link # <<>> \/ (NoFrame(t.q.pon) /\ t.q.allEmpty)
<1> DEFINE q == RequestPacket(s.q)
           link == s.link \o PacketFor(s.q)
           t == [s EXCEPT !.q = q, !.link = link]
<1>1. s.q \in Queues /\ s.link \in Packets
  BY DEF Onus
<1>2. /\ q \in Queues /\ PacketFor(s.q) \in Packets
      /\ PacketFor(s.q) # <<>> \/ (NoFrame(q.pon) /\ q.allEmpty)
  BY <1>1, PacketFacts
<1>3. link \in Packets /\ (PacketFor(s.q) # <<>> => link # <<>>)
  <2> DEFINE p == PacketFor(s.q)
  <2>1. p \in Packets
    BY <1>2
  <2> HIDE DEF p
  <2>2. s.link \o p \in Packets /\ (p # <<>> => s.link \o p # <<>>)
    BY <1>1, <2>1, ConcatProperties, EmptySeq DEF Packets
  <2> QED BY <2>2 DEF p
<1>4. Request(s) = t
  BY DEF Request, Onus
<1> HIDE DEF q, link
<1>5. t \in Onus
  BY <1>2, <1>3 DEF Onus
<1>6. /\ Same(s, t) /\ t.start = s.start /\ t.state = s.state /\ t.tmp = s.tmp
      /\ t.mac = s.mac /\ t.startTx = s.startTx /\ t.stopTx = s.stopTx
      /\ t.q = q /\ t.link = link
  BY DEF Onus, Same
<1> QED BY <1>2, <1>3, <1>4, <1>5, <1>6

\* goToIdle.
LEMMA RestFacts ==
  ASSUME NEW s \in Onus
  PROVE  /\ GoToIdle(s) \in Onus
         /\ GoToIdle(s) = [s EXCEPT !.state = "idle", !.startTx = None, !.stopTx = Remaining(s)]
         /\ Remaining(s) \in Nat
<1>1. Remaining(s) \in Nat
  BY RemainingFacts
<1>2. GoToIdle(s) = [s EXCEPT !.state = "idle", !.startTx = None, !.stopTx = Remaining(s)]
  BY DEF GoToIdle, ScheduleStop, Remaining, Onus
<1>3. [s EXCEPT !.state = "idle", !.startTx = None, !.stopTx = Remaining(s)] \in Onus
  BY <1>1 DEF Onus, States, Timer
<1> QED BY <1>1, <1>2, <1>3

LEMMA FragmentedFacts ==
  ASSUME NEW s \in Onus, s.tmp # <<>>
  PROVE  Fragmented(s) \in Onus /\ Same(s, Fragmented(s)) /\ Moves(s, Fragmented(s), 1)
<1> PICK t : t = ShiftStart(s, 1)
  OBVIOUS
<1>1. t \in Onus /\ Same(s, t) /\ Moves(s, t, 1) /\ t.tmp = s.tmp
  <2>1. t = [s EXCEPT !.state = "off", !.start = (s.start + 1 * SlotTime) % ClockMax,
                      !.startTx = t.startTx]
    BY ShiftStartFacts
  <2>2. t.tmp = s.tmp
    BY <2>1 DEF Onus
  <2> QED BY <2>2, MovesFacts
<1> DEFINE tmp == IF s.len < Needed(Head(s.tmp)) THEN Tail(s.tmp) ELSE s.tmp
           u == [t EXCEPT !.stopTx = None, !.tmp = tmp]
<1>2. Fragmented(s) = u
  BY <1>1 DEF Fragmented, Onus
<1>3. tmp \in Seq(Frame) /\ tmp \in {s.tmp, Tail(s.tmp)}
  BY TailFacts DEF Onus
<1> HIDE DEF tmp
<1>4. u \in Onus
  BY <1>1, <1>3 DEF Onus, Timer
<1>5. Same(s, u)
  BY <1>1 DEF Onus, Same
<1>6. Moves(s, u, 1)
  <2>1. /\ u.state = t.state /\ u.startTx = t.startTx /\ u.start = t.start /\ u.clock = t.clock
        /\ u.stopTx = None /\ u.tmp = tmp /\ u.mac = t.mac /\ u.q = t.q /\ u.link = t.link
    BY <1>1 DEF Onus
  <2> HIDE DEF u
  <2> QED BY <1>1, <1>3, <2>1 DEF Moves
<1> QED BY <1>2, <1>4, <1>5, <1>6

LEMMA SendFrameFacts ==
  ASSUME NEW s \in Onus, s.tmp # <<>>
  PROVE  /\ SendFrame(s) \in Onus /\ Same(s, SendFrame(s))
         /\ SendFrame(s) = [s EXCEPT !.state = "on", !.tmp = Tail(s.tmp),
                                     !.startTx = Needed(Head(s.tmp)),
                                     !.mac = MacSend(s.mac, Head(s.tmp))]
<1> DEFINE f == Head(s.tmp)
           mac == MacSend(s.mac, f)
           t == [s EXCEPT !.state = "on", !.tmp = Tail(s.tmp), !.startTx = Needed(f), !.mac = mac]
<1>1. f \in Frame /\ Tail(s.tmp) \in Seq(Frame) /\ s.mac \in Macs
  BY TailFacts DEF Onus
<1>2. SendFrame(s) = t
  BY DEF SendFrame, Onus
<1> HIDE DEF f
<1>3. mac \in Macs /\ Needed(f) \in Timer
  BY <1>1, MacSendFacts, FrameFacts DEF Timer
<1> HIDE DEF mac
<1>4. t \in Onus /\ Same(s, t)
  BY <1>1, <1>3 DEF Onus, States, Same
<1> QED BY <1>2, <1>4 DEF f, mac

(***************************************************************************)
(* startTxOnPON leads to one of five states: the next slot, a wait for the *)
(* transmitter, a request before the first slot, idle with a request, or a *)
(* transmission.                                                           *)
(***************************************************************************)
LEMMA StartTxFacts ==
  ASSUME NEW s \in Onus
  PROVE  /\ StartTxOnPON(s) \in Onus
         /\ Same(s, StartTxOnPON(s)) /\ StartOutcome(s, StartTxOnPON(s))
<1> PICK t : t = StartTxOnPON(s)
  OBVIOUS
<1>0. /\ s.mac.queue \in Seq(Frame) /\ Len(s.mac.queue) \in Nat
      /\ s.tmp \in Seq(Frame)
  <2>1. s.mac \in Macs /\ s.tmp \in Seq(Frame)
    BY DEF Onus
  <2>2. s.mac.queue \in Seq(Frame)
    BY <2>1 DEF Macs
  <2> QED BY <2>1, <2>2, LenProperties
<1>1. MacBacklog(s.mac) > 0 <=> Len(s.mac.queue) > 1
  BY <1>0, EmptySeq DEF MacBacklog
<1>2. CASE s.start # 0 /\ s.clock > End(s)
  <2>1. t = ShiftStart(s, 1)
    BY <1>2 DEF StartTxOnPON
  <2> QED BY <1>2, <2>1, MovesFacts DEF StartOutcome
<1>3. CASE ~ (s.start # 0 /\ s.clock > End(s)) /\ MacBacklog(s.mac) > 0
  <2>1. CASE Remaining(s) > Delay
    <3>1. t = [s EXCEPT !.startTx = Delay]
      BY <1>3, <2>1 DEF StartTxOnPON
    <3>2. t \in Onus /\ Same(s, t)
      BY <3>1, Parameters DEF Onus, Same, Timer
    <3> QED BY <1>1, <1>3, <3>1, <3>2 DEF StartOutcome, Waits
  <2>2. CASE ~ (Remaining(s) > Delay)
    <3>1. t = ShiftStart(s, 1)
      BY <1>3, <2>2 DEF StartTxOnPON
    <3> QED BY <1>1, <1>3, <3>1, MovesFacts DEF StartOutcome
  <2> QED BY <2>1, <2>2
<1> DEFINE Free == ~ (s.start # 0 /\ s.clock > End(s)) /\ ~ (MacBacklog(s.mac) > 0)
<1>4. CASE Free /\ s.tmp = <<>> /\ s.start = 0
  <2> PICK r : r = Request(s)
    OBVIOUS
  <2>1. t = [r EXCEPT !.state = "off"]
    BY <1>4 DEF StartTxOnPON
  <2>2. /\ r \in Onus /\ Same(s, r)
        /\ r.start = s.start /\ r.tmp = s.tmp /\ r.mac = s.mac
        /\ r.startTx = s.startTx /\ r.stopTx = s.stopTx
    BY RequestsFacts
  <2>3. t \in Onus
    BY <2>1, <2>2 DEF Onus, States
  <2>4. Same(s, t) /\ Asks(s, t)
    BY <1>4, <2>1, <2>2 DEF Onus, Same, Asks
  <2> QED BY <2>3, <2>4 DEF StartOutcome
<1>5. CASE Free /\ s.tmp = <<>> /\ s.start # 0
  <2> PICK r : r = Request(s)
    OBVIOUS
  <2>1. t = GoToIdle(r)
    BY <1>5 DEF StartTxOnPON
  <2>2. /\ r \in Onus /\ Same(s, r)
        /\ r.start = s.start /\ r.tmp = s.tmp /\ r.mac = s.mac
    BY RequestsFacts
  <2>3. /\ t \in Onus /\ Remaining(r) \in Nat
        /\ t = [r EXCEPT !.state = "idle", !.startTx = None, !.stopTx = Remaining(r)]
    BY <2>1, <2>2, RestFacts
  <2> HIDE DEF Free
  <2>4. /\ t.state = "idle" /\ t.startTx = None /\ t.stopTx = Remaining(r) /\ t.start = r.start
        /\ t.tmp = r.tmp /\ t.mac = r.mac
        /\ t.clock = r.clock /\ t.len = r.len /\ t.gates = r.gates
    BY <2>2, <2>3 DEF Onus
  <2> USE DEF Free
  <2>5. Same(s, t)
    BY <2>2, <2>4 DEF Same
  <2>6. Idles(s, t)
    BY <1>0, <1>1, <1>5, <2>2, <2>3, <2>4 DEF Idles
  <2> QED BY <2>3, <2>5, <2>6 DEF StartOutcome
<1>6. CASE Free /\ s.tmp # <<>>
  <2>1. CASE Remaining(s) < Needed(Head(s.tmp))
    <3>1. t = Fragmented(s)
      BY <1>6, <2>1 DEF StartTxOnPON
    <3> QED BY <1>6, <3>1, FragmentedFacts DEF StartOutcome
  <2>2. CASE ~ (Remaining(s) < Needed(Head(s.tmp)))
    <3>1. t = SendFrame(s)
      BY <1>6, <2>2 DEF StartTxOnPON
    <3>2. /\ t \in Onus /\ Same(s, t)
          /\ t = [s EXCEPT !.state = "on", !.tmp = Tail(s.tmp), !.startTx = Needed(Head(s.tmp)),
                          !.mac = MacSend(s.mac, Head(s.tmp))]
      BY <1>6, <3>1, SendFrameFacts
    <3>3. s.start # 0 => s.clock <= End(s)
      BY <1>6, RemainingFacts DEF Onus, Clocks
    <3>4. Needed(Head(s.tmp)) <= Remaining(s)
      BY <1>0, <1>6, <2>2, TailFacts, FrameFacts, RemainingFacts
    <3> QED BY <1>6, <3>2, <3>3, <3>4 DEF StartOutcome, Transmits
  <2> QED BY <2>1, <2>2
<1> QED BY <1>2, <1>3, <1>4, <1>5, <1>6

-----------------------------------------------------------------------------
(* clockSync *)

\* The slots since the start register, rounded up.
LEMMA LostSlotsFacts ==
  ASSUME NEW s \in Onus
  PROVE  /\ LostSlots(s) \in Nat
         /\ s.start <= s.clock =>
              s.start + LostSlots(s) * SlotTime < s.clock + SlotTime
<1>1. s.start \in Clocks /\ s.clock \in Clocks
  BY DEF Onus
<1> DEFINE d == U32(s.clock - s.start)
           a == d + SlotTime - 1
           n == a \div SlotTime
<1>2. d \in 0 .. ClockMax /\ (s.start <= s.clock => d = s.clock - s.start)
  <2> DEFINE x == s.clock - s.start
  <2>1. x \in Int /\ x <= ClockMax /\ (s.start <= s.clock => x \in 0 .. ClockMax)
    BY <1>1, Parameters DEF Clocks
  <2> HIDE DEF x
  <2>2. U32(x) \in 0 .. ClockMax /\ (s.start <= s.clock => U32(x) = x)
    BY <2>1, U32Facts
  <2> QED BY <2>2 DEF x
<1> HIDE DEF d
<1>3. a \in Nat
  BY <1>2, Parameters
<1> HIDE DEF a
<1>4. n \in Nat /\ SlotTime * n <= a
  BY <1>3, Parameters, DivisionFacts
<1> HIDE DEF n
<1>5. LostSlots(s) = n
  BY DEF LostSlots, n, a, d
<1>6. ASSUME s.start <= s.clock PROVE s.start + n * SlotTime < s.clock + SlotTime
  <2>1. n * SlotTime = SlotTime * n /\ n * SlotTime \in Nat
    BY <1>4, Parameters
  <2>2. a = (s.clock - s.start) + SlotTime - 1
    BY <1>2, <1>6 DEF a
  <2> QED BY <1>1, <1>4, <2>1, <2>2, Parameters DEF Clocks
<1> QED BY <1>4, <1>5, <1>6

\* Either the clock register is set and nothing else, or it has wrapped and the
\* transmitter is switched off.
LEMMA ClockSyncFacts ==
  ASSUME NEW s \in Onus, NEW now \in Clocks
  PROVE  LET t == ClockSync(s, now)
         IN  /\ t \in Onus
             /\ t.mac = s.mac /\ t.tmp = s.tmp /\ t.link = s.link /\ t.q = s.q
             /\ t.gates = s.gates /\ t.len = s.len
             /\ t.state = "off" \/ t = [s EXCEPT !.clock = now]
             /\ s.clock <= now => t = [s EXCEPT !.clock = now]
<1> DEFINE u == [s EXCEPT !.clock = now]
           o == [u EXCEPT !.state = "off", !.startTx = None, !.stopTx = None]
<1>1. u \in Onus /\ o \in Onus
  BY DEF Onus, States, Timer
<1>2. /\ u.mac = s.mac /\ u.tmp = s.tmp /\ u.link = s.link /\ u.q = s.q
      /\ u.gates = s.gates /\ u.len = s.len
  BY DEF Onus
<1>3. /\ o.mac = s.mac /\ o.tmp = s.tmp /\ o.link = s.link /\ o.q = s.q
      /\ o.gates = s.gates /\ o.len = s.len /\ o.state = "off"
  BY DEF Onus
<1> HIDE DEF u, o
<1>4. CASE now >= s.clock
  <2>1. ClockSync(s, now) = u
    BY <1>4 DEF ClockSync, u
  <2> QED BY <1>1, <1>2, <2>1 DEF u
<1>5. CASE ~ (now >= s.clock)
  <2>0. ~ (s.clock <= now)
    BY <1>5 DEF Onus, Clocks
  <2>1. CASE s.start < now
    <3> DEFINE n == LostSlots(u)
    <3>1. ClockSync(s, now) = ShiftStart(u, n)
      BY <1>5, <2>1 DEF ClockSync, u
    <3>2. n \in Nat
      BY <1>1, LostSlotsFacts
    <3> HIDE DEF n
    <3> PICK t : t = ShiftStart(u, n)
      OBVIOUS
    <3>3. /\ t \in Onus /\ t = [u EXCEPT !.state = "off", !.start = (u.start + n * SlotTime) % ClockMax,
                                         !.startTx = t.startTx]
      BY <1>1, <3>2, ShiftStartFacts
    <3>4. /\ t.state = "off" /\ t.mac = u.mac /\ t.tmp = u.tmp /\ t.link = u.link /\ t.q = u.q
          /\ t.gates = u.gates /\ t.len = u.len
      BY <1>1, <3>3 DEF Onus
    <3> QED BY <1>2, <2>0, <3>1, <3>3, <3>4
  <2>2. CASE ~ (s.start < now)
    <3>1. ClockSync(s, now) = o
      BY <1>5, <2>2 DEF ClockSync, u, o
    <3> QED BY <1>1, <1>3, <2>0, <3>1
  <2> QED BY <2>1, <2>2
<1> QED BY <1>4, <1>5

-----------------------------------------------------------------------------
(* TX_IDLE and the timers *)

(***************************************************************************)
(* An idle ONU has nothing behind the frame on its line: startTxOnPON goes *)
(* to idle without a backlog, and only adds to it in another state.  So a  *)
(* wake-up never finds the transmitter busy, and startTxMsg is never set   *)
(* in TX_IDLE.                                                             *)
(***************************************************************************)
Sound(s) == s.state # "error" /\ (s.state = "idle" => Len(s.mac.queue) <= 1)
IdleInv(s) ==
  Sound(s) /\ (s.state = "idle" => s.startTx = None /\ s.stopTx # None)

\* One of the timers will look for what is waiting.
Timed(s) == s.start # 0 => s.startTx # None \/ s.stopTx # None

LEMMA StartTxRests ==
  ASSUME NEW s \in Onus, Sound(s)
  PROVE  IdleInv(StartTxOnPON(s)) /\ Timed(StartTxOnPON(s))
<1> PICK t : t = StartTxOnPON(s)
  OBVIOUS
<1>1. t \in Onus /\ StartOutcome(s, t)
  BY StartTxFacts
<1>2. CASE Moves(s, t, 1)
  BY <1>2, Parameters DEF Moves, IdleInv, Sound, Timed
<1>3. CASE Waits(s, t)
  <2>1. /\ t.state = s.state /\ t.startTx = Delay /\ Len(s.mac.queue) > 1
        /\ Len(s.mac.queue) \in Nat
    <3>1. s.mac.queue \in Seq(Frame)
      BY DEF Onus, Macs
    <3> QED BY <1>3, <3>1, LenProperties DEF Waits, Onus
  <2> QED BY <2>1, Parameters DEF IdleInv, Sound, Timed
<1>4. CASE Asks(s, t)
  BY <1>4 DEF Asks, IdleInv, Sound, Timed
<1>5. CASE Idles(s, t)
  BY <1>5, Parameters DEF Idles, IdleInv, Sound, Timed
<1>6. CASE Transmits(s, t)
  <2>1. Head(s.tmp) \in Frame
    BY <1>6, TailFacts DEF Transmits, Onus
  <2>2. t.state = "on" /\ t.startTx = Needed(Head(s.tmp))
    BY <1>6 DEF Transmits, Onus
  <2> QED BY <2>1, <2>2, FrameFacts, Parameters DEF IdleInv, Sound, Timed
<1> QED BY <1>1, <1>2, <1>3, <1>4, <1>5, <1>6 DEF StartOutcome

\* A shift leads to a state with startTxMsg scheduled.
LEMMA ShiftRests ==
  ASSUME NEW s \in Onus, NEW n \in Nat
  PROVE  IdleInv(ShiftStart(s, n)) /\ Timed(ShiftStart(s, n))
<1> PICK t : t = ShiftStart(s, n)
  OBVIOUS
<1>1. Moves(s, t, n)
  BY MovesFacts
<1> QED BY <1>1, Parameters DEF Moves, IdleInv, Sound, Timed

LEMMA ScheduleRests ==
  ASSUME NEW s \in Onus
  PROVE  IdleInv(ScheduleStart(s)) /\ Timed(ScheduleStart(s))
<1> PICK t : t = ScheduleStart(s)
  OBVIOUS
<1>1. t.startTx \in Nat /\ t = [s EXCEPT !.state = "off", !.startTx = t.startTx]
  BY ScheduleStartFacts
<1>2. t.state = "off" /\ t.startTx # None
  BY <1>1, Parameters DEF Onus
<1> QED BY <1>2 DEF IdleInv, Sound, Timed

\* clockSync leaves an idle ONU its timers.
LEMMA ClockSyncRests ==
  ASSUME NEW s \in Onus, NEW now \in Clocks
  PROVE  /\ Sound(s) => Sound(ClockSync(s, now))
         /\ IdleInv(s) => IdleInv(ClockSync(s, now))
<1> PICK t : t = ClockSync(s, now)
  OBVIOUS
<1>1. t.state = "off" \/ t = [s EXCEPT !.clock = now]
  BY ClockSyncFacts
<1>2. CASE t.state = "off"
  BY <1>2 DEF IdleInv, Sound
<1>3. CASE t = [s EXCEPT !.clock = now]
  <2>1. /\ t.state = s.state /\ t.startTx = s.startTx /\ t.stopTx = s.stopTx
        /\ t.mac = s.mac
    BY <1>3 DEF Onus
  <2> QED BY <2>1 DEF IdleInv, Sound
<1> QED BY <1>1, <1>2, <1>3

-----------------------------------------------------------------------------
(* The other functions *)

Slots == [start : Clocks, length : 0 .. ClockMax]

\* handleStopTxPeriod: to sleep, with a request, or to the next slot.
LEMMA StopTxFacts ==
  ASSUME NEW s \in Onus
  PROVE  LET t == StopTxPeriod(s)
         IN  /\ t \in Onus /\ Same(s, t) /\ IdleInv(t)
             /\ \/ /\ t.state = "sleep" /\ s.tmp = <<>>
                   /\ t.start = s.start /\ t.tmp = s.tmp /\ t.mac = s.mac
                   /\ t.startTx = s.startTx /\ t.stopTx = s.stopTx
                   /\ t.link # <<>> \/ (NoFrame(t.q.pon) /\ t.q.allEmpty)
                \/ Moves(s, t, 1) /\ s.tmp # <<>> /\ Timed(t)
<1> DEFINE off == [s EXCEPT !.state = "off"]
<1>1. off \in Onus
  BY DEF Onus, States
<1>2. /\ off.start = s.start /\ off.tmp = s.tmp /\ off.mac = s.mac /\ off.clock = s.clock
      /\ off.len = s.len /\ off.gates = s.gates /\ off.startTx = s.startTx
      /\ off.stopTx = s.stopTx /\ off.q = s.q /\ off.link = s.link
  BY DEF Onus
<1> PICK t : t = StopTxPeriod(s)
  OBVIOUS
<1>3. t = IF s.tmp = <<>> THEN GoToSleep(off) ELSE ShiftStart(off, 1)
  BY DEF StopTxPeriod
<1> HIDE DEF off
<1>4. CASE s.tmp = <<>>
  <2> PICK r : r = Request(off)
    OBVIOUS
  <2>1. t = [r EXCEPT !.state = "sleep"]
    BY <1>3, <1>4 DEF GoToSleep
  <2>2. /\ r \in Onus /\ Same(off, r)
        /\ r.start = off.start /\ r.tmp = off.tmp /\ r.mac = off.mac
        /\ r.startTx = off.startTx /\ r.stopTx = off.stopTx
        /\ r.link # <<>> \/ (NoFrame(r.q.pon) /\ r.q.allEmpty)
    BY <1>1, RequestsFacts
  <2>3. t \in Onus
    BY <2>1, <2>2 DEF Onus, States
  <2>4. /\ t.state = "sleep" /\ t.start = r.start /\ t.tmp = r.tmp /\ t.mac = r.mac
        /\ t.startTx = r.startTx /\ t.stopTx = r.stopTx /\ t.link = r.link /\ t.q = r.q
        /\ t.clock = r.clock /\ t.len = r.len /\ t.gates = r.gates
    BY <2>1, <2>2 DEF Onus
  <2> QED BY <1>2, <1>4, <2>2, <2>3, <2>4 DEF Same, IdleInv, Sound
<1>5. CASE s.tmp # <<>>
  <2>1. t \in Onus /\ Same(off, t) /\ Moves(off, t, 1) /\ IdleInv(t) /\ Timed(t)
    BY <1>1, <1>3, <1>5, MovesFacts, ShiftRests
  <2>2. Same(s, t) /\ Moves(s, t, 1)
    BY <1>2, <2>1 DEF Same, Moves
  <2> QED BY <1>5, <2>1, <2>2
<1> QED BY <1>4, <1>5

\* What waits in the MAC control may be taken from its timer for a start.
LEMMA StopCleared ==
  ASSUME NEW s \in Onus
  PROVE  LET t == [s EXCEPT !.stopTx = None]
         IN  /\ t \in Onus /\ Same(s, t) /\ t.start = s.start /\ t.tmp = s.tmp
             /\ t.mac = s.mac /\ t.q = s.q /\ t.link = s.link /\ t.startTx = s.startTx
             /\ t.stopTx = None /\ t.state = s.state /\ (Sound(s) => Sound(t))
BY DEF Onus, Same, Sound, Timer

(***************************************************************************)
(* A frame or a WAKE UP from the queues: dropped before the first slot,    *)
(* kept for a timer that runs, or the reason to look for the slot.         *)
(***************************************************************************)
PutInTmp(s, m) == IF m = WakeUp THEN s ELSE [s EXCEPT !.tmp = Append(@, m)]

LEMMA PutInTmpFacts ==
  ASSUME NEW s \in Onus, NEW m \in Frame \union {WakeUp}
  PROVE  LET t == PutInTmp(s, m)
         IN  /\ t \in Onus /\ Same(s, t) /\ t.start = s.start /\ t.state = s.state
             /\ t.startTx = s.startTx /\ t.stopTx = s.stopTx /\ t.mac = s.mac
             /\ t.q = s.q /\ t.link = s.link
<1>1. CASE m = WakeUp
  BY <1>1 DEF PutInTmp, Same
<1>2. CASE m # WakeUp
  <2> DEFINE tmp == Append(s.tmp, m)
  <2>1. tmp \in Seq(Frame)
    BY <1>2, AppendProperties DEF Onus
  <2>2. PutInTmp(s, m) = [s EXCEPT !.tmp = tmp]
    BY <1>2 DEF PutInTmp, Onus
  <2> HIDE DEF tmp
  <2> QED BY <2>1, <2>2 DEF Onus, Same
<1> QED BY <1>1, <1>2

\* What Reschedule may do with an ONU that is idle or asleep.
Looks(s, t) ==
  \/ s.state = "sleep" /\ s.clock < s.start /\ t = ScheduleStart(s)
  \/ /\ s.state = "idle" \/ (s.state = "sleep" /\ InSlot(s))
     /\ t = StartTxOnPON([s EXCEPT !.stopTx = None])
  \/ s.state = "sleep" /\ ~ (s.clock < s.start) /\ t = ShiftStart(s, LostSlots(s))

LEMMA HigherLayerFacts ==
  ASSUME NEW s \in Onus, NEW m \in Frame \union {WakeUp}
  PROVE  LET t == FromHigherLayer(s, m)
         IN  \/ s.start = 0 /\ t = s
             \/ s.start # 0 /\ s.state \notin {"idle", "sleep"} /\ t = PutInTmp(s, m)
             \/ s.start # 0 /\ s.state \in {"idle", "sleep"} /\ Looks(PutInTmp(s, m), t)
<1> PICK k : k = PutInTmp(s, m)
  OBVIOUS
<1>1. k \in Onus /\ k.state = s.state
  BY PutInTmpFacts
<1>2. s.start # 0 => FromHigherLayer(s, m) = Reschedule(k)
  BY DEF FromHigherLayer, PutInTmp
<1>3. s.start = 0 => FromHigherLayer(s, m) = s
  BY DEF FromHigherLayer
<1>4. CASE k.state \notin {"idle", "sleep"}
  BY <1>1, <1>2, <1>3, <1>4 DEF Reschedule
<1>5. CASE k.state \in {"idle", "sleep"}
  BY <1>1, <1>2, <1>3, <1>5 DEF Reschedule, Looks
<1> QED BY <1>4, <1>5

LEMMA LooksFacts ==
  ASSUME NEW s \in Onus, Sound(s), NEW t, Looks(s, t)
  PROVE  t \in Onus /\ IdleInv(t) /\ Timed(t) /\ t.gates = s.gates /\ t.clock = s.clock
<1>1. CASE t = ScheduleStart(s)
  <2>1. t \in Onus /\ t = [s EXCEPT !.state = "off", !.startTx = t.startTx]
    BY <1>1, ScheduleStartFacts
  <2>2. t.gates = s.gates /\ t.clock = s.clock
    BY <2>1 DEF Onus
  <2> QED BY <1>1, <2>1, <2>2, ScheduleRests
<1>2. CASE t = StartTxOnPON([s EXCEPT !.stopTx = None])
  <2> PICK u : u = [s EXCEPT !.stopTx = None]
    OBVIOUS
  <2>1. u \in Onus /\ Same(s, u) /\ Sound(u)
    BY StopCleared
  <2> QED BY <1>2, <2>1, StartTxFacts, StartTxRests DEF Same
<1>3. CASE t = ShiftStart(s, LostSlots(s))
  <2>1. LostSlots(s) \in Nat
    BY LostSlotsFacts
  <2> QED BY <1>3, <2>1, MovesFacts, ShiftRests DEF Same
<1> QED BY <1>1, <1>2, <1>3 DEF Looks

\* processMPCP: the registers of a GATE, and what they lead to.
NewSlot(s, g) == [s EXCEPT !.start = g.start, !.len = g.length, !.gates = s.gates + 1]

GateOutcome(s, g, t) ==
  LET new == NewSlot(s, g)
  IN  \/ s.gates = 0 /\ t = ScheduleStart([new EXCEPT !.stopTx = None])
      \/ s.gates # 0 /\ new.clock > End(new) /\ t = ShiftStart(new, LostSlots(new))
      \/ s.gates # 0 /\ InSlot(new) /\ t = StartTxOnPON(ScheduleStop(new))
      \/ /\ s.gates # 0 /\ ~ (new.clock > End(new)) /\ ~ InSlot(new)
         /\ t = ScheduleStart(new)

LEMMA NewSlotFacts ==
  ASSUME NEW s \in Onus, NEW g \in Slots
  PROVE  LET t == NewSlot(s, g)
         IN  /\ t \in Onus /\ t.start = g.start /\ t.len = g.length /\ t.gates = s.gates + 1
             /\ t.clock = s.clock /\ t.state = s.state /\ t.startTx = s.startTx
             /\ t.stopTx = s.stopTx /\ t.tmp = s.tmp /\ t.mac = s.mac /\ t.q = s.q
             /\ t.link = s.link
<1>1. g.start \in Clocks /\ g.length \in 0 .. ClockMax /\ s.gates + 1 \in Nat
  BY DEF Slots, Onus
<1> DEFINE t == NewSlot(s, g)
<1>2. t \in Onus
  BY <1>1 DEF NewSlot, Onus
<1>3. /\ t.start = g.start /\ t.len = g.length /\ t.gates = s.gates + 1
      /\ t.clock = s.clock /\ t.state = s.state /\ t.startTx = s.startTx
      /\ t.stopTx = s.stopTx /\ t.tmp = s.tmp /\ t.mac = s.mac /\ t.q = s.q
      /\ t.link = s.link
  BY DEF NewSlot, Onus
<1> QED BY <1>2, <1>3

LEMMA ScheduleStopFacts ==
  ASSUME NEW s \in Onus
  PROVE  LET t == ScheduleStop(s)
         IN  /\ t \in Onus /\ Same(s, t) /\ t.start = s.start /\ t.tmp = s.tmp
             /\ t.mac = s.mac /\ t.q = s.q /\ t.link = s.link /\ t.startTx = s.startTx
             /\ t.stopTx \in Nat /\ t.state = s.state
<1> DEFINE stop == Remaining(s)
<1>1. stop \in Nat
  BY RemainingFacts
<1>2. ScheduleStop(s) = [s EXCEPT !.stopTx = stop]
  BY DEF ScheduleStop
<1> HIDE DEF stop
<1> QED BY <1>1, <1>2 DEF Onus, Same, Timer

LEMMA GateFacts ==
  ASSUME NEW s \in Onus, NEW g \in Slots, Sound(s)
  PROVE  LET t == ProcessGate(s, g)
         IN  /\ GateOutcome(s, g, t)
             /\ t \in Onus /\ IdleInv(t) /\ Timed(t)
             /\ t.gates = s.gates + 1 /\ t.clock = s.clock
<1> PICK t : t = ProcessGate(s, g)
  OBVIOUS
<1> PICK new : new = NewSlot(s, g)
  OBVIOUS
<1>1. GateOutcome(s, g, t)
  BY DEF ProcessGate, GateOutcome, NewSlot, Onus
<1>2. /\ new \in Onus /\ Sound(new) /\ new.gates = s.gates + 1
      /\ new.clock = s.clock
  BY NewSlotFacts DEF Sound
<1>3. CASE t = ScheduleStart(new) \/ t = ScheduleStart([new EXCEPT !.stopTx = None])
  <2>1. PICK u \in Onus : t = ScheduleStart(u) /\ Same(new, u)
    BY <1>2, <1>3, StopCleared DEF Same
  <2>2. t \in Onus /\ t = [u EXCEPT !.state = "off", !.startTx = t.startTx]
    BY <2>1, ScheduleStartFacts
  <2>3. t.gates = u.gates /\ t.clock = u.clock
    BY <2>2 DEF Onus
  <2> QED BY <1>1, <1>2, <2>1, <2>2, <2>3, ScheduleRests DEF Same
<1>4. CASE t = ShiftStart(new, LostSlots(new))
  <2>1. LostSlots(new) \in Nat
    BY <1>2, LostSlotsFacts
  <2> QED BY <1>1, <1>2, <1>4, <2>1, MovesFacts, ShiftRests DEF Same
<1>5. CASE t = StartTxOnPON(ScheduleStop(new))
  <2> PICK u : u = ScheduleStop(new)
    OBVIOUS
  <2>1. u \in Onus /\ Same(new, u) /\ Sound(u)
    BY <1>2, ScheduleStopFacts DEF Sound
  <2> QED BY <1>1, <1>2, <1>5, <2>1, StartTxFacts, StartTxRests DEF Same
<1> QED BY <1>1, <1>3, <1>4, <1>5 DEF GateOutcome

\* A frame from above: into its queue, with a WAKE UP if all were empty.
Arrived(s, i, f) == [s EXCEPT !.q = EnqueueFrame(@, i, f), !.link = @ \o WakeUpFor(s.q)]

LEMMA EnqueueFacts ==
  ASSUME NEW s \in Onus, NEW i \in 1 .. NumQueues, NEW f \in Frame,
         NEW t, t = Arrived(s, i, f)
  PROVE  /\ t \in Onus /\ Same(s, t) /\ t.start = s.start /\ t.state = s.state
         /\ t.startTx = s.startTx /\ t.stopTx = s.stopTx /\ t.tmp = s.tmp /\ t.mac = s.mac
         /\ s.link # <<>> \/ s.q.allEmpty => t.link # <<>>
<1> DEFINE q == EnqueueFrame(s.q, i, f)
           link == s.link \o WakeUpFor(s.q)
<1>1. s.q \in Queues /\ s.link \in Packets
  BY DEF Onus
<1>2. q \in Queues
  <2> DEFINE l == IF Len(s.q.pon[i]) >= QueueLimit THEN s.q.pon[i] ELSE Append(s.q.pon[i], f)
             pon == [s.q.pon EXCEPT ![i] = l]
  <2>1. s.q.pon \in [1 .. NumQueues -> Seq(Frame)]
    BY <1>1 DEF Queues
  <2>2. l \in Seq(Frame)
    BY <2>1, AppendProperties
  <2>3. q = [s.q EXCEPT !.allEmpty = FALSE, !.pon = pon]
    BY <1>1 DEF EnqueueFrame, Queues
  <2> HIDE DEF l
  <2>4. pon \in [1 .. NumQueues -> Seq(Frame)]
    BY <2>1, <2>2
  <2> HIDE DEF pon, q
  <2> QED BY <1>1, <2>3, <2>4 DEF Queues
<1>3. link \in Packets /\ (s.link # <<>> \/ s.q.allEmpty => link # <<>>)
  <2> DEFINE w == WakeUpFor(s.q)
  <2>1. w \in Packets /\ (s.q.allEmpty => w # <<>>)
    <3>1. <<>> \in Packets /\ <<WakeUp>> \in Packets /\ <<WakeUp>> # <<>>
      BY DEF Packets
    <3>2. CASE s.q.allEmpty
      BY <3>1, <3>2 DEF WakeUpFor
    <3>3. CASE ~ s.q.allEmpty
      BY <3>1, <3>3 DEF WakeUpFor
    <3> QED BY <3>2, <3>3
  <2> HIDE DEF w
  <2>2. s.link \o w \in Packets /\ (s.link # <<>> \/ w # <<>> => s.link \o w # <<>>)
    BY <1>1, <2>1, ConcatProperties, EmptySeq DEF Packets
  <2> QED BY <2>1, <2>2 DEF w
<1>4. t = [s EXCEPT !.q = q, !.link = link]
  BY DEF Arrived, Onus
<1> HIDE DEF q, link
<1> QED BY <1>2, <1>3, <1>4 DEF Onus, Same

-----------------------------------------------------------------------------
(* The events *)

\* Time passes for the timers.
LEMMA TickFacts ==
  ASSUME NEW s \in Onus, ~ OnuDue(s)
  PROVE  LET t == OnuTick(s)
         IN  /\ t \in Onus /\ Same(s, t) /\ t.start = s.start /\ t.state = s.state
             /\ t.tmp = s.tmp /\ t.link = s.link /\ t.q = s.q /\ t.mac.queue = s.mac.queue
             /\ t.startTx = Elapse(s.startTx) /\ t.stopTx = Elapse(s.stopTx)
             /\ t.startTx = None <=> s.startTx = None
             /\ t.stopTx = None <=> s.stopTx = None
<1>1. \A x \in Timer : x # 0 => Elapse(x) \in Timer /\ (Elapse(x) = None <=> x = None)
  BY Parameters DEF Timer, Elapse
<1>2. /\ s.startTx \in Timer /\ s.startTx # 0 /\ s.stopTx \in Timer /\ s.stopTx # 0
      /\ s.mac \in Macs /\ s.mac.timer # 0
  BY DEF OnuDue, Onus
<1> DEFINE m == [s.mac EXCEPT !.timer = Elapse(s.mac.timer)]
           start == Elapse(s.startTx)
           stop == Elapse(s.stopTx)
           t == [s EXCEPT !.startTx = start, !.stopTx = stop, !.mac = m]
<1>3. m \in Macs /\ m.queue = s.mac.queue
  <2>1. s.mac.timer \in Timer
    BY <1>2 DEF Macs
  <2>2. Elapse(s.mac.timer) \in Timer /\ (Elapse(s.mac.timer) = None <=> s.mac.timer = None)
    BY <1>1, <1>2, <2>1
  <2> DEFINE timer == Elapse(s.mac.timer)
  <2>3. timer \in Timer /\ (timer = None <=> s.mac.timer = None)
    BY <2>2
  <2>4. m = [s.mac EXCEPT !.timer = timer]
    OBVIOUS
  <2> HIDE DEF timer, m
  <2> QED BY <1>2, <2>3, <2>4 DEF Macs
<1>4. OnuTick(s) = t
  BY DEF OnuTick, Onus
<1>5. /\ start \in Timer /\ (start = None <=> s.startTx = None)
      /\ stop \in Timer /\ (stop = None <=> s.stopTx = None)
  BY <1>1, <1>2
<1> HIDE DEF m, start, stop
<1>6. t \in Onus /\ Same(s, t)
  BY <1>3, <1>5 DEF Onus, Same
<1>7. /\ t.start = s.start /\ t.state = s.state /\ t.tmp = s.tmp /\ t.link = s.link
      /\ t.q = s.q /\ t.mac = m /\ t.startTx = start /\ t.stopTx = stop
  BY DEF Onus
<1> QED BY <1>3, <1>4, <1>5, <1>6, <1>7 DEF start, stop

\* The transmitter ends a gap or a frame.
LEMMA OnuMacTimerFacts ==
  ASSUME NEW s \in Onus, s.mac.timer = 0
  PROVE  LET t == MacTimerFires(s)
         IN  /\ t \in Onus /\ Same(s, t) /\ t.start = s.start /\ t.state = s.state
             /\ t.tmp = s.tmp /\ t.link = s.link /\ t.q = s.q
             /\ t.startTx = s.startTx /\ t.stopTx = s.stopTx
             /\ Len(t.mac.queue) <= Len(s.mac.queue)
<1> DEFINE m == IF s.mac.state = "ifg" THEN MacEndIFG(s.mac) ELSE MacEndTx(s.mac)
           t == [s EXCEPT !.mac = m]
<1>1. m \in Macs /\ Len(m.queue) <= Len(s.mac.queue)
  <2>1. s.mac \in Macs
    BY DEF Onus
  <2> QED BY <2>1, MacTimerFacts
<1>2. MacTimerFires(s) = t
  BY DEF MacTimerFires, Onus
<1> HIDE DEF m
<1>3. t \in Onus /\ Same(s, t)
  BY <1>1 DEF Onus, Same
<1>4. /\ t.start = s.start /\ t.state = s.state /\ t.tmp = s.tmp /\ t.link = s.link
      /\ t.q = s.q /\ t.mac = m /\ t.startTx = s.startTx /\ t.stopTx = s.stopTx
  BY DEF Onus
<1> QED BY <1>1, <1>2, <1>3, <1>4

\* A start whose timer is over, as StopCleared.
LEMMA StartCleared ==
  ASSUME NEW s \in Onus
  PROVE  LET t == [s EXCEPT !.startTx = None]
         IN  /\ t \in Onus /\ Same(s, t) /\ t.start = s.start /\ t.tmp = s.tmp
             /\ t.mac = s.mac /\ t.q = s.q /\ t.link = s.link /\ t.stopTx = s.stopTx
             /\ t.startTx = None /\ t.state = s.state /\ (Sound(s) => Sound(t))
BY DEF Onus, Same, Sound, Timer

\* The head of the link is taken away.
LEMMA HeadTaken ==
  ASSUME NEW s \in Onus, s.link # <<>>
  PROVE  /\ Head(s.link) \in Frame \union {WakeUp}
         /\ LET t == [s EXCEPT !.link = Tail(s.link)]
            IN  /\ t \in Onus /\ Same(s, t) /\ t.start = s.start /\ t.state = s.state
                /\ t.tmp = s.tmp /\ t.mac = s.mac /\ t.q = s.q /\ t.startTx = s.startTx
                /\ t.stopTx = s.stopTx
<1> DEFINE l == Tail(s.link)
<1>1. l \in Packets /\ Head(s.link) \in Frame \union {WakeUp}
  <2>1. s.link \in Seq(Frame \union {WakeUp})
    BY DEF Onus, Packets
  <2> QED BY <2>1, TailFacts DEF Packets
<1> HIDE DEF l
<1>2. LET t == [s EXCEPT !.link = l]
      IN  /\ t \in Onus /\ Same(s, t) /\ t.start = s.start /\ t.state = s.state
          /\ t.tmp = s.tmp /\ t.mac = s.mac /\ t.q = s.q /\ t.startTx = s.startTx
          /\ t.stopTx = s.stopTx
  BY <1>1 DEF Onus, Same
<1> QED BY <1>1, <1>2 DEF l

\* The events keep the shape of the state and an idle ONU ready.
LEMMA DeliveredRests ==
  ASSUME NEW s \in Onus, IdleInv(s), s.link # <<>>, NEW now \in Clocks
  PROVE  /\ Delivered(s, now) \in Onus /\ IdleInv(Delivered(s, now))
         /\ Delivered(s, now).gates = s.gates
<1> PICK u : u = [s EXCEPT !.link = Tail(s.link)]
  OBVIOUS
<1> PICK c : c = ClockSync(u, now)
  OBVIOUS
<1> PICK m : m = Head(s.link)
  OBVIOUS
<1> PICK t : t = FromHigherLayer(c, m)
  OBVIOUS
<1>1. Delivered(s, now) = t
  BY DEF Delivered, Onus
<1>2. u \in Onus /\ IdleInv(u) /\ u.gates = s.gates /\ m \in Frame \union {WakeUp}
  BY HeadTaken DEF Same, IdleInv, Sound
<1>3. c \in Onus /\ IdleInv(c) /\ c.gates = s.gates
  BY <1>2, ClockSyncFacts, ClockSyncRests
<1> PICK k : k = PutInTmp(c, m)
  OBVIOUS
<1>4. /\ k \in Onus /\ k.gates = s.gates /\ k.state = c.state /\ IdleInv(k)
  BY <1>2, <1>3, PutInTmpFacts DEF Same, IdleInv, Sound
<1>5. CASE t = c \/ t = k
  BY <1>1, <1>3, <1>4, <1>5
<1>6. CASE Looks(k, t)
  BY <1>1, <1>4, <1>6, LooksFacts DEF IdleInv
<1> QED BY <1>2, <1>3, <1>5, <1>6, HigherLayerFacts

LEMMA GateRests ==
  ASSUME NEW s \in Onus, IdleInv(s), NEW now \in Clocks, NEW g \in Slots
  PROVE  /\ GateReceived(s, now, g) \in Onus /\ IdleInv(GateReceived(s, now, g))
         /\ GateReceived(s, now, g).gates = s.gates + 1
<1> PICK c : c = ClockSync(s, now)
  OBVIOUS
<1>1. c \in Onus /\ IdleInv(c) /\ c.gates = s.gates
  BY ClockSyncFacts, ClockSyncRests
<1>2. GateReceived(s, now, g) = ProcessGate(c, g)
  BY DEF GateReceived
<1> QED BY <1>1, <1>2, GateFacts DEF IdleInv

LEMMA StartTxFiresRests ==
  ASSUME NEW s \in Onus, IdleInv(s), s.startTx = 0, NEW now \in Clocks
  PROVE  /\ StartTxFires(s, now) \in Onus /\ IdleInv(StartTxFires(s, now))
         /\ StartTxFires(s, now).gates = s.gates
<1> PICK u : u = [s EXCEPT !.startTx = None]
  OBVIOUS
<1> PICK c : c = ClockSync(u, now)
  OBVIOUS
<1>0. s.state # "idle" /\ Sound(s)
  BY Parameters DEF IdleInv
<1>1. u \in Onus /\ u.state = s.state /\ u.gates = s.gates /\ Sound(u)
  BY <1>0, StartCleared DEF Same
<1>2. c \in Onus /\ Sound(c) /\ c.gates = s.gates
  BY <1>1, ClockSyncFacts, ClockSyncRests
<1>3. c.state # "idle"
  <2>1. c.state = "off" \/ c = [u EXCEPT !.clock = now]
    BY <1>1, ClockSyncFacts
  <2> QED BY <1>0, <1>1, <2>1 DEF Onus
<1>4. StartTxFires(s, now) = StartTxOnPON(c)
  BY <1>3 DEF StartTxFires
<1> QED BY <1>2, <1>4, StartTxFacts, StartTxRests DEF Same

LEMMA StopTxFiresRests ==
  ASSUME NEW s \in Onus, IdleInv(s), NEW now \in Clocks
  PROVE  /\ StopTxFires(s, now) \in Onus /\ IdleInv(StopTxFires(s, now))
         /\ StopTxFires(s, now).gates = s.gates
<1> PICK u : u = [s EXCEPT !.stopTx = None]
  OBVIOUS
<1> PICK c : c = ClockSync(u, now)
  OBVIOUS
<1>1. u \in Onus /\ u.gates = s.gates
  BY StopCleared DEF Same
<1>2. c \in Onus /\ c.gates = s.gates
  BY <1>1, ClockSyncFacts
<1>3. StopTxFires(s, now) = StopTxPeriod(c)
  BY DEF StopTxFires
<1> QED BY <1>2, <1>3, StopTxFacts DEF Same
-----------------------------------------------------------------------------
(* The invariant of the shape of the state and of TX_IDLE *)

RestInv ==
  /\ simT \in Clocks /\ onu \in Onus /\ onu.gates \in 0 .. MaxGates
  /\ granted \in Slots /\ frames \in 0 .. MaxFrames
  /\ IdleInv(onu)

LEMMA InitOnu ==
  /\ OnuInit \in Onus /\ IdleInv(OnuInit)
  /\ OnuInit.gates = 0 /\ OnuInit.start = 0 /\ OnuInit.len = 0 /\ OnuInit.clock = 0
  /\ OnuInit.tmp = <<>> /\ OnuInit.mac.queue = <<>> /\ OnuInit.state = "init"
  /\ OnuInit.startTx = None /\ OnuInit.stopTx = None
<1>1. MacInit \in Macs
  BY Parameters DEF MacInit, Macs, Timer
<1> DEFINE q == [pon |-> [i \in 1 .. NumQueues |-> <<>>], next |-> 1, allEmpty |-> TRUE]
<1>2. q \in Queues
  <2>1. <<>> \in Seq(Frame) /\ 1 \in 1 .. NumQueues
    BY Parameters
  <2> QED BY <2>1 DEF Queues
<1>3. <<>> \in Packets /\ <<>> \in Seq(Frame) /\ 0 \in Clocks /\ 0 \in 0 .. ClockMax
  BY Parameters DEF Packets, Clocks
<1>4. MacInit.queue = <<>>
  BY DEF MacInit
<1>5. OnuInit = [clock |-> 0, start |-> 0, len |-> 0, state |-> "init", gates |-> 0,
                 startTx |-> None, stopTx |-> None, tmp |-> <<>>, link |-> <<>>,
                 mac |-> MacInit, q |-> q]
  BY DEF OnuInit
<1> HIDE DEF q
<1>6. OnuInit \in Onus
  BY <1>1, <1>2, <1>3, <1>5 DEF Onus, States, Timer
<1> QED BY <1>4, <1>5, <1>6 DEF IdleInv, Sound

LEMMA InitRestInv == Init => RestInv
BY InitOnu, Parameters, OnuInputs DEF Init, RestInv, Slots, Clocks

\* A slot of a GATE.
LEMMA GrantSlots ==
  /\ \A g \in Grants : g \in Slots /\ g.start # 0
  /\ [start |-> 0, length |-> RegWindow] \in Slots
BY OnuInputs, Parameters DEF Slots, Clocks

LEMMA StepRestInv == RestInv /\ [Next]_vars => RestInv'
<1> SUFFICES ASSUME RestInv, [Next]_vars PROVE RestInv'
  OBVIOUS
<1>0. onu \in Onus /\ IdleInv(onu) /\ simT \in Clocks
  BY DEF RestInv
<1>1. CASE FrameArrives
  <2>1. PICK i \in 1 .. NumQueues, air \in Airs :
          onu' = [onu EXCEPT !.q = EnqueueFrame(@, i, [air |-> air]),
                             !.link = @ \o WakeUpFor(onu.q)]
    BY <1>1 DEF FrameArrives
  <2>2. [air |-> air] \in Frame
    BY DEF Frame
  <2> PICK t : t = onu'
    OBVIOUS
  <2> PICK f : f = [air |-> air]
    OBVIOUS
  <2> PICK s : s = onu
    OBVIOUS
  <2>3. t = Arrived(s, i, f)
    BY <2>1 DEF Arrived
  <2>4. /\ t \in Onus /\ t.gates = s.gates /\ t.state = s.state
        /\ t.startTx = s.startTx /\ t.stopTx = s.stopTx /\ t.mac = s.mac
    BY <1>0, <2>2, <2>3, EnqueueFacts DEF Same
  <2>5. IdleInv(t)
    BY <1>0, <2>4 DEF IdleInv, Sound
  <2>6. frames' \in 0 .. MaxFrames /\ UNCHANGED <<simT, granted>>
    BY <1>1, OnuInputs DEF FrameArrives, RestInv
  <2> QED BY <2>4, <2>5, <2>6 DEF RestInv
<1>2. CASE LinkDelivers
  <2> PICK t : t = onu'
    OBVIOUS
  <2>1. t \in Onus /\ t.gates = onu.gates /\ IdleInv(t)
    BY <1>0, <1>2, DeliveredRests DEF LinkDelivers
  <2> QED BY <1>2, <2>1 DEF LinkDelivers, RestInv
<1>3. CASE GateArrives
  <2>1. PICK g \in IF onu.gates = 0 THEN {[start |-> 0, length |-> RegWindow]} ELSE Grants :
          onu' = GateReceived(onu, simT, g) /\ granted' = g
    BY <1>3 DEF GateArrives
  <2>2. g \in Slots
    BY GrantSlots
  <2> PICK t : t = onu'
    OBVIOUS
  <2>3. t \in Onus /\ t.gates = onu.gates + 1 /\ IdleInv(t)
    BY <1>0, <2>1, <2>2, GateRests
  <2>4. t.gates \in 0 .. MaxGates
    BY <1>3, <2>3, OnuInputs DEF GateArrives, RestInv
  <2> QED BY <1>3, <2>1, <2>2, <2>3, <2>4 DEF GateArrives, RestInv
<1>4. CASE OtherArrives
  <2> PICK t : t = onu'
    OBVIOUS
  <2>1. t \in Onus /\ t.gates = onu.gates /\ IdleInv(t)
    BY <1>0, <1>4, ClockSyncFacts, ClockSyncRests DEF OtherArrives
  <2> QED BY <1>4, <2>1 DEF OtherArrives, RestInv
<1>5. CASE StartTx
  <2> PICK t : t = onu'
    OBVIOUS
  <2>1. t \in Onus /\ t.gates = onu.gates /\ IdleInv(t)
    BY <1>0, <1>5, StartTxFiresRests DEF StartTx
  <2> QED BY <1>5, <2>1 DEF StartTx, RestInv
<1>6. CASE StopTx
  <2> PICK t : t = onu'
    OBVIOUS
  <2>1. t \in Onus /\ t.gates = onu.gates /\ IdleInv(t)
    BY <1>0, <1>6, StopTxFiresRests DEF StopTx
  <2> QED BY <1>6, <2>1 DEF StopTx, RestInv
<1>7. CASE MacTimer
  <2> PICK t : t = onu'
    OBVIOUS
  <2>1. /\ t \in Onus /\ t.gates = onu.gates /\ t.state = onu.state
        /\ t.startTx = onu.startTx /\ t.stopTx = onu.stopTx
        /\ Len(t.mac.queue) <= Len(onu.mac.queue)
    BY <1>0, <1>7, OnuMacTimerFacts DEF MacTimer, Same
  <2>2. Len(t.mac.queue) \in Nat /\ Len(onu.mac.queue) \in Nat
    <3>1. t.mac \in Macs /\ onu.mac \in Macs
      BY <1>0, <2>1 DEF Onus
    <3>2. t.mac.queue \in Seq(Frame) /\ onu.mac.queue \in Seq(Frame)
      BY <3>1 DEF Macs
    <3> QED BY <3>2, LenProperties
  <2>3. IdleInv(t)
    BY <1>0, <2>1, <2>2 DEF IdleInv, Sound
  <2> QED BY <1>7, <2>1, <2>3 DEF MacTimer, RestInv
<1>8. CASE Tick
  <2> PICK t : t = onu'
    OBVIOUS
  <2>1. /\ t \in Onus /\ t.gates = onu.gates /\ t.state = onu.state
        /\ t.mac.queue = onu.mac.queue
        /\ t.startTx = None <=> onu.startTx = None
        /\ t.stopTx = None <=> onu.stopTx = None
    BY <1>0, <1>8, TickFacts DEF Tick, Same
  <2>2. IdleInv(t)
    BY <1>0, <2>1 DEF IdleInv, Sound
  <2>3. simT' \in Clocks
    BY <1>0, <1>8, Parameters DEF Tick, Clocks
  <2> QED BY <1>8, <2>1, <2>2, <2>3 DEF Tick, RestInv
<1>9. CASE UNCHANGED vars
  BY <1>9 DEF vars, RestInv
<1> QED BY <1>1, <1>2, <1>3, <1>4, <1>5, <1>6, <1>7, <1>8, <1>9 DEF Next

LEMMA AlwaysRestInv == Spec => []RestInv
BY InitRestInv, StepRestInv, PTL DEF Spec

\* Each part of the state keeps its shape, also when the registers wrap.
THEOREM OnuTypes == Spec => []TypeOK
<1>1. RestInv => TypeOK
  <2> SUFFICES ASSUME RestInv PROVE TypeOK
    OBVIOUS
  <2>1. /\ onu.clock \in Clocks /\ onu.start \in Clocks /\ onu.len \in 0 .. ClockMax
        /\ onu.state \in States /\ onu.startTx \in Timer /\ onu.stopTx \in Timer
        /\ onu.tmp \in Seq(Frame) /\ onu.link \in Packets
        /\ onu.mac \in Macs /\ onu.q \in Queues
    BY DEF RestInv, Onus
  <2>2. /\ onu.mac.timer \in Timer /\ onu.mac.queue \in Seq(Frame)
        /\ onu.mac.state \in {"idle", "ifg", "tx"}
    BY <2>1 DEF Macs
  <2>3. /\ onu.q.pon \in [1 .. NumQueues -> Seq(Frame)] /\ onu.q.next \in 1 .. NumQueues
        /\ onu.q.allEmpty \in BOOLEAN
    BY <2>1 DEF Queues
  <2> QED BY <2>1, <2>2, <2>3 DEF RestInv, TypeOK, Clocks, Slots, States, Packets
<1> QED BY <1>1, AlwaysRestInv, PTL

(***************************************************************************)
(* startTxMsg never finds the MAC control in TX_IDLE, where handleMessage  *)
(* stops the simulation, and an idle ONU always has the end of its slot    *)
(* ahead; also when the registers wrap.                                    *)
(***************************************************************************)
THEOREM IdleTimersAgree == Spec => []IdleTimers
<1>1. RestInv => IdleTimers
  BY DEF RestInv, IdleInv, Sound, IdleTimers
<1> QED BY <1>1, AlwaysRestInv, PTL

-----------------------------------------------------------------------------
(* Wake-ups, before the clock wraps *)

\* The clock register follows the time and wraps with it only.
ClockInv == RestInv /\ onu.clock <= simT /\ simT <= Horizon

(***************************************************************************)
(* An ONU with a slot and without a timer is asleep, and then the queues   *)
(* have sent something or know that they are all empty: whatever arrives   *)
(* next makes them send a WAKE UP.                                         *)
(***************************************************************************)
WakeInv(s) ==
  (s.start # 0 /\ s.startTx = None /\ s.stopTx = None) =>
    /\ s.state = "sleep"
    /\ s.link # <<>> \/ (s.tmp = <<>> /\ NoFrame(s.q.pon) /\ s.q.allEmpty)

\* clockSync, when the time has not wrapped.
LEMMA SyncedFacts ==
  ASSUME NEW s \in Onus, NEW now \in Clocks, s.clock <= now
  PROVE  LET t == ClockSync(s, now)
         IN  /\ t \in Onus /\ t.clock = now /\ t.start = s.start /\ t.len = s.len
             /\ t.state = s.state /\ t.gates = s.gates /\ t.startTx = s.startTx
             /\ t.stopTx = s.stopTx /\ t.tmp = s.tmp /\ t.mac = s.mac /\ t.q = s.q
             /\ t.link = s.link /\ (IdleInv(s) => IdleInv(t)) /\ (Sound(s) => Sound(t))
<1> PICK t : t = ClockSync(s, now)
  OBVIOUS
<1>1. t \in Onus /\ t = [s EXCEPT !.clock = now]
  BY ClockSyncFacts
<1>2. /\ t.clock = now /\ t.start = s.start /\ t.len = s.len
      /\ t.state = s.state /\ t.gates = s.gates /\ t.startTx = s.startTx
      /\ t.stopTx = s.stopTx /\ t.tmp = s.tmp /\ t.mac = s.mac /\ t.q = s.q
      /\ t.link = s.link
  BY <1>1 DEF Onus
<1> QED BY <1>1, <1>2, ClockSyncRests

LEMMA DeliveredWakes ==
  ASSUME NEW s \in Onus, IdleInv(s), WakeInv(s), s.link # <<>>,
         NEW now \in Clocks, s.clock <= now
  PROVE  Delivered(s, now).clock = now /\ WakeInv(Delivered(s, now))
<1> PICK u : u = [s EXCEPT !.link = Tail(s.link)]
  OBVIOUS
<1> PICK c : c = ClockSync(u, now)
  OBVIOUS
<1> PICK m : m = Head(s.link)
  OBVIOUS
<1> PICK t : t = FromHigherLayer(c, m)
  OBVIOUS
<1>1. Delivered(s, now) = t
  BY DEF Delivered, Onus
<1>2. /\ u \in Onus /\ u.clock <= now /\ u.start = s.start /\ u.state = s.state /\ Sound(u)
      /\ u.startTx = s.startTx /\ u.stopTx = s.stopTx /\ m \in Frame \union {WakeUp}
  BY HeadTaken DEF Same, IdleInv, Sound
<1>3. /\ c \in Onus /\ Sound(c) /\ c.clock = now /\ c.start = s.start /\ c.state = s.state
      /\ c.startTx = s.startTx /\ c.stopTx = s.stopTx
  BY <1>2, SyncedFacts
<1> PICK k : k = PutInTmp(c, m)
  OBVIOUS
<1>4. /\ k \in Onus /\ k.clock = now /\ k.start = s.start /\ k.state = s.state /\ Sound(k)
      /\ k.startTx = s.startTx /\ k.stopTx = s.stopTx
  BY <1>2, <1>3, PutInTmpFacts DEF Same, Sound
<1>5. CASE c.start = 0 /\ t = c
  BY <1>1, <1>3, <1>5 DEF WakeInv
<1>6. CASE c.state \notin {"idle", "sleep"} /\ t = k
  BY <1>1, <1>3, <1>4, <1>6 DEF WakeInv
<1>7. CASE Looks(k, t)
  <2>1. t.clock = now /\ Timed(t)
    BY <1>4, <1>7, LooksFacts
  <2> QED BY <1>1, <2>1 DEF Timed, WakeInv
<1> QED BY <1>2, <1>3, <1>5, <1>6, <1>7, HigherLayerFacts

LEMMA GateWakes ==
  ASSUME NEW s \in Onus, IdleInv(s), NEW now \in Clocks, s.clock <= now, NEW g \in Slots
  PROVE  GateReceived(s, now, g).clock = now /\ WakeInv(GateReceived(s, now, g))
<1> PICK c : c = ClockSync(s, now)
  OBVIOUS
<1>1. c \in Onus /\ Sound(c) /\ c.clock = now
  BY SyncedFacts DEF IdleInv
<1> PICK t : t = ProcessGate(c, g)
  OBVIOUS
<1>2. t.clock = now /\ Timed(t)
  BY <1>1, GateFacts
<1>3. GateReceived(s, now, g) = t
  BY DEF GateReceived
<1> QED BY <1>2, <1>3 DEF Timed, WakeInv

\* startTxMsg: the function it calls, and its state.
LEMMA StartTxCalls ==
  ASSUME NEW s \in Onus, IdleInv(s), s.startTx = 0, NEW now \in Clocks, s.clock <= now
  PROVE  \E c \in Onus :
           /\ StartTxFires(s, now) = StartTxOnPON(c) /\ Sound(c)
           /\ c.clock = now /\ c.start = s.start /\ c.len = s.len /\ c.state = s.state
           /\ c.gates = s.gates /\ c.startTx = None /\ c.stopTx = s.stopTx
           /\ c.tmp = s.tmp /\ c.mac = s.mac
<1> PICK u : u = [s EXCEPT !.startTx = None]
  OBVIOUS
<1> PICK c : c = ClockSync(u, now)
  OBVIOUS
<1>0. s.state # "idle" /\ Sound(s)
  BY Parameters DEF IdleInv
<1>1. /\ u \in Onus /\ Sound(u) /\ u.clock = s.clock /\ u.start = s.start /\ u.len = s.len
      /\ u.state = s.state /\ u.gates = s.gates /\ u.startTx = None /\ u.stopTx = s.stopTx
      /\ u.tmp = s.tmp /\ u.mac = s.mac
  BY <1>0, StartCleared DEF Same
<1>2. /\ c \in Onus /\ Sound(c) /\ c.clock = now /\ c.start = s.start /\ c.len = s.len
      /\ c.state = s.state /\ c.gates = s.gates /\ c.startTx = None /\ c.stopTx = s.stopTx
      /\ c.tmp = s.tmp /\ c.mac = s.mac
  BY <1>1, SyncedFacts
<1>3. StartTxFires(s, now) = StartTxOnPON(c)
  BY <1>0, <1>2 DEF StartTxFires
<1> QED BY <1>2, <1>3

\* stopTxMsg: the function it calls, and its state.
LEMMA StopTxCalls ==
  ASSUME NEW s \in Onus, NEW now \in Clocks, s.clock <= now
  PROVE  \E c \in Onus :
           /\ StopTxFires(s, now) = StopTxPeriod(c)
           /\ c.clock = now /\ c.start = s.start /\ c.len = s.len /\ c.state = s.state
           /\ c.gates = s.gates /\ c.startTx = s.startTx /\ c.stopTx = None
           /\ c.tmp = s.tmp /\ c.mac = s.mac
<1> PICK u : u = [s EXCEPT !.stopTx = None]
  OBVIOUS
<1> PICK c : c = ClockSync(u, now)
  OBVIOUS
<1>1. /\ u \in Onus /\ u.clock = s.clock /\ u.start = s.start /\ u.len = s.len
      /\ u.state = s.state /\ u.gates = s.gates /\ u.startTx = s.startTx /\ u.stopTx = None
      /\ u.tmp = s.tmp /\ u.mac = s.mac
  BY StopCleared DEF Same
<1>2. /\ c \in Onus /\ c.clock = now /\ c.start = s.start /\ c.len = s.len
      /\ c.state = s.state /\ c.gates = s.gates /\ c.startTx = s.startTx /\ c.stopTx = None
      /\ c.tmp = s.tmp /\ c.mac = s.mac
  BY <1>1, SyncedFacts
<1>3. StopTxFires(s, now) = StopTxPeriod(c)
  BY DEF StopTxFires
<1> QED BY <1>2, <1>3

LEMMA StartTxWakes ==
  ASSUME NEW s \in Onus, IdleInv(s), s.startTx = 0, NEW now \in Clocks, s.clock <= now
  PROVE  StartTxFires(s, now).clock = now /\ WakeInv(StartTxFires(s, now))
<1>1. PICK c \in Onus : StartTxFires(s, now) = StartTxOnPON(c) /\ Sound(c) /\ c.clock = now
  BY StartTxCalls
<1> PICK t : t = StartTxOnPON(c)
  OBVIOUS
<1>2. t.clock = now /\ Timed(t)
  BY <1>1, StartTxFacts, StartTxRests DEF Same
<1> QED BY <1>1, <1>2 DEF Timed, WakeInv

LEMMA StopTxWakes ==
  ASSUME NEW s \in Onus, NEW now \in Clocks, s.clock <= now
  PROVE  StopTxFires(s, now).clock = now /\ WakeInv(StopTxFires(s, now))
<1>1. PICK c \in Onus : StopTxFires(s, now) = StopTxPeriod(c) /\ c.clock = now
  BY StopTxCalls
<1> PICK t : t = StopTxPeriod(c)
  OBVIOUS
<1>2. /\ Same(c, t)
      /\ \/ /\ t.state = "sleep" /\ c.tmp = <<>> /\ t.tmp = c.tmp
            /\ t.link # <<>> \/ (NoFrame(t.q.pon) /\ t.q.allEmpty)
         \/ Timed(t)
  BY StopTxFacts
<1> QED BY <1>1, <1>2 DEF Same, Timed, WakeInv

\* Before the wrap, time goes on by one.
LEMMA TimeGoesOn ==
  ASSUME Horizon < ClockMax, ClockInv, Tick
  PROVE  simT' = simT + 1 /\ simT + 1 <= Horizon /\ simT + 1 \in Clocks
<1>1. simT \in Nat /\ simT < Horizon /\ simT' = (simT + 1) % ClockMax
  BY Parameters DEF ClockInv, RestInv, Clocks, Tick
<1>2. simT + 1 \in 0 .. ClockMax - 1
  BY <1>1, Parameters, OnuInputs
<1>3. (simT + 1) % ClockMax = simT + 1
  BY <1>2, Parameters, Around
<1> QED BY <1>1, <1>2, <1>3, OnuInputs DEF Clocks

LEMMA StepWakeInv ==
  ASSUME Horizon < ClockMax
  PROVE  ClockInv /\ WakeInv(onu) /\ [Next]_vars => ClockInv' /\ WakeInv(onu)'
<1> SUFFICES ASSUME ClockInv, WakeInv(onu), [Next]_vars PROVE ClockInv' /\ WakeInv(onu)'
  OBVIOUS
<1> PICK s : s = onu
  OBVIOUS
<1> PICK t : t = onu'
  OBVIOUS
<1> PICK now : now = simT
  OBVIOUS
<1>0. /\ s \in Onus /\ IdleInv(s) /\ now \in Clocks /\ s.clock <= now /\ now <= Horizon
      /\ WakeInv(s)
  BY DEF ClockInv, RestInv
<1>a. RestInv'
  BY StepRestInv DEF ClockInv
<1> SUFFICES t.clock <= simT' /\ simT' <= Horizon /\ WakeInv(t)
  BY <1>a DEF ClockInv, WakeInv
<1>1. CASE FrameArrives
  <2>1. PICK i \in 1 .. NumQueues, air \in Airs :
          onu' = [onu EXCEPT !.q = EnqueueFrame(@, i, [air |-> air]),
                             !.link = @ \o WakeUpFor(onu.q)]
    BY <1>1 DEF FrameArrives
  <2>2. [air |-> air] \in Frame
    BY DEF Frame
  <2> PICK f : f = [air |-> air]
    OBVIOUS
  <2>3. t = Arrived(s, i, f)
    BY <2>1 DEF Arrived
  <2>4. /\ t.clock = s.clock /\ t.start = s.start /\ t.state = s.state
        /\ t.startTx = s.startTx /\ t.stopTx = s.stopTx
        /\ s.link # <<>> \/ s.q.allEmpty => t.link # <<>>
    BY <1>0, <2>2, <2>3, EnqueueFacts DEF Same
  <2>5. WakeInv(t)
    BY <1>0, <2>4 DEF WakeInv
  <2>6. simT' = now
    BY <1>1 DEF FrameArrives
  <2> QED BY <1>0, <2>4, <2>5, <2>6
<1>2. CASE LinkDelivers
  <2>1. s.link # <<>> /\ t = Delivered(s, now) /\ simT' = now
    BY <1>2 DEF LinkDelivers
  <2>2. t.clock = now /\ WakeInv(t)
    BY <1>0, <2>1, DeliveredWakes
  <2> QED BY <1>0, <2>1, <2>2 DEF Clocks
<1>3. CASE GateArrives
  <2>1. PICK g \in IF onu.gates = 0 THEN {[start |-> 0, length |-> RegWindow]} ELSE Grants :
          t = GateReceived(s, now, g) /\ simT' = now
    BY <1>3 DEF GateArrives
  <2>2. g \in Slots
    BY GrantSlots
  <2>3. t.clock = now /\ WakeInv(t)
    BY <1>0, <2>1, <2>2, GateWakes
  <2> QED BY <1>0, <2>1, <2>3 DEF Clocks
<1>4. CASE OtherArrives
  <2>1. t = ClockSync(s, now) /\ simT' = now
    BY <1>4 DEF OtherArrives
  <2>2. /\ t.clock = now /\ t.start = s.start /\ t.state = s.state /\ t.startTx = s.startTx
        /\ t.stopTx = s.stopTx /\ t.tmp = s.tmp /\ t.q = s.q /\ t.link = s.link
    BY <1>0, <2>1, SyncedFacts
  <2> QED BY <1>0, <2>1, <2>2 DEF Clocks, WakeInv
<1>5. CASE StartTx
  <2>1. s.startTx = 0 /\ t = StartTxFires(s, now) /\ simT' = now
    BY <1>5 DEF StartTx
  <2>2. t.clock = now /\ WakeInv(t)
    BY <1>0, <2>1, StartTxWakes
  <2> QED BY <1>0, <2>1, <2>2 DEF Clocks
<1>6. CASE StopTx
  <2>1. t = StopTxFires(s, now) /\ simT' = now
    BY <1>6 DEF StopTx
  <2>2. t.clock = now /\ WakeInv(t)
    BY <1>0, <2>1, StopTxWakes
  <2> QED BY <1>0, <2>1, <2>2 DEF Clocks
<1>7. CASE MacTimer
  <2>1. s.mac.timer = 0 /\ t = MacTimerFires(s) /\ simT' = now
    BY <1>7 DEF MacTimer
  <2>2. /\ t.clock = s.clock /\ t.start = s.start /\ t.state = s.state
        /\ t.startTx = s.startTx /\ t.stopTx = s.stopTx /\ t.tmp = s.tmp
        /\ t.q = s.q /\ t.link = s.link
    BY <1>0, <2>1, OnuMacTimerFacts DEF Same
  <2> QED BY <1>0, <2>1, <2>2 DEF WakeInv
<1>8. CASE Tick
  <2>1. ~ OnuDue(s) /\ t = OnuTick(s)
    BY <1>8 DEF Tick
  <2>2. /\ t.clock = s.clock /\ t.start = s.start /\ t.state = s.state
        /\ t.startTx = None <=> s.startTx = None
        /\ t.stopTx = None <=> s.stopTx = None
        /\ t.tmp = s.tmp /\ t.q = s.q /\ t.link = s.link
    BY <1>0, <2>1, TickFacts DEF Same
  <2>3. WakeInv(t)
    BY <1>0, <2>2 DEF WakeInv
  <2>4. simT' = now + 1 /\ now + 1 <= Horizon
    BY <1>8, TimeGoesOn
  <2>5. s.clock \in Nat /\ now \in Nat
    BY <1>0 DEF Onus, Clocks
  <2> QED BY <1>0, <2>2, <2>3, <2>4, <2>5
<1>9. CASE UNCHANGED vars
  BY <1>0, <1>9 DEF vars
<1> QED BY <1>1, <1>2, <1>3, <1>4, <1>5, <1>6, <1>7, <1>8, <1>9 DEF Next

(***************************************************************************)
(* Once the ONU has a slot, no sequence of arrivals, shifts, sleeps and    *)
(* GATEs forgets a waiting frame, for a simulation that ends before the    *)
(* clock registers wrap: after the wrap it is false, as clockSync switches *)
(* the transmission off (the run onu_clock_wrap).                          *)
(***************************************************************************)
THEOREM WakeUpsNeverLost ==
  ASSUME Horizon < ClockMax
  PROVE  Spec => []NoLostWakeUp
<1>1. Init => ClockInv /\ WakeInv(onu)
  BY InitOnu, InitRestInv, OnuInputs DEF Init, ClockInv, WakeInv
<1>2. ClockInv /\ WakeInv(onu) /\ [Next]_vars => ClockInv' /\ WakeInv(onu)'
  BY StepWakeInv
<1>3. WakeInv(onu) => NoLostWakeUp
  BY DEF WakeInv, NoLostWakeUp, Waiting
<1> QED BY <1>1, <1>2, <1>3, PTL DEF Spec

-----------------------------------------------------------------------------
(* The slot, before the clock wraps *)

\* Neither a slot nor the time comes closer than two super slots to the wrap.
BeforeWrap ==
  /\ Horizon < ClockMax
  /\ \A g \in Grants : /\ Horizon + g.length + 2 * SlotTime < ClockMax
                       /\ g.start + g.length + 2 * SlotTime < ClockMax

\* At most n super slots after the time or the start of the granted slot.
Within(x, g, now, n) == x <= now + n * SlotTime \/ x <= g.start + n * SlotTime

\* The registers hold the granted slot in some super slot, and there is
\* nothing to send before there is one.
Registers(s, g) ==
  /\ s.len = g.length
  /\ s.gates = 0 => s.start = 0
  /\ s.start = 0 => s.tmp = <<>> /\ s.mac.queue = <<>>
  /\ s.start # 0 => g \in Grants /\ \E k \in Nat : s.start = g.start + k * SlotTime

(***************************************************************************)
(* Nothing looks for the slot before it starts: startTxMsg is not early,   *)
(* and an idle ONU, which sends at once, is in its slot.  A shift moves    *)
(* the start by one super slot, and stopTxMsg may move it once more.       *)
(***************************************************************************)
Timely(s, g, now) ==
  /\ s.clock <= now
  /\ Within(s.start, g, now, 2)
  /\ s.stopTx # None => Within(s.start, g, now, 1)
  /\ s.startTx # None => now + s.startTx >= s.start
  /\ s.state = "idle" => s.start <= now

\* What is added to the queue of the transmitter fits in the slot.
Fits(g, now, m, n) ==
  Len(n.queue) > Len(m.queue) =>
    /\ now >= g.start
    /\ ((now - g.start) % SlotTime) + (n.queue[Len(n.queue)].air + Ifg) <= g.length

LEMMA WithinMore ==
  ASSUME NEW x \in Nat, NEW g \in Slots, NEW now \in Clocks
  PROVE  /\ Within(x, g, now, 1) => Within(x, g, now, 2)
         /\ x <= now \/ x <= g.start => Within(x, g, now, 1)
         /\ x <= now + SlotTime \/ x <= g.start + SlotTime => Within(x, g, now, 1)
         /\ Within(x, g, now, 1) => Within(x + SlotTime, g, now, 2)
<1>1. g.start \in Nat /\ now \in Nat
  BY DEF Slots, Clocks
<1> QED BY <1>1, Parameters DEF Within

\* A time in a later super slot, taken back to the first.
LEMMA SameInSlot ==
  ASSUME NEW x \in Nat, NEW k \in Nat
  PROVE  (x + k * SlotTime) % SlotTime <= x
<1> DEFINE y == x + k * SlotTime
           q == y \div SlotTime
<1>1. SlotTime \in Nat \ {0} /\ k * SlotTime \in Nat /\ k * SlotTime = SlotTime * k
  BY Parameters
<1>2. y \in Nat
  BY <1>1
<1> HIDE DEF y
<1>3. q \in Nat /\ SlotTime * q <= y /\ y < SlotTime * q + SlotTime
  BY <1>1, <1>2, DivisionFacts
<1>4. y % SlotTime = y - SlotTime * q
  BY <1>1, <1>2
<1> HIDE DEF q
<1>5. k <= q
  <2> SUFFICES ASSUME q + 1 <= k PROVE FALSE
    BY <1>3
  <2>1. SlotTime * (q + 1) <= SlotTime * k
    <3> PICK d \in Nat : k = (q + 1) + d
      <4>1. k - (q + 1) \in Nat /\ k = (q + 1) + (k - (q + 1))
        BY <1>3
      <4> QED BY <4>1
    <3>1. SlotTime * k = SlotTime * (q + 1) + SlotTime * d /\ SlotTime * d \in Nat
      BY <1>1, <1>3
    <3>2. SlotTime * (q + 1) \in Nat
      BY <1>1, <1>3
    <3> QED BY <3>1, <3>2
  <2>2. SlotTime * (q + 1) = SlotTime * q + SlotTime
    BY <1>1, <1>3
  <2>3. y = x + SlotTime * k /\ SlotTime * k \in Nat /\ SlotTime * q \in Nat
    BY <1>1, <1>3 DEF y
  <2> QED BY <1>1, <1>3, <2>1, <2>2, <2>3
<1>6. SlotTime * k <= SlotTime * q
  <2> PICK d \in Nat : q = k + d
    <3>1. q - k \in Nat /\ q = k + (q - k)
      BY <1>3, <1>5
    <3> QED BY <3>1
  <2>1. SlotTime * q = SlotTime * k + SlotTime * d /\ SlotTime * d \in Nat
    BY <1>1
  <2> QED BY <1>1, <2>1
<1>7. y = x + SlotTime * k /\ SlotTime * q \in Nat
  BY <1>1, <1>3 DEF y
<1> QED BY <1>1, <1>4, <1>6, <1>7 DEF y

\* A shift by n super slots, not further than the next or the one after it.
LEMMA ShiftKeepsSlot ==
  ASSUME BeforeWrap, NEW s \in Onus, NEW g \in Slots, NEW now \in Clocks, now <= Horizon,
         Registers(s, g), s.start # 0, s.clock = now, NEW n \in Nat,
         NEW t \in Onus, Same(s, t), Moves(s, t, n),
         Within(s.start + n * SlotTime, g, now, 2),
         t.stopTx = None \/ Within(s.start + n * SlotTime, g, now, 1)
  PROVE  Registers(t, g) /\ Timely(t, g, now) /\ t.mac = s.mac
<1> DEFINE start == s.start + n * SlotTime
<1>0. s.start \in Nat /\ s.start > 0 /\ n * SlotTime \in Nat /\ g.start \in Nat /\ now \in Nat
  BY Parameters DEF Onus, Clocks, Slots
<1>1. g \in Grants /\ g.length \in Nat
  BY DEF Registers, Slots
<1>2. start \in 1 .. ClockMax - 1
  <2>1. Horizon + 2 * SlotTime < ClockMax /\ g.start + 2 * SlotTime < ClockMax
    BY <1>0, <1>1, Parameters, OnuInputs DEF BeforeWrap
  <2>2. start <= now + 2 * SlotTime \/ start <= g.start + 2 * SlotTime
    BY DEF Within
  <2>3. start \in Nat /\ start > 0
    BY <1>0
  <2> HIDE DEF start
  <2> QED BY <1>0, <2>1, <2>2, <2>3, Parameters, OnuInputs
<1>3. t.start = start
  <2>1. t.start = start % ClockMax
    BY DEF Moves
  <2> HIDE DEF start
  <2> QED BY <1>2, <2>1, Parameters, Around
<1>4. \E k \in Nat : t.start = g.start + k * SlotTime
  <2>1. PICK k \in Nat : s.start = g.start + k * SlotTime
    BY DEF Registers
  <2>2. k + n \in Nat /\ (k + n) * SlotTime = k * SlotTime + n * SlotTime
    BY Parameters
  <2>3. k * SlotTime \in Nat
    BY Parameters
  <2>4. t.start = g.start + (k + n) * SlotTime
    BY <1>0, <1>3, <2>1, <2>2, <2>3
  <2> QED BY <2>2, <2>4
<1>5. t.start # 0 /\ t.start = start
  BY <1>2, <1>3
<1> HIDE DEF start
<1>6. Registers(t, g)
  BY <1>1, <1>4, <1>5 DEF Registers, Same
<1>7. Timely(t, g, now)
  <2>1. t.clock = now /\ t.state = "off" /\ t.startTx \in Nat /\ now + t.startTx >= t.start
    BY DEF Moves, Same
  <2>2. Within(t.start, g, now, 2) /\ (t.stopTx # None => Within(t.start, g, now, 1))
    BY <1>5 DEF start
  <2> QED BY <1>0, <2>1, <2>2 DEF Timely
<1> QED BY <1>6, <1>7 DEF Moves

\* startTxMsg scheduled for the start register.
LEMMA ScheduleKeepsSlot ==
  ASSUME NEW s \in Onus, NEW g \in Slots, NEW now \in Clocks,
         Registers(s, g), s.clock = now, Within(s.start, g, now, 2),
         s.stopTx # None => Within(s.start, g, now, 1)
  PROVE  LET t == ScheduleStart(s)
         IN  Registers(t, g) /\ Timely(t, g, now) /\ t.mac = s.mac
<1> PICK t : t = ScheduleStart(s)
  OBVIOUS
<1>1. /\ t \in Onus /\ t.startTx \in Nat /\ s.clock + t.startTx >= s.start
      /\ t = [s EXCEPT !.state = "off", !.startTx = t.startTx]
  BY ScheduleStartFacts
<1>2. /\ t.state = "off" /\ t.clock = s.clock /\ t.start = s.start /\ t.len = s.len
      /\ t.gates = s.gates /\ t.stopTx = s.stopTx /\ t.tmp = s.tmp /\ t.mac = s.mac
  BY <1>1 DEF Onus
<1>3. Registers(t, g)
  BY <1>2 DEF Registers
<1>4. Timely(t, g, now)
  BY <1>1, <1>2 DEF Timely, Clocks
<1> QED BY <1>2, <1>3, <1>4

\* startTxOnPON, called in the slot or after it, sends in the slot only.
LEMMA StartTxKeepsSlot ==
  ASSUME BeforeWrap, NEW s \in Onus, NEW g \in Slots, NEW now \in Clocks, now <= Horizon,
         Registers(s, g), s.clock = now, s.start <= now
  PROVE  LET t == StartTxOnPON(s)
         IN  Registers(t, g) /\ Timely(t, g, now) /\ Fits(g, now, s.mac, t.mac)
<1> PICK t : t = StartTxOnPON(s)
  OBVIOUS
<1>0. /\ s.start \in Nat /\ now \in Nat /\ g.start \in Nat /\ g.length \in Nat
      /\ s.startTx \in Timer /\ s.mac \in Macs /\ s.tmp \in Seq(Frame)
  BY DEF Onus, Clocks, Slots
<1>1. t \in Onus /\ Same(s, t) /\ StartOutcome(s, t)
  BY StartTxFacts
<1>2. Len(s.mac.queue) \in Nat /\ (Len(s.mac.queue) > 1 => s.mac.queue # <<>>)
      /\ s.mac.queue \in Seq(Frame)
  <2>1. s.mac.queue \in Seq(Frame)
    BY <1>0 DEF Macs
  <2> QED BY <2>1, LenProperties, EmptySeq
<1>3. ASSUME t.mac = s.mac PROVE Fits(g, now, s.mac, t.mac)
  BY <1>2, <1>3 DEF Fits
<1>4. Within(s.start, g, now, 1) /\ Within(s.start, g, now, 2)
  BY <1>0, WithinMore
<1>5. CASE Moves(s, t, 1) /\ (s.start # 0 \/ s.tmp # <<>> \/ Len(s.mac.queue) > 1)
  <2>1. s.start # 0
    BY <1>2, <1>5 DEF Registers
  <2>2. s.start + 1 * SlotTime \in Nat /\ s.start + 1 * SlotTime <= now + SlotTime
    BY <1>0, Parameters
  <2> DEFINE x == s.start + 1 * SlotTime
  <2> HIDE DEF x
  <2>3. x \in Nat /\ x <= now + SlotTime
    BY <2>2 DEF x
  <2>4. Within(x, g, now, 1) /\ Within(x, g, now, 2)
    BY <2>3, WithinMore
  <2>5. Registers(t, g) /\ Timely(t, g, now) /\ t.mac = s.mac
    BY <1>1, <1>5, <2>1, <2>4, ShiftKeepsSlot DEF x
  <2> QED BY <1>3, <2>5
<1>6. CASE Waits(s, t)
  <2>1. /\ t.clock = s.clock /\ t.start = s.start /\ t.len = s.len /\ t.gates = s.gates
        /\ t.state = s.state /\ t.startTx = Delay /\ t.stopTx = s.stopTx /\ t.tmp = s.tmp
        /\ t.mac = s.mac
    BY <1>6 DEF Waits, Onus
  <2>2. Registers(t, g)
    BY <2>1 DEF Registers
  <2>3. Timely(t, g, now)
    BY <1>0, <1>4, <2>1, Parameters DEF Timely
  <2> QED BY <1>3, <2>1, <2>2, <2>3
<1>7. CASE Asks(s, t)
  <2>1. Registers(t, g)
    BY <1>1, <1>7 DEF Asks, Same, Registers
  <2>2. Timely(t, g, now)
    <3>1. t.startTx # None => now + t.startTx >= 0
      BY <1>0, <1>7 DEF Asks, Timer
    <3> QED BY <1>0, <1>1, <1>4, <1>7, <3>1 DEF Asks, Same, Timely
  <2> QED BY <1>3, <1>7, <2>1, <2>2 DEF Asks
<1>8. CASE Idles(s, t)
  <2>1. Registers(t, g)
    BY <1>1, <1>8 DEF Idles, Same, Registers
  <2>2. Timely(t, g, now)
    BY <1>0, <1>1, <1>4, <1>8 DEF Idles, Same, Timely
  <2> QED BY <1>3, <1>8, <2>1, <2>2 DEF Idles
<1>9. CASE Transmits(s, t)
  <2> DEFINE f == Head(s.tmp)
             queue == Append(s.mac.queue, f)
  <2>1. /\ s.start # 0 /\ g \in Grants /\ s.len = g.length
    BY <1>9 DEF Transmits, Registers
  <2>2. PICK k \in Nat : s.start = g.start + k * SlotTime
    BY <2>1 DEF Registers
  <2>3. f \in Frame /\ Needed(f) \in Nat /\ Needed(f) = f.air + Ifg /\ f.air \in Nat
    BY <1>0, <1>9, TailFacts, FrameFacts DEF Transmits
  <2> HIDE DEF f
  <2>4. queue \in Seq(Frame) /\ queue[Len(queue)] = f /\ queue # <<>>
    BY <1>2, <2>3, AppendProperties, LenProperties
  <2> HIDE DEF queue
  <2>5. now + Needed(f) <= s.start + g.length
    <3>1. s.start + g.length \in 0 .. ClockMax
      BY <1>0, <2>1, Parameters, OnuInputs DEF BeforeWrap
    <3>2. End(s) = s.start + g.length
      <4> DEFINE x == s.start + g.length
      <4>1. x \in 0 .. ClockMax /\ x \in Int
        BY <3>1
      <4> HIDE DEF x
      <4>2. U32(x) = x
        BY <4>1, U32Facts
      <4> QED BY <2>1, <4>2 DEF End, x
    <3>3. now <= s.start + g.length
      BY <1>9, <2>1, <3>2 DEF Transmits
    <3>4. Remaining(s) = s.start + g.length - now
      <4> DEFINE x == s.start + g.length - now
      <4>1. x \in 0 .. ClockMax /\ x \in Int
        BY <1>0, <3>1, <3>3, Parameters
      <4> HIDE DEF x
      <4>2. U32(x) = x
        BY <4>1, U32Facts
      <4> QED BY <2>1, <4>2 DEF Remaining, x
    <3>5. Needed(f) <= Remaining(s)
      BY <1>9 DEF Transmits, f
    <3> QED BY <1>0, <2>3, <3>4, <3>5
  <2>6. /\ t.clock = s.clock /\ t.start = s.start /\ t.len = s.len /\ t.gates = s.gates
        /\ t.state = "on" /\ t.startTx = Needed(f) /\ t.stopTx = s.stopTx
        /\ t.mac = MacSend(s.mac, f)
    BY <1>9 DEF Transmits, Onus, f
  <2>7. t.mac.queue = queue
    BY <1>0, <2>3, <2>6, MacSendFacts DEF queue
  <2>8. Fits(g, now, s.mac, t.mac)
    <3> DEFINE x == now - s.start
    <3>1. k * SlotTime \in Nat /\ x \in Nat /\ now - g.start = x + k * SlotTime
      BY <1>0, <2>2, Parameters
    <3> HIDE DEF x
    <3>2. (x + k * SlotTime) % SlotTime <= x /\ (x + k * SlotTime) % SlotTime \in Nat
      BY <3>1, SameInSlot, Parameters
    <3>3. (now - g.start) % SlotTime <= x /\ (now - g.start) % SlotTime \in Nat
      BY <3>1, <3>2
    <3>4. now >= g.start
      BY <1>0, <2>2, <3>1
    <3>5. x + f.air + Ifg <= g.length
      BY <1>0, <2>3, <2>5, Parameters DEF x
    <3>6. PICK r \in Nat : r = (now - g.start) % SlotTime /\ r <= x
      BY <3>3
    <3>7. r + (f.air + Ifg) <= g.length
      <4>1. x \in Int /\ r \in Int /\ f.air \in Int /\ Ifg \in Int /\ g.length \in Int
        BY <1>0, <2>3, <3>1, Parameters
      <4> QED BY <3>5, <3>6, <4>1
    <3> QED BY <2>4, <2>7, <3>4, <3>6, <3>7 DEF Fits
  <2>9. Registers(t, g)
    BY <2>1, <2>2, <2>6 DEF Registers
  <2>10. Timely(t, g, now)
    BY <1>0, <1>4, <2>3, <2>6 DEF Timely
  <2> QED BY <2>8, <2>9, <2>10
<1> QED BY <1>1, <1>5, <1>6, <1>7, <1>8, <1>9 DEF StartOutcome

\* Nothing is added to the queue of the transmitter.
LEMMA NothingSent ==
  ASSUME NEW m \in Macs, NEW n \in Macs, Len(n.queue) <= Len(m.queue), NEW g, NEW now
  PROVE  Fits(g, now, m, n)
<1>1. m.queue \in Seq(Frame) /\ n.queue \in Seq(Frame)
  BY DEF Macs
<1>2. Len(m.queue) \in Nat /\ Len(n.queue) \in Nat
  BY <1>1, LenProperties
<1> QED BY <1>2 DEF Fits

\* The slots since the start register lead to the next one.
LEMMA LostSlotsKeepSlot ==
  ASSUME BeforeWrap, NEW s \in Onus, NEW g \in Slots, NEW now \in Clocks, now <= Horizon,
         Registers(s, g), s.start # 0, s.clock = now, s.start <= now
  PROVE  LET t == ShiftStart(s, LostSlots(s))
         IN  Registers(t, g) /\ Timely(t, g, now) /\ t.mac = s.mac
<1> PICK n \in Nat : n = LostSlots(s) /\ s.start + n * SlotTime < now + SlotTime
  BY LostSlotsFacts
<1> PICK t : t = ShiftStart(s, n)
  OBVIOUS
<1>1. t \in Onus /\ Same(s, t) /\ Moves(s, t, n)
  BY MovesFacts
<1> DEFINE x == s.start + n * SlotTime
<1>2. x \in Nat /\ x <= now + SlotTime
  <2>1. s.start \in Nat /\ n * SlotTime \in Nat /\ now \in Nat
    BY Parameters DEF Onus, Clocks
  <2> QED BY <2>1, Parameters
<1> HIDE DEF x
<1>3. Within(x, g, now, 1) /\ Within(x, g, now, 2)
  BY <1>2, WithinMore
<1>4. Registers(t, g) /\ Timely(t, g, now) /\ t.mac = s.mac
  BY <1>1, <1>3, ShiftKeepsSlot DEF x
<1> QED BY <1>4

\* An ONU that is woken up looks for the slot when it starts.
LEMMA LooksKeepsSlot ==
  ASSUME BeforeWrap, NEW s \in Onus, NEW g \in Slots, NEW now \in Clocks, now <= Horizon,
         Registers(s, g), Timely(s, g, now), s.start # 0, s.clock = now,
         NEW t \in Onus, Looks(s, t)
  PROVE  Registers(t, g) /\ Timely(t, g, now) /\ Fits(g, now, s.mac, t.mac)
<1>0. s.start \in Nat /\ now \in Nat /\ s.mac \in Macs /\ Len(s.mac.queue) <= Len(s.mac.queue)
  <2>1. s.start \in Nat /\ now \in Nat /\ s.mac \in Macs
    BY DEF Onus, Clocks
  <2>2. s.mac.queue \in Seq(Frame)
    BY <2>1 DEF Macs
  <2> QED BY <2>1, <2>2, LenProperties
<1>1. CASE t = ScheduleStart(s)
  <2>1. Registers(t, g) /\ Timely(t, g, now) /\ t.mac = s.mac
    BY <1>1, ScheduleKeepsSlot DEF Timely
  <2> QED BY <1>0, <2>1, NothingSent
<1>2. CASE /\ s.state = "idle" \/ (s.state = "sleep" /\ InSlot(s))
           /\ t = StartTxOnPON([s EXCEPT !.stopTx = None])
  <2> PICK u : u = [s EXCEPT !.stopTx = None]
    OBVIOUS
  <2>1. /\ u \in Onus /\ u.clock = s.clock /\ u.start = s.start /\ u.len = s.len
        /\ u.gates = s.gates /\ u.tmp = s.tmp /\ u.mac = s.mac
    BY StopCleared DEF Same
  <2>2. Registers(u, g)
    BY <2>1 DEF Registers
  <2>3. u.start <= now
    BY <1>2, <2>1 DEF Timely, InSlot
  <2> QED BY <1>2, <2>1, <2>2, <2>3, StartTxKeepsSlot
<1>3. CASE ~ (s.clock < s.start) /\ t = ShiftStart(s, LostSlots(s))
  <2>1. s.start <= now
    BY <1>0, <1>3
  <2>2. Registers(t, g) /\ Timely(t, g, now) /\ t.mac = s.mac
    BY <1>3, <2>1, LostSlotsKeepSlot
  <2> QED BY <1>0, <2>2, NothingSent
<1> QED BY <1>1, <1>2, <1>3 DEF Looks

LEMMA DeliveredKeepsSlot ==
  ASSUME BeforeWrap, NEW s \in Onus, IdleInv(s), NEW g \in Slots, NEW now \in Clocks,
         now <= Horizon, Registers(s, g), Timely(s, g, now), s.link # <<>>
  PROVE  LET t == Delivered(s, now)
         IN  Registers(t, g) /\ Timely(t, g, now) /\ Fits(g, now, s.mac, t.mac)
<1> PICK u : u = [s EXCEPT !.link = Tail(s.link)]
  OBVIOUS
<1> PICK c : c = ClockSync(u, now)
  OBVIOUS
<1> PICK m : m = Head(s.link)
  OBVIOUS
<1> PICK t : t = FromHigherLayer(c, m)
  OBVIOUS
<1> PICK k : k = PutInTmp(c, m)
  OBVIOUS
<1>1. Delivered(s, now) = t
  BY DEF Delivered, Onus
<1>2. /\ u \in Onus /\ u.clock <= now /\ u.start = s.start /\ u.len = s.len
      /\ u.state = s.state /\ u.gates = s.gates /\ u.tmp = s.tmp /\ u.mac = s.mac
      /\ u.startTx = s.startTx /\ u.stopTx = s.stopTx /\ Sound(u)
      /\ m \in Frame \union {WakeUp}
  BY HeadTaken DEF Same, IdleInv, Sound, Timely
<1>3. /\ c \in Onus /\ c.clock = now /\ c.start = s.start /\ c.len = s.len
      /\ c.state = s.state /\ c.gates = s.gates /\ c.tmp = s.tmp /\ c.mac = s.mac
      /\ c.startTx = s.startTx /\ c.stopTx = s.stopTx /\ Sound(c)
  BY <1>2, SyncedFacts
<1>4. /\ k \in Onus /\ k.clock = now /\ k.start = s.start /\ k.len = s.len
      /\ k.state = s.state /\ k.gates = s.gates /\ k.mac = s.mac
      /\ k.startTx = s.startTx /\ k.stopTx = s.stopTx /\ Sound(k)
  BY <1>2, <1>3, PutInTmpFacts DEF Same, Sound
<1>5. Registers(c, g) /\ Timely(c, g, now)
  <2>1. now <= now
    BY DEF Clocks
  <2> QED BY <1>3, <2>1 DEF Registers, Timely
<1>6. s.start # 0 => Registers(k, g) /\ Timely(k, g, now)
  <2>1. now <= now
    BY DEF Clocks
  <2> QED BY <1>4, <2>1 DEF Registers, Timely
<1>7. Fits(g, now, s.mac, s.mac)
  <2>1. s.mac \in Macs
    BY DEF Onus
  <2>2. s.mac.queue \in Seq(Frame)
    BY <2>1 DEF Macs
  <2> QED BY <2>1, <2>2, LenProperties, NothingSent
<1>8. CASE t = c
  BY <1>1, <1>3, <1>5, <1>7, <1>8
<1>9. CASE s.start # 0 /\ t = k
  BY <1>1, <1>4, <1>6, <1>7, <1>9
<1>10. CASE s.start # 0 /\ Looks(k, t)
  <2>1. t \in Onus
    BY <1>4, <1>10, LooksFacts
  <2>2. Registers(t, g) /\ Timely(t, g, now) /\ Fits(g, now, k.mac, t.mac)
    BY <1>4, <1>6, <1>10, <2>1, LooksKeepsSlot
  <2> QED BY <1>1, <1>4, <2>2
<1> QED BY <1>2, <1>3, <1>8, <1>9, <1>10, HigherLayerFacts

\* A GATE brings another slot, which holds from then on.
LEMMA GateKeepsSlot ==
  ASSUME BeforeWrap, NEW s \in Onus, NEW h \in Slots, NEW g \in Slots, NEW now \in Clocks,
         now <= Horizon, Registers(s, h), s.clock <= now,
         IF s.gates = 0 THEN g.start = 0 ELSE g \in Grants
  PROVE  LET t == GateReceived(s, now, g)
         IN  Registers(t, g) /\ Timely(t, g, now) /\ Fits(g, now, s.mac, t.mac)
<1> PICK c : c = ClockSync(s, now)
  OBVIOUS
<1> PICK new : new = NewSlot(c, g)
  OBVIOUS
<1> PICK t : t = ProcessGate(c, g)
  OBVIOUS
<1>1. GateReceived(s, now, g) = t
  BY DEF GateReceived
<1>2. /\ c \in Onus /\ c.clock = now /\ c.start = s.start /\ c.len = s.len
      /\ c.gates = s.gates /\ c.tmp = s.tmp /\ c.mac = s.mac
  BY SyncedFacts
<1>3. /\ new \in Onus /\ new.clock = now /\ new.start = g.start /\ new.len = g.length
      /\ new.gates = s.gates + 1 /\ new.tmp = s.tmp /\ new.mac = s.mac
  BY <1>2, NewSlotFacts
<1>4. GateOutcome(c, g, t)
  BY DEF ProcessGate, GateOutcome, NewSlot, Onus
<1>5. g.start \in Nat /\ g.length \in Nat /\ s.gates \in Nat /\ now \in Nat /\ s.mac \in Macs
  BY DEF Slots, Clocks, Onus
<1>6. Registers(new, g)
  <2>1. s.gates # 0 => g.start # 0 /\ g \in Grants
    BY GrantSlots
  <2>2. g.start = g.start + 0 * SlotTime
    BY <1>5, Parameters
  <2>3. s.gates = 0 => s.tmp = <<>> /\ s.mac.queue = <<>>
    BY DEF Registers
  <2>4. new.gates # 0
    BY <1>3, <1>5
  <2> QED BY <1>3, <2>1, <2>2, <2>3, <2>4 DEF Registers
<1>7. Within(g.start, g, now, 1) /\ Within(g.start, g, now, 2)
  BY <1>5, WithinMore
<1>8. s.mac.queue \in Seq(Frame) /\ Len(s.mac.queue) <= Len(s.mac.queue)
  <2>1. s.mac.queue \in Seq(Frame)
    BY <1>5 DEF Macs
  <2> QED BY <2>1, LenProperties
<1>9. CASE t = ScheduleStart(new)
  <2>1. Registers(t, g) /\ Timely(t, g, now) /\ t.mac = s.mac
    BY <1>3, <1>6, <1>7, <1>9, ScheduleKeepsSlot
  <2> QED BY <1>1, <1>5, <1>8, <2>1, NothingSent
<1>10. CASE t = ScheduleStart([new EXCEPT !.stopTx = None])
  <2> PICK u : u = [new EXCEPT !.stopTx = None]
    OBVIOUS
  <2>1. /\ u \in Onus /\ u.clock = now /\ u.start = g.start /\ u.len = g.length
        /\ u.gates = new.gates /\ u.tmp = new.tmp /\ u.mac = new.mac
    BY <1>3, StopCleared DEF Same
  <2>2. Registers(u, g)
    BY <1>3, <1>6, <2>1 DEF Registers
  <2>3. Registers(t, g) /\ Timely(t, g, now) /\ t.mac = s.mac
    BY <1>3, <1>7, <1>10, <2>1, <2>2, ScheduleKeepsSlot
  <2> QED BY <1>1, <1>5, <1>8, <2>3, NothingSent
<1>11. CASE s.gates # 0 /\ new.clock > End(new) /\ t = ShiftStart(new, LostSlots(new))
  <2> DEFINE x == g.start + g.length
  <2>1. x \in 0 .. ClockMax /\ x \in Int
    BY <1>5, <1>11, Parameters DEF BeforeWrap
  <2> HIDE DEF x
  <2>2. U32(x) = x
    BY <2>1, U32Facts
  <2>3. End(new) = x
    BY <1>3, <2>2 DEF End, x
  <2>4. new.start <= now /\ new.start # 0
    BY <1>3, <1>5, <1>11, <2>3, GrantSlots DEF x
  <2>5. Registers(t, g) /\ Timely(t, g, now) /\ t.mac = s.mac
    BY <1>3, <1>6, <1>11, <2>4, LostSlotsKeepSlot
  <2> QED BY <1>1, <1>5, <1>8, <2>5, NothingSent
<1>12. CASE InSlot(new) /\ t = StartTxOnPON(ScheduleStop(new))
  <2> PICK u : u = ScheduleStop(new)
    OBVIOUS
  <2>1. /\ u \in Onus /\ u.clock = now /\ u.start = g.start /\ u.len = g.length
        /\ u.gates = new.gates /\ u.tmp = new.tmp /\ u.mac = s.mac
    BY <1>3, ScheduleStopFacts DEF Same
  <2>2. Registers(u, g)
    BY <1>3, <1>6, <2>1 DEF Registers
  <2>3. u.start <= now
    BY <1>3, <1>5, <1>12, <2>1 DEF InSlot
  <2>4. Registers(t, g) /\ Timely(t, g, now) /\ Fits(g, now, u.mac, t.mac)
    BY <1>12, <2>1, <2>2, <2>3, StartTxKeepsSlot
  <2> QED BY <1>1, <2>1, <2>4
<1> QED BY <1>2, <1>4, <1>9, <1>10, <1>11, <1>12 DEF GateOutcome

LEMMA StartTxFiresKeepsSlot ==
  ASSUME BeforeWrap, NEW s \in Onus, IdleInv(s), s.startTx = 0, NEW g \in Slots,
         NEW now \in Clocks, now <= Horizon, Registers(s, g), Timely(s, g, now)
  PROVE  LET t == StartTxFires(s, now)
         IN  Registers(t, g) /\ Timely(t, g, now) /\ Fits(g, now, s.mac, t.mac)
<1>0. s.clock <= now
  BY DEF Timely
<1>1. PICK c \in Onus :
        /\ StartTxFires(s, now) = StartTxOnPON(c)
        /\ c.clock = now /\ c.start = s.start /\ c.len = s.len
        /\ c.gates = s.gates /\ c.tmp = s.tmp /\ c.mac = s.mac
  BY <1>0, StartTxCalls
<1>2. Registers(c, g)
  BY <1>1 DEF Registers
<1>3. c.start <= now
  <2>1. s.start \in Nat /\ now \in Nat /\ now + s.startTx >= s.start
    BY Parameters DEF Timely, Onus, Clocks
  <2> QED BY <1>1, <2>1
<1> QED BY <1>1, <1>2, <1>3, StartTxKeepsSlot

LEMMA StopTxFiresKeepsSlot ==
  ASSUME BeforeWrap, NEW s \in Onus, s.stopTx = 0, NEW g \in Slots,
         NEW now \in Clocks, now <= Horizon, Registers(s, g), Timely(s, g, now)
  PROVE  LET t == StopTxFires(s, now)
         IN  Registers(t, g) /\ Timely(t, g, now) /\ Fits(g, now, s.mac, t.mac)
<1>0. s.clock <= now
  BY DEF Timely
<1>1. PICK c \in Onus :
        /\ StopTxFires(s, now) = StopTxPeriod(c)
        /\ c.clock = now /\ c.start = s.start /\ c.len = s.len
        /\ c.gates = s.gates /\ c.tmp = s.tmp /\ c.mac = s.mac
        /\ c.startTx = s.startTx /\ c.stopTx = None
  BY <1>0, StopTxCalls
<1> PICK t : t = StopTxPeriod(c)
  OBVIOUS
<1>2. Registers(c, g)
  BY <1>1 DEF Registers
<1>3. t \in Onus /\ Same(c, t)
  BY StopTxFacts
<1>4. s.start \in Nat /\ s.mac \in Macs /\ now \in Nat
  BY DEF Onus, Clocks
<1>5. s.mac.queue \in Seq(Frame) /\ Len(s.mac.queue) <= Len(s.mac.queue)
  <2>1. s.mac.queue \in Seq(Frame)
    BY <1>4 DEF Macs
  <2> QED BY <2>1, LenProperties
<1>6. CASE /\ t.state = "sleep"
           /\ t.start = c.start /\ t.tmp = c.tmp /\ t.mac = c.mac
           /\ t.startTx = c.startTx /\ t.stopTx = c.stopTx
  <2>1. Registers(t, g)
    BY <1>2, <1>3, <1>6 DEF Registers, Same
  <2>2. Timely(t, g, now)
    BY <1>1, <1>3, <1>4, <1>6 DEF Timely, Same
  <2> QED BY <1>1, <1>4, <1>5, <1>6, <2>1, <2>2, NothingSent
<1>7. CASE Moves(c, t, 1) /\ c.tmp # <<>>
  <2>1. c.start # 0
    BY <1>2, <1>7 DEF Registers
  <2>2. Within(s.start, g, now, 1)
    BY Parameters DEF Timely
  <2>3. Within(s.start + SlotTime, g, now, 2)
    BY <1>4, <2>2, WithinMore
  <2>4. c.start + 1 * SlotTime = s.start + SlotTime
    BY <1>1, <1>4, Parameters
  <2>5. t.stopTx = None
    BY <1>1, <1>7 DEF Moves
  <2>6. Registers(t, g) /\ Timely(t, g, now) /\ t.mac = c.mac
    BY <1>1, <1>2, <1>3, <1>7, <2>1, <2>3, <2>4, <2>5, ShiftKeepsSlot
  <2> QED BY <1>1, <1>4, <1>5, <2>6, NothingSent
<1> QED BY <1>1, <1>6, <1>7, StopTxFacts

\* The registers, what is scheduled, and the slot of the last GATE.
SlotInv == Registers(onu, granted) /\ Timely(onu, granted, simT)

LEMMA StepSlotInv ==
  ASSUME BeforeWrap
  PROVE  ClockInv /\ SlotInv /\ [Next]_vars =>
           SlotInv' /\ Fits(granted', simT, onu.mac, onu'.mac)
<1> SUFFICES ASSUME ClockInv, SlotInv, [Next]_vars
             PROVE  SlotInv' /\ Fits(granted', simT, onu.mac, onu'.mac)
  OBVIOUS
<1> PICK s : s = onu
  OBVIOUS
<1> PICK t : t = onu'
  OBVIOUS
<1> PICK now : now = simT
  OBVIOUS
<1> PICK g : g = granted
  OBVIOUS
<1>0. /\ s \in Onus /\ IdleInv(s) /\ now \in Clocks /\ now <= Horizon /\ g \in Slots
      /\ Registers(s, g) /\ Timely(s, g, now)
  BY DEF ClockInv, RestInv, SlotInv
<1>a. RestInv'
  BY StepRestInv DEF ClockInv
<1>b. s.mac \in Macs /\ t.mac \in Macs
  BY <1>0, <1>a DEF RestInv, Onus
<1>c. s.mac.queue \in Seq(Frame) /\ t.mac.queue \in Seq(Frame)
  BY <1>b DEF Macs
<1>d. Len(s.mac.queue) \in Nat /\ Len(t.mac.queue) \in Nat
  BY <1>c, LenProperties
<1> SUFFICES Registers(t, granted') /\ Timely(t, granted', simT') /\ Fits(granted', now, s.mac, t.mac)
  BY DEF SlotInv
<1>1. CASE FrameArrives
  <2>1. PICK i \in 1 .. NumQueues, air \in Airs :
          onu' = [onu EXCEPT !.q = EnqueueFrame(@, i, [air |-> air]),
                             !.link = @ \o WakeUpFor(onu.q)]
    BY <1>1 DEF FrameArrives
  <2>2. [air |-> air] \in Frame
    BY DEF Frame
  <2> PICK f : f = [air |-> air]
    OBVIOUS
  <2>3. t = Arrived(s, i, f)
    BY <2>1 DEF Arrived
  <2>4. /\ t.clock = s.clock /\ t.start = s.start /\ t.len = s.len /\ t.gates = s.gates
        /\ t.state = s.state /\ t.startTx = s.startTx /\ t.stopTx = s.stopTx
        /\ t.tmp = s.tmp /\ t.mac = s.mac
    BY <1>0, <2>2, <2>3, EnqueueFacts DEF Same
  <2>5. Registers(t, g) /\ Timely(t, g, now)
    BY <1>0, <2>4 DEF Registers, Timely
  <2>6. Fits(g, now, s.mac, t.mac)
    BY <1>b, <1>d, <2>4, NothingSent
  <2>7. simT' = now /\ granted' = g
    BY <1>1 DEF FrameArrives
  <2> QED BY <2>5, <2>6, <2>7
<1>2. CASE LinkDelivers
  <2>1. s.link # <<>> /\ t = Delivered(s, now) /\ simT' = now /\ granted' = g
    BY <1>2 DEF LinkDelivers
  <2>2. Registers(t, g) /\ Timely(t, g, now) /\ Fits(g, now, s.mac, t.mac)
    BY <1>0, <2>1, DeliveredKeepsSlot
  <2> QED BY <2>1, <2>2
<1>3. CASE GateArrives
  <2>1. PICK h \in IF onu.gates = 0 THEN {[start |-> 0, length |-> RegWindow]} ELSE Grants :
          t = GateReceived(s, now, h) /\ simT' = now /\ granted' = h
    BY <1>3 DEF GateArrives
  <2>2. h \in Slots
    BY GrantSlots
  <2>3. IF s.gates = 0 THEN h.start = 0 ELSE h \in Grants
    BY <2>1
  <2>4. Registers(t, h) /\ Timely(t, h, now) /\ Fits(h, now, s.mac, t.mac)
    BY <1>0, <2>1, <2>2, <2>3, GateKeepsSlot DEF Timely
  <2> QED BY <2>1, <2>4
<1>4. CASE OtherArrives
  <2>1. t = ClockSync(s, now) /\ simT' = now /\ granted' = g
    BY <1>4 DEF OtherArrives
  <2>2. /\ t.clock = now /\ t.start = s.start /\ t.len = s.len /\ t.gates = s.gates
        /\ t.state = s.state /\ t.startTx = s.startTx /\ t.stopTx = s.stopTx
        /\ t.tmp = s.tmp /\ t.mac = s.mac
    BY <1>0, <2>1, SyncedFacts DEF Timely
  <2>3. Registers(t, g) /\ Timely(t, g, now)
    BY <1>0, <2>2 DEF Registers, Timely, Clocks
  <2>4. Fits(g, now, s.mac, t.mac)
    BY <1>b, <1>d, <2>2, NothingSent
  <2> QED BY <2>1, <2>3, <2>4
<1>5. CASE StartTx
  <2>1. s.startTx = 0 /\ t = StartTxFires(s, now) /\ simT' = now /\ granted' = g
    BY <1>5 DEF StartTx
  <2>2. Registers(t, g) /\ Timely(t, g, now) /\ Fits(g, now, s.mac, t.mac)
    BY <1>0, <2>1, StartTxFiresKeepsSlot
  <2> QED BY <2>1, <2>2
<1>6. CASE StopTx
  <2>1. s.stopTx = 0 /\ t = StopTxFires(s, now) /\ simT' = now /\ granted' = g
    BY <1>6 DEF StopTx
  <2>2. Registers(t, g) /\ Timely(t, g, now) /\ Fits(g, now, s.mac, t.mac)
    BY <1>0, <2>1, StopTxFiresKeepsSlot
  <2> QED BY <2>1, <2>2
<1>7. CASE MacTimer
  <2>1. s.mac.timer = 0 /\ t = MacTimerFires(s) /\ simT' = now /\ granted' = g
    BY <1>7 DEF MacTimer
  <2>2. /\ t.clock = s.clock /\ t.start = s.start /\ t.len = s.len /\ t.gates = s.gates
        /\ t.state = s.state /\ t.startTx = s.startTx /\ t.stopTx = s.stopTx
        /\ t.tmp = s.tmp /\ Len(t.mac.queue) <= Len(s.mac.queue)
    BY <1>0, <2>1, OnuMacTimerFacts DEF Same
  <2>3. s.mac.queue = <<>> => t.mac.queue = <<>>
    BY <1>c, <1>d, <2>2, EmptySeq
  <2>4. Registers(t, g) /\ Timely(t, g, now)
    BY <1>0, <2>2, <2>3 DEF Registers, Timely
  <2>5. Fits(g, now, s.mac, t.mac)
    BY <1>b, <2>2, NothingSent
  <2> QED BY <2>1, <2>4, <2>5
<1>8. CASE Tick
  <2>1. ~ OnuDue(s) /\ t = OnuTick(s) /\ granted' = g
    BY <1>8 DEF Tick
  <2>2. /\ t.clock = s.clock /\ t.start = s.start /\ t.len = s.len /\ t.gates = s.gates
        /\ t.state = s.state /\ t.tmp = s.tmp /\ t.mac.queue = s.mac.queue
        /\ t.startTx = Elapse(s.startTx)
        /\ t.startTx = None <=> s.startTx = None
        /\ t.stopTx = None <=> s.stopTx = None
    BY <1>0, <2>1, TickFacts DEF Same
  <2>3. simT' = now + 1
    BY <1>8, TimeGoesOn DEF BeforeWrap
  <2>4. Registers(t, g)
    BY <1>0, <2>2 DEF Registers
  <2>5. Timely(t, g, now + 1)
    <3>1. s.clock \in Nat /\ s.start \in Nat /\ now \in Nat /\ g.start \in Nat
          /\ SlotTime \in Nat /\ 2 * SlotTime \in Nat /\ s.startTx \in Timer
      BY <1>0, Parameters DEF Onus, Clocks, Slots
    <3>2. \A n \in {1, 2} : Within(s.start, g, now, n) => Within(s.start, g, now + 1, n)
      BY <3>1 DEF Within
    <3>3. t.startTx # None => (now + 1) + t.startTx >= t.start
      <4> SUFFICES ASSUME t.startTx # None PROVE (now + 1) + t.startTx >= t.start
        OBVIOUS
      <4>1. s.startTx # None /\ t.startTx = s.startTx - 1 /\ now + s.startTx >= s.start
        BY <1>0, <2>2 DEF Elapse, Timely
      <4>2. s.startTx \in Nat
        BY <3>1, <4>1 DEF Timer
      <4> QED BY <2>2, <3>1, <4>1, <4>2
    <3> QED BY <1>0, <2>2, <3>1, <3>2, <3>3 DEF Timely
  <2>6. Fits(g, now, s.mac, t.mac)
    BY <1>b, <1>d, <2>2, NothingSent
  <2> QED BY <2>1, <2>3, <2>4, <2>5, <2>6
<1>9. CASE UNCHANGED vars
  <2>1. t = s /\ simT' = now /\ granted' = g
    BY <1>9 DEF vars
  <2>2. Fits(g, now, s.mac, t.mac)
    BY <1>b, <1>d, <2>1, NothingSent
  <2> QED BY <1>0, <2>1, <2>2
<1> QED BY <1>1, <1>2, <1>3, <1>4, <1>5, <1>6, <1>7, <1>8, <1>9 DEF Next

(***************************************************************************)
(* For any slots, frames and sequence of arrivals, the MAC control passes  *)
(* a frame on only at a moment from which it fits in the slot of the last  *)
(* GATE, in that super slot or a later one, for a simulation that ends     *)
(* before the clock registers wrap.                                        *)
(***************************************************************************)
THEOREM SendsOnlyInSlot ==
  ASSUME BeforeWrap
  PROVE  Spec => SendsInGrantedSlot
<1> DEFINE InSlotStep ==
      Sends => LET need == onu'.mac.queue[Len(onu'.mac.queue)].air + Ifg
               IN  /\ simT >= granted'.start
                   /\ ((simT - granted'.start) % SlotTime) + need <= granted'.length
<1>1. Init => ClockInv /\ WakeInv(onu) /\ SlotInv
  <2> SUFFICES ASSUME Init PROVE ClockInv /\ WakeInv(onu) /\ SlotInv
    OBVIOUS
  <2>1. ClockInv /\ WakeInv(onu)
    BY InitOnu, InitRestInv, OnuInputs DEF Init, ClockInv, WakeInv
  <2>2. Registers(onu, granted)
    BY InitOnu DEF Init, Registers
  <2>3. Timely(onu, granted, simT)
    BY InitOnu, Parameters DEF Init, Timely, Within
  <2> QED BY <2>1, <2>2, <2>3 DEF SlotInv
<1>2. /\ ClockInv /\ WakeInv(onu) /\ SlotInv /\ [Next]_vars =>
           ClockInv' /\ WakeInv(onu)' /\ SlotInv'
      /\ ClockInv /\ SlotInv /\ [Next]_vars => [InSlotStep]_vars
  <2>1. ClockInv /\ WakeInv(onu) /\ [Next]_vars => ClockInv' /\ WakeInv(onu)'
    BY StepWakeInv DEF BeforeWrap
  <2>2. ClockInv /\ SlotInv /\ [Next]_vars => SlotInv' /\ Fits(granted', simT, onu.mac, onu'.mac)
    BY StepSlotInv
  <2>3. ASSUME ClockInv, SlotInv, [Next]_vars PROVE InSlotStep
    BY <2>2, <2>3 DEF Fits, Sends
  <2> QED BY <2>1, <2>2, <2>3
<1> QED BY <1>1, <1>2, PTL DEF Spec, SendsInGrantedSlot
=============================================================================
