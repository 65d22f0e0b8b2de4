-------------------------- MODULE PollingPonProofs --------------------------
(***************************************************************************)
(* Proofs about a PON under polling, for any number of ONUs, any fibres,   *)
(* frames, windows and guards: about the transmitter and the MAC control   *)
(* of an ONU first, and then about the PON.                                *)
(*                                                                         *)
(* All times are relative to now.  A slot is known by its start: slot[p]   *)
(* at the OLT, start on the GATE that brings it and in the register of     *)
(* the ONU.                                                                *)
(***************************************************************************)
EXTENDS PollingPon, ProofBasics

-----------------------------------------------------------------------------
(* What the constants are *)

LEMMA Parameters ==
  /\ MaxOnus \in Nat /\ MaxOnus > 0 /\ Guard \in Nat /\ Guard > 0 /\ Window \in Nat /\ Window > 0
  /\ Ifg \in Nat /\ Ifg > 0 /\ Extra \in Nat /\ RepTime \in Nat /\ RepLead \in Nat
  /\ RepAir \in Nat /\ RepAir > 0 /\ Delay \in Nat /\ Delay > 0 /\ Missed \in Nat /\ Missed > 0
  /\ QueueLimit \in Nat /\ Period \in Nat /\ Period > 0 /\ HaltOn \in Nat
  /\ NumQueues \in Nat /\ NumQueues > 0
  /\ None \notin Int /\ None \notin Nat /\ None # 0
BY PonParameters, PollingOnuParameters

-----------------------------------------------------------------------------
(* The transmitter *)

HostFrame == [air : Airs, data : {TRUE}]

LEMMA FrameFacts ==
  /\ HostFrame \subseteq Frame /\ Report \in Frame
  /\ \A f \in Frame : f.air \in Nat /\ f.air > 0 /\ Needed(f) \in Nat /\ Needed(f) = f.air + Ifg
<1>1. \A f \in Frame : f.air \in Nat /\ f.air > 0
  <2>1. \A f \in Frame : f.air \in Airs \union {RepAir}
    BY DEF Frame
  <2>2. \A a \in Airs \union {RepAir} : a \in Nat /\ a > 0
    BY PonParameters, Parameters
  <2> QED BY <2>1, <2>2
<1>2. HostFrame \subseteq Frame /\ Report \in Frame
  BY DEF HostFrame, Frame, Report
<1> QED BY <1>1, <1>2, Parameters DEF Needed

LEMMA NotEmpty ==
  ASSUME NEW s, Len(s) # 0
  PROVE  s # <<>>
<1>1. Len(<<>>) = 0
  BY EmptySeq
<1> QED BY <1>1, Zenon

\* It never holds more than two frames, the first on the line or next.
Macs ==
  {m \in [state : {"idle", "ifg", "tx"}, queue : Seq(Frame), timer : Timer] :
     /\ Len(m.queue) <= 2
     /\ m.state = "idle" => m.timer = None /\ m.queue = <<>>
     /\ m.state = "ifg" => m.timer \in 0 .. Ifg
     /\ m.state = "tx" => m.queue # <<>> /\ m.timer \in 0 .. m.queue[1].air + Extra}

\* Ticks until it is done with all it has.
MacEnd(m) ==
  (IF m.queue = <<>> THEN 0 ELSE m.timer)
    + (IF m.queue # <<>> /\ m.state = "ifg" THEN m.queue[1].air + Extra ELSE 0)
    + (IF Len(m.queue) > 1 THEN Ifg + m.queue[2].air + Extra ELSE 0)

\* Does a frame wait for the line, and when will it begin?  When is the line free?
Waits(m) == m.queue # <<>> /\ (m.state = "tx" => Len(m.queue) > 1)
MacFrom(m) == m.timer + (IF m.state = "tx" THEN Ifg ELSE 0)
MacFree(m) == IF m.state = "tx" THEN m.timer ELSE 0

LEMMA MacTyped ==
  ASSUME NEW m \in Macs
  PROVE  /\ m.queue \in Seq(Frame) /\ Len(m.queue) \in 0 .. 2
         /\ m.queue = <<>> <=> Len(m.queue) = 0
         /\ \A i \in 1 .. Len(m.queue) :
              m.queue[i] \in Frame /\ m.queue[i].air \in Nat /\ m.queue[i].air > 0
         /\ m.state \in {"idle", "ifg", "tx"}
         /\ m.state = "idle" => m.timer = None /\ m.queue = <<>>
         /\ m.state = "ifg" => m.timer \in 0 .. Ifg
         /\ m.state = "tx" => m.queue # <<>> /\ m.timer \in 0 .. m.queue[1].air + Extra
<1>1. m.queue \in Seq(Frame) /\ Len(m.queue) <= 2
  BY DEF Macs
<1>2. Len(m.queue) \in Nat /\ (m.queue = <<>> <=> Len(m.queue) = 0)
  BY <1>1, LenProperties, EmptySeq
<1>3. \A i \in 1 .. Len(m.queue) : m.queue[i] \in Frame
  BY <1>1, ElementOfSeq
<1>4. /\ m.state \in {"idle", "ifg", "tx"}
      /\ m.state = "idle" => m.timer = None /\ m.queue = <<>>
      /\ m.state = "ifg" => m.timer \in 0 .. Ifg
      /\ m.state = "tx" => m.queue # <<>> /\ m.timer \in 0 .. m.queue[1].air + Extra
  BY DEF Macs
<1>5. Len(m.queue) \in 0 .. 2
  <2>1. \A n \in Nat : n <= 2 => n \in 0 .. 2
    OBVIOUS
  <2> QED BY <1>1, <1>2, <2>1
<1> QED BY <1>1, <1>2, <1>3, <1>4, <1>5, FrameFacts

LEMMA MacBusy ==
  ASSUME NEW m \in Macs, m.queue # <<>>
  PROVE  /\ m.state \in {"ifg", "tx"} /\ m.timer \in Nat /\ Len(m.queue) \in {1, 2}
         /\ m.queue[1] \in Frame /\ m.queue[1].air \in Nat /\ m.queue[1].air > 0
         /\ Len(m.queue) > 1 => /\ Len(m.queue) = 2 /\ m.queue[2] \in Frame
                                /\ m.queue[2].air \in Nat /\ m.queue[2].air > 0
<1>1. Len(m.queue) \in {1, 2}
  BY MacTyped
<1>2. 1 \in 1 .. Len(m.queue) /\ (Len(m.queue) > 1 => Len(m.queue) = 2 /\ 2 \in 1 .. Len(m.queue))
  BY <1>1
<1>3. m.state \in {"ifg", "tx"} /\ m.timer \in Nat
  <2>1. m.queue[1].air \in Nat
    BY <1>2, MacTyped
  <2> QED BY <2>1, MacTyped, Parameters
<1> QED BY <1>1, <1>2, <1>3, MacTyped

LEMMA MacTimes ==
  ASSUME NEW m \in Macs
  PROVE  /\ MacEnd(m) \in Nat /\ MacFree(m) \in Nat
         /\ m.queue = <<>> => MacEnd(m) = 0 /\ MacFree(m) = 0 /\ ~ Waits(m)
         /\ Waits(m) => MacFrom(m) \in Nat /\ MacFree(m) <= MacFrom(m) /\ MacEnd(m) > 0
<1>1. CASE m.queue = <<>>
  <2>1. Len(m.queue) = 0 /\ m.state # "tx"
    BY <1>1, MacTyped
  <2> QED BY <1>1, <2>1 DEF MacEnd, MacFree, Waits
<1>2. CASE m.queue # <<>>
  <2> DEFINE a == m.queue[1].air
             b == m.queue[2].air
             t == m.timer
  <2>1. /\ m.state \in {"ifg", "tx"} /\ t \in Nat /\ a \in Nat /\ a > 0
        /\ Len(m.queue) > 1 => b \in Nat /\ b > 0
    BY <1>2, MacBusy
  <2>2. MacEnd(m) = t + (IF m.state = "ifg" THEN a + Extra ELSE 0)
                      + (IF Len(m.queue) > 1 THEN Ifg + b + Extra ELSE 0)
    BY <1>2 DEF MacEnd
  <2>3. MacFrom(m) = t + (IF m.state = "tx" THEN Ifg ELSE 0)
    BY DEF MacFrom
  <2>4. MacFree(m) = IF m.state = "tx" THEN t ELSE 0
    BY DEF MacFree
  <2> HIDE DEF a, b, t
  <2> QED BY <1>2, <2>1, <2>2, <2>3, <2>4, Parameters DEF Waits
<1> QED BY <1>1, <1>2

LEMMA MacMember ==
  ASSUME NEW state \in {"ifg", "tx"}, NEW queue \in Seq(Frame), NEW timer \in Nat,
         Len(queue) <= 2,
         state = "ifg" => timer <= Ifg,
         state = "tx" => queue # <<>> /\ timer <= queue[1].air + Extra
  PROVE  [state |-> state, queue |-> queue, timer |-> timer] \in Macs
<1> DEFINE m == [state |-> state, queue |-> queue, timer |-> timer]
<1>1. m.state = state /\ m.queue = queue /\ m.timer = timer
  OBVIOUS
<1>2. m \in [state : {"idle", "ifg", "tx"}, queue : Seq(Frame), timer : Timer]
  BY DEF Timer
<1>3. state = "ifg" => timer \in 0 .. Ifg
  BY Parameters
<1>4. state = "tx" => timer \in 0 .. queue[1].air + Extra
  <2> HAVE state = "tx"
  <2>1. Len(queue) \in Nat \ {0}
    BY EmptySeq, LenProperties
  <2>2. queue[1] \in Frame
    BY <2>1, ElementOfSeq
  <2> QED BY <2>2, FrameFacts, Parameters
<1> HIDE DEF m
<1> QED BY <1>1, <1>2, <1>3, <1>4 DEF Macs, m

\* A frame for a transmitter that has at most one.
LEMMA MacSendFacts ==
  ASSUME NEW m \in Macs, NEW f \in Frame, MacBacklog(m) = 0
  PROVE  LET n == MacSend(m, f)
         IN  /\ n \in Macs /\ Waits(n) /\ MacFree(n) = MacFree(m)
             /\ MacEnd(n) <= MacEnd(m) + Ifg + f.air + Extra
             /\ Last(n.queue) = f /\ Len(n.queue) = Len(m.queue) + 1 /\ n.queue # <<>>
<1> PICK state : state = IF m.state = "idle" THEN "ifg" ELSE m.state
  OBVIOUS
<1> PICK timer : timer = IF m.state = "idle" THEN Ifg ELSE m.timer
  OBVIOUS
<1> PICK queue : queue = Append(m.queue, f)
  OBVIOUS
<1> PICK n : n = MacSend(m, f)
  OBVIOUS
<1>1. n = [state |-> state, queue |-> queue, timer |-> timer]
  <2>1. n = [m EXCEPT !.queue = queue, !.state = state, !.timer = timer]
    BY DEF MacSend, Macs
  <2> QED BY <2>1 DEF Macs
<1>2. f.air \in Nat /\ f.air > 0 /\ m.queue \in Seq(Frame)
  BY MacTyped, FrameFacts
<1>3. /\ queue \in Seq(Frame) /\ Len(queue) = Len(m.queue) + 1
      /\ \A i \in 1 .. Len(m.queue) : queue[i] = m.queue[i]
      /\ queue[Len(m.queue) + 1] = f /\ queue # <<>>
  BY <1>2, AppendProperties
<1>9. n.queue = queue /\ n.state = state /\ n.timer = timer
  BY <1>1
<1>4. CASE m.queue = <<>>
  <2>1. Len(m.queue) = 0 /\ m.state \in {"idle", "ifg"}
    BY <1>4, MacTyped
  <2>2. state = "ifg" /\ timer \in Nat /\ timer <= Ifg
    BY <2>1, MacTyped, Parameters
  <2>3. Len(queue) = 1 /\ queue[1] = f /\ queue # <<>>
    BY <1>3, <2>1
  <2>4. n \in Macs
    BY <1>1, <1>3, <2>2, <2>3, MacMember
  <2>6. MacEnd(n) = timer + (f.air + Extra)
    BY <1>2, <2>2, <2>3, <1>9, Parameters DEF MacEnd
  <2>7. MacEnd(m) = 0 /\ MacFree(m) = 0
    BY <1>4, MacTimes
  <2>8. Waits(n) /\ MacFree(n) = 0
    BY <2>2, <2>3, <1>9 DEF Waits, MacFree
  <2>9. MacEnd(n) <= MacEnd(m) + Ifg + f.air + Extra
    BY <1>2, <2>2, <2>6, <2>7, Parameters
  <2>10. Last(n.queue) = f
    BY <2>3, <1>9 DEF Last
  <2> QED BY <1>9, <2>1, <2>3, <2>4, <2>7, <2>8, <2>9, <2>10
<1>5. CASE m.queue # <<>>
  <2>1. Len(m.queue) = 1
    BY <1>5, MacBusy DEF MacBacklog
  <2>2. state = m.state /\ timer = m.timer /\ m.state \in {"ifg", "tx"} /\ m.timer \in Nat
    BY <1>5, MacBusy
  <2>3. Len(queue) = 2 /\ queue[1] = m.queue[1] /\ queue[2] = f /\ queue # <<>>
    BY <1>3, <2>1
  <2>4. m.queue[1].air \in Nat
    BY <1>5, MacBusy
  <2>5. /\ state \in {"ifg", "tx"} /\ timer \in Nat /\ Len(queue) <= 2
        /\ state = "ifg" => timer <= Ifg
        /\ state = "tx" => queue # <<>> /\ timer <= queue[1].air + Extra
    BY <2>2, <2>3, <2>4, MacTyped, Parameters
  <2>6. n \in Macs
    BY <1>1, <1>3, <2>5, MacMember
  <2> DEFINE rest == IF m.state = "ifg" THEN m.queue[1].air + Extra ELSE 0
  <2>8. rest \in Nat
    BY <2>4, Parameters
  <2>9. MacEnd(n) = m.timer + rest + (Ifg + f.air + Extra)
    BY <2>2, <2>3, <1>9 DEF MacEnd
  <2>10. MacEnd(m) = m.timer + rest
    <3> HIDE DEF rest
    <3>1. MacEnd(m) = m.timer + rest + 0
      BY <1>5, <2>1 DEF MacEnd, rest
    <3> QED BY <2>2, <2>8, <3>1
  <2> HIDE DEF rest
  <2>11. MacEnd(n) <= MacEnd(m) + Ifg + f.air + Extra
    BY <1>2, <2>2, <2>8, <2>9, <2>10, Parameters
  <2>12. Waits(n) /\ MacFree(n) = MacFree(m)
    BY <2>2, <2>3, <1>9 DEF Waits, MacFree
  <2>13. Last(n.queue) = f
    BY <2>3, <1>9 DEF Last
  <2> QED BY <1>9, <2>1, <2>3, <2>6, <2>11, <2>12, <2>13
<1> QED BY <1>4, <1>5

\* The expression by which the time of a busy transmitter is computed.
LEMMA MacEndBusy ==
  ASSUME NEW m \in Macs, m.queue # <<>>
  PROVE  MacEnd(m) = m.timer + (IF m.state = "ifg" THEN m.queue[1].air + Extra ELSE 0)
                       + (IF Len(m.queue) = 2 THEN Ifg + m.queue[2].air + Extra ELSE 0)
<1>1. Len(m.queue) \in {1, 2}
  BY MacBusy
<1>2. Len(m.queue) > 1 <=> Len(m.queue) = 2
  BY <1>1
<1> QED BY <1>2 DEF MacEnd

\* What the two timers change: a gap that ends with a frame puts it on the line.
Departs(m) == m.state = "ifg" /\ m.queue # <<>>
AfterTimer(m) == IF m.state = "ifg" THEN MacEndIFG(m) ELSE MacEndTx(m)

LEMMA DepartsFacts ==
  ASSUME NEW m \in Macs, m.timer = 0, Departs(m)
  PROVE  LET n == AfterTimer(m)
             air == Head(m.queue).air + Extra
         IN  /\ n \in Macs /\ n.queue = m.queue /\ MacEnd(n) = MacEnd(m)
             /\ Waits(m) /\ MacFrom(m) = 0 /\ MacFree(m) = 0
             /\ air \in Nat \ {0} /\ MacFree(n) = air /\ air <= MacEnd(n)
             /\ Waits(n) => MacFrom(n) = air + Ifg
<1> PICK n : n = AfterTimer(m)
  OBVIOUS
<1> PICK air : air = Head(m.queue).air + Extra
  OBVIOUS
<1> PICK queue : queue = m.queue
  OBVIOUS
<1>1. /\ queue \in Seq(Frame) /\ queue # <<>> /\ Len(queue) \in {1, 2} /\ Len(queue) <= 2
      /\ queue[1].air \in Nat /\ queue[1].air > 0
      /\ Len(queue) = 2 => queue[2].air \in Nat
  BY MacBusy, MacTyped DEF Departs
<1>2. air = queue[1].air + Extra /\ air \in Nat /\ air > 0
  BY <1>1, Parameters
<1>3. n = [state |-> "tx", queue |-> queue, timer |-> air]
  BY DEF AfterTimer, Departs, MacEndIFG, Macs
<1>4. n \in Macs
  BY <1>1, <1>2, <1>3, MacMember
<1>5. n.state = "tx" /\ n.queue = queue /\ n.timer = air
  BY <1>3
<1> DEFINE rest == IF Len(queue) = 2 THEN Ifg + queue[2].air + Extra ELSE 0
<1>6. rest \in Nat
  BY <1>1, Parameters
<1>7. MacEnd(m) = 0 + air + rest
  BY <1>1, <1>2, MacEndBusy DEF Departs
<1>8. MacEnd(n) = air + 0 + rest
  BY <1>1, <1>4, <1>5, MacEndBusy
<1> HIDE DEF rest
<1>9. MacEnd(n) = MacEnd(m) /\ air <= MacEnd(n)
  BY <1>2, <1>6, <1>7, <1>8
<1>10. Waits(m) /\ MacFrom(m) = 0 /\ MacFree(m) = 0
  BY DEF Departs, Waits, MacFrom, MacFree
<1>11. MacFree(n) = air /\ MacFrom(n) = air + Ifg
  BY <1>5 DEF MacFree, MacFrom
<1> QED BY <1>2, <1>4, <1>5, <1>9, <1>10, <1>11

LEMMA RestsFacts ==
  ASSUME NEW m \in Macs, m.timer = 0, ~ Departs(m)
  PROVE  LET n == AfterTimer(m)
         IN  /\ n \in Macs /\ MacEnd(n) = MacEnd(m)
             /\ MacFree(n) = 0 /\ MacFree(m) = 0
             /\ Len(n.queue) <= Len(m.queue)
             /\ n.queue # <<>> => m.queue # <<>> /\ Last(n.queue) = Last(m.queue)
             /\ Waits(n) => Waits(m) /\ MacFrom(n) = MacFrom(m)
<1> PICK n : n = AfterTimer(m)
  OBVIOUS
<1>1. CASE m.state = "ifg"
  <2>1. m.queue = <<>> /\ n = MacInit
    BY <1>1 DEF Departs, AfterTimer, MacEndIFG
  <2>2. MacInit \in Macs
    BY Parameters DEF MacInit, Macs, Timer
  <2>3. MacInit.queue = <<>>
    BY DEF MacInit
  <2>4. Len(n.queue) = 0 /\ Len(m.queue) = 0
    BY <2>1, <2>3
  <2> QED BY <2>1, <2>2, <2>3, <2>4, MacTimes
<1>2. CASE m.state # "ifg"
  <2>1. m.state = "tx" /\ m.queue # <<>>
    BY <1>2, MacTyped, Parameters
  <2> PICK queue : queue = m.queue
    OBVIOUS
  <2>t. PICK tail : tail = Tail(queue)
    OBVIOUS
  <2>2. queue \in Seq(Frame) /\ queue # <<>> /\ Len(queue) \in {1, 2}
    BY <2>1, MacBusy, MacTyped
  <2>3. /\ tail \in Seq(Frame) /\ Len(tail) = Len(queue) - 1
        /\ \A j \in 1 .. Len(queue) - 1 : tail[j] = queue[j+1]
    BY <2>t, <2>2, TailFacts
  <2>4. Len(tail) <= 2 /\ (Len(queue) = 2 => Len(tail) = 1 /\ tail[1] = queue[2])
    BY <2>2, <2>3
  <2>5. n = [state |-> "ifg", queue |-> tail, timer |-> Ifg]
    BY <1>2, <2>t DEF AfterTimer, MacEndTx
  <2>6. n \in Macs
    <3>1. /\ "ifg" \in {"ifg", "tx"} /\ Ifg \in Nat /\ Ifg <= Ifg
          /\ "ifg" = "tx" => tail # <<>> /\ Ifg <= tail[1].air + Extra
      BY Parameters
    <3> QED BY <2>3, <2>4, <2>5, <3>1, MacMember
  <2>7. n.state = "ifg" /\ n.queue = tail /\ n.timer = Ifg
    BY <2>5
  <2>8. MacFree(n) = 0 /\ MacFree(m) = 0 /\ MacFrom(m) = 0 + Ifg /\ MacFrom(n) = Ifg + 0
    BY <2>1, <2>7 DEF MacFree, MacFrom
  <2>9. CASE Len(queue) = 1
    <3>1. tail = <<>>
      BY <2>3, <2>9, EmptySeq
    <3>2. MacEnd(m) = 0 + 0 + 0
      BY <2>1, <2>9, MacEndBusy
    <3>3. MacEnd(n) = 0 /\ ~ Waits(n)
      BY <2>6, <2>7, <3>1, MacTimes
    <3>4. n.queue = <<>> /\ MacEnd(n) = MacEnd(m)
      BY <2>7, <3>1, <3>2, <3>3
    <3>5. Len(n.queue) <= Len(m.queue)
      BY <2>3, <2>7, <2>9
    <3> QED BY <2>6, <2>8, <3>3, <3>4, <3>5
  <2>10. CASE Len(queue) = 2
    <3>1. queue[2].air \in Nat /\ tail # <<>>
      <4>1. Len(m.queue) > 1
        BY <2>10
      <4>2. queue[2].air \in Nat
        BY <2>1, <4>1, MacBusy
      <4>3. tail # <<>>
        <5>1. Len(tail) # 0
          BY <2>4, <2>10
        <5> QED BY <5>1, NotEmpty
      <4> QED BY <4>2, <4>3
    <3>2. MacEnd(m) = 0 + 0 + (Ifg + queue[2].air + Extra)
      BY <2>1, <2>10, MacEndBusy
    <3>3. MacEnd(n) = Ifg + (queue[2].air + Extra) + 0
      <4>1. n.queue = tail /\ Len(tail) = 1 /\ tail[1] = queue[2]
        BY <2>4, <2>7, <2>10
      <4>2. n.queue # <<>> /\ Len(n.queue) = 1
        BY <3>1, <4>1
      <4>3. n.queue[1] = queue[2]
        BY <4>1
      <4>4. MacEnd(n) = n.timer + (IF n.state = "ifg" THEN n.queue[1].air + Extra ELSE 0)
                          + (IF Len(n.queue) = 2 THEN Ifg + n.queue[2].air + Extra ELSE 0)
        BY <2>6, <4>2, MacEndBusy
      <4> QED BY <2>7, <3>1, <4>2, <4>3, <4>4
    <3>4. MacEnd(n) = MacEnd(m) /\ MacFrom(n) = MacFrom(m)
      BY <2>8, <3>1, <3>2, <3>3, Parameters
    <3>5. Waits(m)
      BY <2>2, <2>10 DEF Waits
    <3>6. Last(tail) = Last(queue)
      BY <2>4, <2>10 DEF Last
    <3> QED BY <2>1, <2>4, <2>6, <2>7, <2>8, <2>10, <3>4, <3>5, <3>6
  <2> QED BY <2>2, <2>9, <2>10
<1> QED BY <1>1, <1>2

\* A tick.
LEMMA MacTickFacts ==
  ASSUME NEW m \in Macs, m.timer # 0
  PROVE  LET n == [m EXCEPT !.timer = Elapse(@)]
         IN  /\ n \in Macs /\ n.queue = m.queue /\ (Waits(n) <=> Waits(m))
             /\ m.queue # <<>> => MacEnd(n) = MacEnd(m) - 1
             /\ Waits(m) => MacFrom(n) = MacFrom(m) - 1
             /\ MacFree(n) = (IF m.state = "tx" THEN MacFree(m) - 1 ELSE 0)
             /\ m.state # "tx" => MacFree(m) = 0
<1>n. PICK n : n = [m EXCEPT !.timer = Elapse(@)]
  OBVIOUS
<1>1. n.queue = m.queue /\ n.state = m.state /\ n.timer = Elapse(m.timer)
  BY <1>n DEF Macs
<1>2. Waits(n) <=> Waits(m)
  BY <1>1 DEF Waits
<1>3. m.state # "tx" => MacFree(m) = 0
  BY DEF MacFree
<1>4. CASE m.state = "idle"
  <2>1. m.timer = None /\ m.queue = <<>>
    BY <1>4, MacTyped
  <2>2. n = m
    BY <1>n, <2>1 DEF Elapse, Macs
  <2>3. MacFree(n) = 0 /\ ~ Waits(m)
    BY <1>4, <2>1, <2>2 DEF MacFree, Waits
  <2> QED BY <1>n, <1>2, <1>3, <1>4, <2>1, <2>2, <2>3
<1>5. CASE m.state # "idle"
  <2> PICK queue : queue = m.queue
    OBVIOUS
  <2> PICK t : t = m.timer
    OBVIOUS
  <2>1. /\ queue \in Seq(Frame) /\ Len(queue) <= 2 /\ m.state \in {"ifg", "tx"}
        /\ m.state = "ifg" => t \in 0 .. Ifg
        /\ m.state = "tx" => queue # <<>> /\ t \in 0 .. queue[1].air + Extra
    BY <1>5, MacTyped
  <2>2. m.state = "tx" => queue[1].air \in Nat
    BY <2>1, MacBusy
  <2>3. t \in Nat /\ t > 0 /\ t - 1 \in Nat
    <3>1. m.state = "ifg" => t \in Nat
      BY <2>1, Parameters
    <3>2. m.state = "tx" => t \in Nat
      BY <2>1, <2>2, Parameters
    <3>3. t \in Nat /\ t # 0
      BY <2>1, <3>1, <3>2
    <3> QED BY <3>3
  <2>4. /\ m.state = "ifg" => t - 1 <= Ifg
        /\ m.state = "tx" => queue # <<>> /\ t - 1 <= queue[1].air + Extra
    <3>1. m.state = "ifg" => t - 1 <= Ifg
      <4> HAVE m.state = "ifg"
      <4>1. t <= Ifg
        BY <2>1, Parameters
      <4> QED BY <2>3, <4>1, Parameters
    <3>2. m.state = "tx" => queue # <<>> /\ t - 1 <= queue[1].air + Extra
      <4> HAVE m.state = "tx"
      <4>1. queue[1].air + Extra \in Nat
        BY <2>2, Parameters
      <4> QED BY <2>1, <2>3, <4>1
    <3> QED BY <3>1, <3>2
  <2>5. n.timer = t - 1
    BY <1>1, <2>3, Parameters DEF Elapse
  <2>6. n = [state |-> m.state, queue |-> queue, timer |-> t - 1]
    BY <1>n, <1>1, <2>5 DEF Macs
  <2>7. n \in Macs
    <3> PICK state : state = m.state
      OBVIOUS
    <3> PICK u : u = t - 1
      OBVIOUS
    <3>1. n = [state |-> state, queue |-> queue, timer |-> u]
      BY <2>6
    <3>2. /\ state \in {"ifg", "tx"} /\ queue \in Seq(Frame) /\ u \in Nat /\ Len(queue) <= 2
          /\ state = "ifg" => u <= Ifg
          /\ state = "tx" => queue # <<>> /\ u <= queue[1].air + Extra
      BY <2>1, <2>3, <2>4
    <3> QED BY <3>1, <3>2, MacMember
  <2>8. m.queue # <<>> => MacEnd(n) = MacEnd(m) - 1
    <3> HAVE m.queue # <<>>
    <3> DEFINE a == IF m.state = "ifg" THEN queue[1].air + Extra ELSE 0
               b == IF Len(queue) = 2 THEN Ifg + queue[2].air + Extra ELSE 0
    <3>1. a \in Nat /\ b \in Nat
      <4>1. queue[1].air \in Nat /\ (Len(queue) > 1 => queue[2].air \in Nat)
        BY MacBusy
      <4>2. a \in Nat
        BY <4>1, Parameters
      <4>3. b \in Nat
        BY <4>1, Parameters
      <4> QED BY <4>2, <4>3
    <3>2. MacEnd(m) = t + a + b
      BY MacEndBusy
    <3>3. MacEnd(n) = (t - 1) + a + b
      BY <1>1, <2>5, <2>7, MacEndBusy
    <3> HIDE DEF a, b
    <3> QED BY <2>3, <3>1, <3>2, <3>3
  <2>9. MacFrom(n) = MacFrom(m) - 1
    BY <1>1, <2>3, <2>5, Parameters DEF MacFrom
  <2>10. MacFree(n) = (IF m.state = "tx" THEN MacFree(m) - 1 ELSE 0)
    BY <1>1, <2>5 DEF MacFree
  <2> QED BY <1>n, <1>1, <1>2, <1>3, <2>7, <2>8, <2>9, <2>10
<1> QED BY <1>4, <1>5

-----------------------------------------------------------------------------
(* The state of an ONU *)

Queues ==
  {q \in RoundRobins(NumQueues, HostFrame) :
     \A i \in 1 .. NumQueues : Len(q.pon[i]) <= QueueLimit}
\* At most one WAKE UP and one frame are on their way, in either order.
Links ==
  {<<>>, <<WakeUp>>} \union {<<f>> : f \in HostFrame}
    \union {<<WakeUp, f>> : f \in HostFrame} \union {<<f, WakeUp>> : f \in HostFrame}
WakeOn(link) == \E k \in DOMAIN link : link[k] = WakeUp
FrameOn(link) == \E k \in DOMAIN link : link[k] # WakeUp

Onus ==
  [polled : BOOLEAN, start : Int, len : {0, Window}, startTx : Timer, report : Timer,
   tmp : Seq(HostFrame), link : Links, mac : Macs, error : {FALSE}, q : Queues]

\* The slot in the registers of an ONU is not over.
Live(s) == s.polled /\ End(s) > 0

\* The REPORT is the last frame that the transmitter has.
ReportLast(m) == m.queue # <<>> => Last(m.queue) = Report

(***************************************************************************)
(* A frame comes from the queues only in the slot, when none waits in      *)
(* tmp_queue: startTxOnPON has asked for it, with a transmitter that is    *)
(* free and without startTxMsg.  In the same instant sendReportMsg may     *)
(* overtake it, and send the REPORT; then it is too late for the frame.    *)
(***************************************************************************)
Overtaken(s) ==
  /\ s.report = None /\ End(s) = RepLead /\ ReportLast(s.mac)
  /\ s.startTx = None \/ (s.startTx = Delay /\ Delay < RepLead)
Expected(s) ==
  /\ s.tmp = <<>> /\ Live(s) /\ s.start <= 0
  /\ (s.startTx = None /\ MacBacklog(s.mac) = 0) \/ Overtaken(s)

(***************************************************************************)
(* The queues know when they are empty.  While a WAKE UP is on its way a   *)
(* single frame has arrived; if the frame behind the WAKE UP has been      *)
(* asked for already, it was that one.                                     *)
(***************************************************************************)
Linked(s) ==
  /\ s.q.allEmpty => NoFrame(s.q.pon)
  /\ WakeOn(s.link) => NoFrame(RequestPacket(s.q).pon)
  /\ FrameOn(s.link) => Expected(s)
  /\ FrameOn(s.link) /\ Head(s.link) = WakeUp => NoFrame(s.q.pon)

\* The two timers run only for a slot that is not over, and within it.
Timed(s) ==
  /\ s.polled => s.len = Window
  /\ s.startTx # None => Live(s) /\ s.start <= s.startTx /\ s.startTx < End(s)
  /\ s.report # None => Live(s) /\ s.report = End(s) - RepLead
  /\ Live(s) /\ s.startTx = None => s.start <= 0
  /\ Linked(s)

LEMMA Shapes ==
  ASSUME NEW link \in Links
  PROVE  \/ link = <<>> \/ link = <<WakeUp>>
         \/ \E f \in HostFrame : link = <<f>> \/ link = <<WakeUp, f>> \/ link = <<f, WakeUp>>
BY DEF Links

LEMMA OnLink ==
  /\ ~ WakeOn(<<>>) /\ ~ FrameOn(<<>>)
  /\ \A a : (WakeOn(<<a>>) <=> a = WakeUp) /\ (FrameOn(<<a>>) <=> a # WakeUp)
  /\ \A a, b : /\ WakeOn(<<a, b>>) <=> a = WakeUp \/ b = WakeUp
               /\ FrameOn(<<a, b>>) <=> a # WakeUp \/ b # WakeUp
  /\ \A f \in HostFrame : f # WakeUp
<1>1. ~ WakeOn(<<>>) /\ ~ FrameOn(<<>>)
  BY DEF WakeOn, FrameOn
<1>2. ASSUME NEW a
      PROVE  (WakeOn(<<a>>) <=> a = WakeUp) /\ (FrameOn(<<a>>) <=> a # WakeUp)
  <2>1. DOMAIN <<a>> = {1} /\ <<a>>[1] = a
    OBVIOUS
  <2> QED BY <2>1 DEF WakeOn, FrameOn
<1>3. ASSUME NEW a, NEW b
      PROVE  /\ WakeOn(<<a, b>>) <=> a = WakeUp \/ b = WakeUp
             /\ FrameOn(<<a, b>>) <=> a # WakeUp \/ b # WakeUp
  <2>1. DOMAIN <<a, b>> = {1, 2} /\ <<a, b>>[1] = a /\ <<a, b>>[2] = b
    OBVIOUS
  <2> QED BY <2>1 DEF WakeOn, FrameOn
<1>4. ASSUME NEW f \in HostFrame PROVE f # WakeUp
  <2>1. f \in [air : Nat, data : BOOLEAN]
    BY PonParameters DEF HostFrame
  <2> QED BY <2>1, PollingOnuParameters
<1> QED BY <1>1, <1>2, <1>3, <1>4

\* What is delivered, and what is left.
LEMMA TakenFacts ==
  ASSUME NEW link \in Links, link # <<>>
  PROVE  /\ Head(link) \in HostFrame \union {WakeUp} /\ Tail(link) \in Links
         /\ Head(link) = WakeUp => /\ WakeOn(link) /\ ~ WakeOn(Tail(link))
                                   /\ FrameOn(Tail(link)) <=> FrameOn(link)
         /\ Head(link) # WakeUp => /\ FrameOn(link) /\ ~ FrameOn(Tail(link))
                                   /\ WakeOn(Tail(link)) <=> WakeOn(link)
         /\ FrameOn(Tail(link)) => Head(Tail(link)) # WakeUp
<1>1. CASE link = <<WakeUp>>
  <2>1. Head(link) = WakeUp /\ Tail(link) = <<>>
    BY <1>1
  <2> QED BY <1>1, <2>1, OnLink DEF Links
<1>2. CASE \E f \in HostFrame : link = <<f>>
  <2>1. PICK f \in HostFrame : link = <<f>>
    BY <1>2
  <2>2. Head(link) = f /\ Tail(link) = <<>>
    BY <2>1
  <2> QED BY <2>1, <2>2, OnLink DEF Links
<1>3. CASE \E f \in HostFrame : link = <<WakeUp, f>>
  <2>1. PICK f \in HostFrame : link = <<WakeUp, f>>
    BY <1>3
  <2>2. Head(link) = WakeUp /\ Tail(link) = <<f>> /\ Head(<<f>>) = f
    BY <2>1
  <2> QED BY <2>1, <2>2, OnLink DEF Links
<1>4. CASE \E f \in HostFrame : link = <<f, WakeUp>>
  <2>1. PICK f \in HostFrame : link = <<f, WakeUp>>
    BY <1>4
  <2>2. Head(link) = f /\ Tail(link) = <<WakeUp>>
    BY <2>1
  <2> QED BY <2>1, <2>2, OnLink DEF Links
<1> QED BY <1>1, <1>2, <1>3, <1>4, Shapes

\* What is sent after what is on its way.
LEMMA JoinedFacts ==
  ASSUME NEW link \in Links
  PROVE  /\ link \in Seq(HostFrame \union {WakeUp}) /\ link \o <<>> = link
         /\ ~ WakeOn(link) =>
              /\ link \o <<WakeUp>> \in Links
              /\ FrameOn(link \o <<WakeUp>>) <=> FrameOn(link)
              /\ FrameOn(link) => Head(link \o <<WakeUp>>) # WakeUp
         /\ ~ FrameOn(link) =>
              \A f \in HostFrame : /\ link \o <<f>> \in Links /\ FrameOn(link \o <<f>>)
                                   /\ WakeOn(link \o <<f>>) <=> WakeOn(link)
                                   /\ Head(link \o <<f>>) = WakeUp => WakeOn(link)
<1>1. link \in Seq(HostFrame \union {WakeUp}) /\ link \o <<>> = link
  <2> DEFINE M == HostFrame \union {WakeUp}
  <2>1. WakeUp \in M /\ \A f \in HostFrame : f \in M
    OBVIOUS
  <2> HIDE DEF M
  <2>2. /\ <<>> \in Seq(M) /\ <<WakeUp>> \in Seq(M)
        /\ \A f \in HostFrame : <<f>> \in Seq(M) /\ <<WakeUp, f>> \in Seq(M) /\ <<f, WakeUp>> \in Seq(M)
    BY <2>1
  <2>3. link \in Seq(M)
    BY <2>2, Shapes
  <2> QED BY <2>3, ConcatEmptySeq DEF M
<1>2. ASSUME ~ WakeOn(link)
      PROVE  /\ link \o <<WakeUp>> \in Links
             /\ FrameOn(link \o <<WakeUp>>) <=> FrameOn(link)
             /\ FrameOn(link) => Head(link \o <<WakeUp>>) # WakeUp
  <2>1. CASE link = <<>>
    <3>1. link \o <<WakeUp>> = <<WakeUp>>
      <4>1. <<WakeUp>> \in Seq({WakeUp})
        OBVIOUS
      <4> QED BY <2>1, <4>1, ConcatEmptySeq
    <3> QED BY <2>1, <3>1, OnLink DEF Links
  <2>2. CASE link # <<>>
    <3>1. PICK f \in HostFrame : link = <<f>>
      BY <1>2, <2>2, Shapes, OnLink
    <3>2. link \o <<WakeUp>> = <<f, WakeUp>> /\ Head(<<f, WakeUp>>) = f
      BY <3>1, TwoOf
    <3> QED BY <3>1, <3>2, OnLink DEF Links
  <2> QED BY <2>1, <2>2
<1>3. ASSUME ~ FrameOn(link), NEW f \in HostFrame
      PROVE  /\ link \o <<f>> \in Links /\ FrameOn(link \o <<f>>)
             /\ WakeOn(link \o <<f>>) <=> WakeOn(link)
             /\ Head(link \o <<f>>) = WakeUp => WakeOn(link)
  <2>1. CASE link = <<>>
    <3>1. link \o <<f>> = <<f>> /\ Head(<<f>>) = f
      <4>1. <<f>> \in Seq({f})
        OBVIOUS
      <4> QED BY <2>1, <4>1, ConcatEmptySeq
    <3> QED BY <2>1, <3>1, OnLink DEF Links
  <2>2. CASE link # <<>>
    <3>1. link = <<WakeUp>>
      BY <1>3, <2>2, Shapes, OnLink
    <3>2. link \o <<f>> = <<WakeUp, f>>
      BY <3>1, TwoOf
    <3> QED BY <3>1, <3>2, OnLink DEF Links
  <2> QED BY <2>1, <2>2
<1> QED BY <1>1, <1>2, <1>3

\* What is on the link stays what it was, with queues as they were.
LEMMA LinkedKept ==
  ASSUME NEW s, NEW t, Linked(s), t.q = s.q, t.link = s.link, FrameOn(s.link) => Expected(t)
  PROVE  Linked(t)
BY DEF Linked

\* When startTxOnPON runs next, as far as its timer is concerned.
At(s) == IF s.startTx = None THEN 0 ELSE s.startTx

LEMMA OnuTyped ==
  ASSUME NEW s \in Onus
  PROVE  /\ s.polled \in BOOLEAN /\ s.start \in Int /\ s.len \in {0, Window} /\ s.len \in Nat
         /\ s.startTx = None \/ s.startTx \in Nat
         /\ s.report = None \/ s.report \in Nat
         /\ s.tmp \in Seq(HostFrame) /\ s.link \in Links /\ s.mac \in Macs /\ s.error = FALSE
         /\ s.q \in Queues /\ At(s) \in Nat /\ End(s) \in Int
<1>1. /\ s.polled \in BOOLEAN /\ s.start \in Int /\ s.len \in {0, Window}
      /\ s.startTx \in Timer /\ s.report \in Timer
      /\ s.tmp \in Seq(HostFrame) /\ s.link \in Links /\ s.mac \in Macs /\ s.error = FALSE
      /\ s.q \in Queues
  BY DEF Onus
<1>2. s.len \in Nat
  BY <1>1, Parameters
<1>3. s.startTx = None \/ s.startTx \in Nat
  BY <1>1 DEF Timer
<1>4. s.report = None \/ s.report \in Nat
  BY <1>1 DEF Timer
<1>5. At(s) \in Nat
  BY <1>3 DEF At
<1>6. End(s) \in Int
  BY <1>1, <1>2 DEF End
<1> QED BY <1>1, <1>2, <1>3, <1>4, <1>5, <1>6

\* Registers of an ONU whose slot is not over.
LEMMA LiveFacts ==
  ASSUME NEW s \in Onus, Timed(s), Live(s)
  PROVE  /\ End(s) = s.start + Window /\ s.len = Window /\ s.polled
         /\ s.start <= At(s) /\ At(s) < End(s)
         /\ At(s) - s.start \in 0 .. Window - 1
<1>1. s.len = Window /\ s.polled /\ End(s) > 0
  BY DEF Timed, Live
<1>2. End(s) = s.start + Window
  BY <1>1 DEF End
<1>3. s.start <= At(s) /\ At(s) < End(s)
  <2>1. CASE s.startTx = None
    BY <1>1, <2>1 DEF At, Timed
  <2>2. CASE s.startTx # None
    BY <2>2 DEF At, Timed
  <2> QED BY <2>1, <2>2
<1>4. At(s) - s.start \in 0 .. Window - 1
  <2>1. \A a, b \in Int : b <= a /\ a < b + Window => a - b \in 0 .. Window - 1
    BY Parameters
  <2>2. At(s) \in Nat /\ s.start \in Int
    BY OnuTyped
  <2>3. At(s) \in Int
    BY <2>2
  <2> QED BY <1>2, <1>3, <2>1, <2>2, <2>3
<1> QED BY <1>1, <1>2, <1>3, <1>4

LEMMA RemainingFacts ==
  ASSUME NEW s \in Onus, End(s) \in 0 .. Period - 1
  PROVE  Remaining(s) = End(s)
BY Around, Parameters DEF Remaining

-----------------------------------------------------------------------------
(* What an event may do to an ONU *)

Same(s, t) == t.polled = s.polled /\ t.start = s.start /\ t.len = s.len

\* In the slot, with a transmitter that has at most one frame; startTxMsg is
\* still to come only if that frame is the REPORT.
Sending(s) ==
  /\ Live(s) /\ s.start <= 0 /\ MacBacklog(s.mac) = 0
  /\ At(s) = 0 \/ ReportLast(s.mac)

Stays(s, t) == t.mac = s.mac /\ At(s) <= At(t)
Reports(s, t) == Sending(s) /\ t.mac = MacSend(s.mac, Report) /\ At(t) = At(s)
Transmits(s, t) ==
  /\ Sending(s) /\ At(s) = 0
  /\ \E f \in HostFrame : /\ t.mac = MacSend(s.mac, f) /\ t.startTx = Needed(f)
                          /\ RepTime + Needed(f) < End(s)

OnuStep(s, t) ==
  /\ t \in Onus /\ Timed(t) /\ Same(s, t)
  /\ Stays(s, t) \/ Reports(s, t) \/ Transmits(s, t)

\* A step from a state that differs in what a step need not look at.
LEMMA StepFrom ==
  ASSUME NEW s \in Onus, NEW u \in Onus, NEW t,
         Same(s, u), u.mac = s.mac, At(u) = At(s), OnuStep(u, t)
  PROVE  OnuStep(s, t)
<1>1. Same(s, t)
  BY DEF Same, OnuStep
<1>2. End(u) = End(s) /\ u.start = s.start /\ (Live(u) <=> Live(s))
  BY DEF Same, End, Live
<1>3. Stays(u, t) => Stays(s, t)
  BY DEF Stays
<1>4. Sending(u) => Sending(s)
  BY <1>2 DEF Sending
<1>5. Reports(u, t) => Reports(s, t)
  BY <1>4 DEF Reports
<1>6. Transmits(u, t) => Transmits(s, t)
  BY <1>2, <1>4 DEF Transmits
<1> QED BY <1>1, <1>3, <1>5, <1>6 DEF OnuStep

-----------------------------------------------------------------------------
(* startTxOnPON and its callers *)

\* In the slot, with startTxMsg still to come only for a frame that the REPORT
\* has overtaken.
Ready(s) ==
  /\ s \in Onus /\ Timed(s)
  /\ s.polled /\ s.start <= 0 /\ 0 < End(s)
  /\ s.startTx = None \/ (s.tmp # <<>> /\ Overtaken(s))

\* In the slot its end is as far as the registers tell.
LEMMA ReadyFacts ==
  ASSUME NEW s, Ready(s), PollingTimes
  PROVE  /\ Live(s) /\ s.len = Window /\ End(s) \in 1 .. Window
         /\ Remaining(s) = End(s) /\ ~ (s.polled /\ End(s) < 0)
         /\ MacBacklog(s.mac) \in Nat
         /\ s.tmp = <<>> => s.startTx = None
         /\ s.startTx = None => At(s) = 0
         /\ FrameOn(s.link) => s.tmp = <<>> /\ (MacBacklog(s.mac) = 0 \/ Overtaken(s))
<1>1. s \in Onus /\ Timed(s) /\ Live(s) /\ (s.startTx = None => At(s) = 0)
  BY DEF Ready, Live, At
<1>2. End(s) = s.start + Window /\ s.len = Window /\ s.start \in Int /\ s.start <= 0 /\ 0 < End(s)
  BY <1>1, LiveFacts, OnuTyped DEF Ready
<1>3. End(s) \in 1 .. Window
  BY <1>2, Parameters
<1>4. End(s) \in 0 .. Period - 1
  <2>1. Window < Period
    BY Parameters DEF PollingTimes
  <2> QED BY <1>3, <2>1, Parameters
<1>5. MacBacklog(s.mac) \in Nat
  <2>1. s.mac \in Macs
    BY <1>1, OnuTyped
  <2> QED BY <2>1, MacTyped DEF MacBacklog
<1>6. s.tmp = <<>> => s.startTx = None
  BY DEF Ready
<1>7. FrameOn(s.link) => s.tmp = <<>> /\ (MacBacklog(s.mac) = 0 \/ Overtaken(s))
  BY <1>1 DEF Timed, Linked, Expected
<1> QED BY <1>1, <1>2, <1>3, <1>4, <1>5, <1>6, <1>7, RemainingFacts

\* startTxMsg is scheduled to come again, or not.
LEMMA WaitFacts ==
  ASSUME NEW s, Ready(s), PollingTimes, MacBacklog(s.mac) > 0,
         NEW v, v = IF End(s) > Delay THEN Delay ELSE None
  PROVE  OnuStep(s, [s EXCEPT !.startTx = v])
<1>t. PICK t : t = [s EXCEPT !.startTx = v]
  OBVIOUS
<1>0. /\ s \in Onus /\ Timed(s) /\ Linked(s) /\ Live(s) /\ s.start <= 0 /\ s.start \in Int
      /\ End(s) \in Int
  BY ReadyFacts, OnuTyped DEF Ready, Timed
<1>3. (v = None \/ v \in Nat) /\ (v # None => v = Delay /\ v < End(s))
  BY <1>0, Parameters
<1>1. t \in Onus
  BY <1>t, <1>0, <1>3 DEF Onus, Timer
<1>2. /\ t.polled = s.polled /\ t.start = s.start /\ t.len = s.len /\ t.startTx = v
      /\ t.report = s.report /\ t.link = s.link /\ t.mac = s.mac /\ t.q = s.q /\ t.tmp = s.tmp
  BY <1>t, <1>0 DEF Onus
<1>4. End(t) = End(s) /\ Live(t)
  BY <1>0, <1>2 DEF End, Live
<1>5. Timed(t)
  <2>1. v # None => s.start <= v
    BY <1>0, <1>3
  <2>2. ASSUME FrameOn(s.link)
        PROVE  Expected(t)
    <3>1. s.tmp = <<>> /\ Overtaken(s)
      BY <2>2, ReadyFacts
    <3>2. Overtaken(t)
      BY <1>2, <1>3, <1>4, <3>1 DEF Overtaken
    <3> QED BY <1>0, <1>2, <1>4, <3>1, <3>2 DEF Expected
  <2>3. Linked(t)
    BY <1>0, <1>2, <2>2, LinkedKept
  <2> QED BY <1>0, <1>2, <1>4, <2>1, <2>3 DEF Timed
<1>6. At(s) <= At(t)
  <2>1. At(t) \in Nat
    BY <1>1, OnuTyped
  <2>2. CASE s.startTx = None
    BY <2>1, <2>2, ReadyFacts
  <2>3. CASE s.startTx # None
    <3>1. Overtaken(s)
      BY <2>3 DEF Ready
    <3>2. s.startTx = Delay /\ v = Delay
      <4>1. s.startTx = Delay /\ Delay < RepLead /\ End(s) = RepLead
        BY <2>3, <3>1 DEF Overtaken
      <4> QED BY <4>1, Parameters
    <3>3. At(s) = Delay /\ At(t) = Delay
      BY <1>2, <2>3, <3>2 DEF At
    <3> QED BY <3>3, Parameters
  <2> QED BY <2>2, <2>3
<1> QED BY <1>t, <1>1, <1>2, <1>5, <1>6 DEF OnuStep, Same, Stays

\* A request to the queues.
LEMMA AskFacts ==
  ASSUME NEW s, Ready(s), PollingTimes, MacBacklog(s.mac) = 0, s.tmp = <<>>,
         FrameOn(s.link) => NoFrame(s.q.pon)
  PROVE  OnuStep(s, [s EXCEPT !.q = RequestPacket(@), !.link = @ \o PacketFor(s.q)])
<1>q. PICK q : q = RequestPacket(s.q)
  OBVIOUS
<1>l. PICK link : link = s.link \o PacketFor(s.q)
  OBVIOUS
<1>t. PICK t : t = [s EXCEPT !.q = q, !.link = link]
  OBVIOUS
<1>0. s \in Onus /\ Timed(s) /\ Linked(s) /\ s.startTx = None /\ s.link \in Links
      /\ Live(s) /\ s.start <= 0
  BY ReadyFacts, OnuTyped DEF Ready, Timed
<1>1. s.q \in RoundRobins(NumQueues, HostFrame) /\ NumQueues \in Nat \ {0}
      /\ \A i \in 1 .. NumQueues : Len(s.q.pon[i]) <= QueueLimit
  <2>1. s.q \in Queues
    BY <1>0, OnuTyped
  <2> QED BY <2>1, Parameters DEF Queues
<1>2. /\ q \in RoundRobins(NumQueues, HostFrame)
      /\ PacketFor(s.q) = <<>> \/ \E f \in HostFrame : PacketFor(s.q) = <<f>>
      /\ \A i \in 1 .. NumQueues : Len(q.pon[i]) <= Len(s.q.pon[i])
  BY <1>q, <1>1, RequestFacts
<1>r. /\ NoFrame(s.q.pon) => PacketFor(s.q) = <<>> /\ q.pon = s.q.pon
      /\ q.allEmpty => NoFrame(q.pon)
      /\ NoFrame(q.pon) => RequestPacket(q).pon = q.pon
  BY <1>q, <1>1, <1>2, RequestLeaves
<1>3. q \in Queues
  <2>1. \A i \in 1 .. NumQueues : s.q.pon[i] \in Seq(HostFrame) /\ q.pon[i] \in Seq(HostFrame)
    BY <1>1, <1>2 DEF RoundRobins
  <2>2. \A i \in 1 .. NumQueues : Len(s.q.pon[i]) \in Nat /\ Len(q.pon[i]) \in Nat
    BY <2>1, LenProperties
  <2>3. \A a, b, c \in Nat : a <= b /\ b <= c => a <= c
    OBVIOUS
  <2> QED BY <1>1, <1>2, <2>2, <2>3, Parameters DEF Queues
<1>w. WakeOn(s.link) => NoFrame(q.pon)
  BY <1>q, <1>0 DEF Linked
<1>4. /\ link \in Links
      /\ WakeOn(link) => WakeOn(s.link)
      /\ FrameOn(link) /\ Head(link) = WakeUp => NoFrame(q.pon)
  <2>1. CASE PacketFor(s.q) = <<>>
    <3>1. link = s.link
      BY <1>l, <1>0, <2>1, JoinedFacts
    <3> QED BY <1>0, <1>r, <3>1 DEF Linked
  <2>2. CASE PacketFor(s.q) # <<>>
    <3>1. PICK f \in HostFrame : PacketFor(s.q) = <<f>>
      BY <1>2, <2>2
    <3>2. ~ FrameOn(s.link)
      BY <1>r, <2>2
    <3>3. link = s.link \o <<f>>
      BY <1>l, <3>1
    <3> QED BY <1>0, <1>w, <3>2, <3>3, JoinedFacts
  <2> QED BY <2>1, <2>2
<1>5. t \in Onus
  BY <1>t, <1>0, <1>3, <1>4 DEF Onus
<1>6. /\ t.polled = s.polled /\ t.start = s.start /\ t.len = s.len /\ t.startTx = s.startTx
      /\ t.report = s.report /\ t.mac = s.mac /\ t.tmp = s.tmp /\ t.q = q /\ t.link = link
  BY <1>t, <1>0 DEF Onus
<1>7. Timed(t)
  <2>1. Expected(t)
    BY <1>0, <1>6 DEF Expected, Live, End
  <2>2. Linked(t)
    BY <1>r, <1>w, <1>4, <1>6, <2>1 DEF Linked
  <2> QED BY <1>0, <1>6, <2>2 DEF Timed, Live, End
<1>8. At(t) = At(s) /\ At(s) \in Nat
  BY <1>0, <1>6, OnuTyped DEF At
<1>9. OnuStep(s, t)
  BY <1>5, <1>6, <1>7, <1>8 DEF OnuStep, Same, Stays
<1> QED BY <1>q, <1>l, <1>t, <1>9

\* The REPORT is handed to the transmitter, and is not scheduled any more.
LEMMA ReportFacts ==
  ASSUME NEW s, Ready(s), PollingTimes, MacBacklog(s.mac) = 0,
         FrameOn(s.link) => End(s) = RepLead
  PROVE  OnuStep(s, [s EXCEPT !.mac = MacSend(@, Report), !.report = None])
<1>m. PICK mac : mac = MacSend(s.mac, Report)
  OBVIOUS
<1>t. PICK t : t = [s EXCEPT !.mac = mac, !.report = None]
  OBVIOUS
<1>0. s \in Onus /\ Timed(s) /\ Linked(s) /\ Live(s) /\ s.start <= 0 /\ s.mac \in Macs
  BY ReadyFacts, OnuTyped DEF Ready, Timed
<1>1. mac \in Macs /\ Last(mac.queue) = Report
  BY <1>m, <1>0, MacSendFacts, FrameFacts
<1>2. t \in Onus
  BY <1>t, <1>0, <1>1 DEF Onus, Timer
<1>3. /\ t.polled = s.polled /\ t.start = s.start /\ t.len = s.len /\ t.startTx = s.startTx
      /\ t.report = None /\ t.mac = mac /\ t.link = s.link /\ t.q = s.q /\ t.tmp = s.tmp
  BY <1>t, <1>0 DEF Onus
<1>4. Timed(t)
  <2>1. ASSUME FrameOn(s.link)
        PROVE  Expected(t)
    <3>1. s.tmp = <<>> /\ s.startTx = None /\ End(s) = RepLead
      BY <2>1, ReadyFacts
    <3> QED BY <1>0, <1>1, <1>3, <3>1 DEF Expected, Overtaken, ReportLast, Live, End
  <2>2. Linked(t)
    BY <1>0, <1>3, <2>1, LinkedKept
  <2> QED BY <1>0, <1>3, <2>2 DEF Timed, Live, End
<1>5. Reports(s, t)
  <2>1. At(s) = 0 \/ ReportLast(s.mac)
    BY ReadyFacts DEF Ready, Overtaken
  <2> QED BY <1>m, <1>0, <1>3, <2>1 DEF Reports, Sending, At
<1>6. OnuStep(s, t)
  BY <1>2, <1>3, <1>4, <1>5 DEF OnuStep, Same
<1> QED BY <1>m, <1>t, <1>6

\* A frame is handed to the transmitter when it and the REPORT still fit.
LEMMA SendFrameFacts ==
  ASSUME NEW s, Ready(s), PollingTimes, MacBacklog(s.mac) = 0, s.tmp # <<>>,
         ~ (RepTime + Needed(Head(s.tmp)) >= Remaining(s))
  PROVE  OnuStep(s, SendFrame(s))
<1>f. PICK f : f = Head(s.tmp)
  OBVIOUS
<1>m. PICK mac : mac = MacSend(s.mac, f)
  OBVIOUS
<1>p. PICK tmp : tmp = Tail(s.tmp)
  OBVIOUS
<1>v. PICK v : v = Needed(f)
  OBVIOUS
<1>t. PICK t : t = [s EXCEPT !.tmp = tmp, !.mac = mac, !.startTx = v]
  OBVIOUS
<1>0. /\ s \in Onus /\ Timed(s) /\ Linked(s) /\ Live(s) /\ s.start <= 0
      /\ ~ FrameOn(s.link) /\ s.mac \in Macs /\ s.tmp \in Seq(HostFrame)
      /\ Remaining(s) = End(s) /\ End(s) \in Int /\ s.start \in Int
  BY ReadyFacts, OnuTyped DEF Ready, Timed
<1>1. f \in HostFrame /\ f \in Frame /\ tmp \in Seq(HostFrame)
  BY <1>f, <1>p, <1>0, TailFacts, FrameFacts
<1>2. v \in Nat /\ RepTime + v < End(s)
  <2>1. v \in Nat
    BY <1>v, <1>1, FrameFacts
  <2> QED BY <1>f, <1>v, <1>0, <2>1, Parameters
<1>s. s.startTx = None /\ At(s) = 0
  <2>1. ~ Overtaken(s)
    <3>1. v >= Ifg
      BY <1>v, <1>1, FrameFacts, Parameters
    <3>2. RepLead <= RepTime + Ifg
      BY DEF PollingTimes
    <3> QED BY <1>0, <1>2, <3>1, <3>2, Parameters DEF Overtaken
  <2> QED BY <2>1, ReadyFacts DEF Ready
<1>3. mac \in Macs
  BY <1>m, <1>0, <1>1, MacSendFacts
<1>4. t \in Onus
  BY <1>t, <1>0, <1>1, <1>2, <1>3 DEF Onus, Timer
<1>5. /\ t.polled = s.polled /\ t.start = s.start /\ t.len = s.len /\ t.startTx = v
      /\ t.report = s.report /\ t.mac = mac /\ t.link = s.link /\ t.q = s.q
  BY <1>t, <1>0 DEF Onus
<1>6. End(t) = End(s) /\ Live(t) /\ v # None /\ s.start <= v /\ v < End(s)
  BY <1>0, <1>2, <1>5, Parameters DEF End, Live
<1>7. Timed(t)
  <2>1. Linked(t)
    BY <1>0, <1>5, LinkedKept
  <2> QED BY <1>0, <1>5, <1>6, <2>1 DEF Timed
<1>8. Transmits(s, t)
  <2>1. Sending(s)
    BY <1>0, <1>s DEF Sending
  <2> QED BY <1>m, <1>v, <1>s, <1>1, <1>2, <1>5, <2>1 DEF Transmits
<1>9. OnuStep(s, t)
  BY <1>4, <1>5, <1>7, <1>8 DEF OnuStep, Same
<1>10. SendFrame(s) = t
  BY <1>f, <1>m, <1>p, <1>v, <1>t, <1>0 DEF SendFrame, Onus
<1> QED BY <1>9, <1>10

(***************************************************************************)
(* startTxOnPON waits for the transmitter, asks for a frame, or hands over *)
(* a frame or the REPORT.                                                  *)
(***************************************************************************)
LEMMA StartTxFacts ==
  ASSUME NEW s, Ready(s), PollingTimes, FrameOn(s.link) => NoFrame(s.q.pon)
  PROVE  OnuStep(s, StartTxOnPON(s))
<1>1. /\ ~ (s.polled /\ End(s) < 0) /\ Remaining(s) = End(s) /\ End(s) \in 1 .. Window
      /\ MacBacklog(s.mac) \in Nat /\ s \in Onus
  BY ReadyFacts DEF Ready
<1>2. CASE MacBacklog(s.mac) > 0
  <2>v. PICK v : v = IF Remaining(s) > Delay THEN Delay ELSE None
    OBVIOUS
  <2>1. StartTxOnPON(s) = [s EXCEPT !.startTx = v]
    BY <1>1, <1>2, <2>v DEF StartTxOnPON
  <2> QED BY <1>1, <1>2, <2>v, <2>1, WaitFacts
<1>3. CASE ~ (MacBacklog(s.mac) > 0) /\ s.tmp = <<>>
  <2>1. StartTxOnPON(s) = [s EXCEPT !.q = RequestPacket(@), !.link = @ \o PacketFor(s.q)]
    BY <1>1, <1>3 DEF StartTxOnPON
  <2>2. MacBacklog(s.mac) = 0
    BY <1>1, <1>3
  <2> QED BY <1>3, <2>1, <2>2, AskFacts
<1>4. CASE /\ ~ (MacBacklog(s.mac) > 0) /\ s.tmp # <<>>
           /\ RepTime + Needed(Head(s.tmp)) >= Remaining(s)
  <2>1. StartTxOnPON(s) = [SendReportFrame(s) EXCEPT !.report = None]
    BY <1>1, <1>4 DEF StartTxOnPON
  <2>2. [SendReportFrame(s) EXCEPT !.report = None] = [s EXCEPT !.mac = MacSend(@, Report), !.report = None]
    BY <1>1 DEF SendReportFrame, Onus
  <2>3. MacBacklog(s.mac) = 0 /\ ~ FrameOn(s.link)
    BY <1>1, <1>4, ReadyFacts
  <2> QED BY <2>1, <2>2, <2>3, ReportFacts
<1>5. CASE /\ ~ (MacBacklog(s.mac) > 0) /\ s.tmp # <<>>
           /\ ~ (RepTime + Needed(Head(s.tmp)) >= Remaining(s))
  <2>1. StartTxOnPON(s) = SendFrame(s)
    BY <1>1, <1>5 DEF StartTxOnPON
  <2>2. MacBacklog(s.mac) = 0
    BY <1>1, <1>5
  <2> QED BY <1>5, <2>1, <2>2, SendFrameFacts
<1> QED BY <1>2, <1>3, <1>4, <1>5

\* startTxMsg fires.
LEMMA StartTxFiresFacts ==
  ASSUME NEW s \in Onus, Timed(s), s.startTx = 0, PollingTimes
  PROVE  OnuStep(s, StartTxFires(s))
<1>u. PICK u : u = [s EXCEPT !.startTx = None]
  OBVIOUS
<1>0. Live(s) /\ s.start <= 0 /\ 0 < End(s) /\ s.polled /\ 0 # None /\ Linked(s)
  BY Parameters DEF Timed, Live
<1>f. ~ FrameOn(s.link)
  BY <1>0, Parameters DEF Linked, Expected, Overtaken
<1>1. u \in Onus
  BY <1>u DEF Onus, Timer
<1>2. /\ Same(s, u) /\ u.mac = s.mac /\ u.startTx = None /\ u.link = s.link /\ u.report = s.report
      /\ u.polled = s.polled /\ u.start = s.start /\ u.len = s.len /\ u.q = s.q
  BY <1>u DEF Onus, Same
<1>3. At(u) = At(s)
  BY <1>2 DEF At
<1>4. Timed(u) /\ End(u) = End(s)
  <2>1. Linked(u)
    BY <1>0, <1>f, <1>2, LinkedKept
  <2> QED BY <1>0, <1>2, <2>1 DEF Timed, Live, End
<1>5. Ready(u)
  BY <1>0, <1>1, <1>2, <1>4 DEF Ready
<1>6. OnuStep(u, StartTxOnPON(u))
  BY <1>f, <1>2, <1>5, StartTxFacts
<1>7. OnuStep(s, StartTxOnPON(u))
  BY <1>1, <1>2, <1>3, <1>6, StepFrom
<1> QED BY <1>u, <1>7 DEF StartTxFires

WithFrame(s, f) == [s EXCEPT !.tmp = <<f>>]

\* A message from the queues is ignored, or startTxOnPON runs: for a WAKE UP in
\* the slot, and for every frame, which waits alone in tmp_queue.
LEMMA DeliveredReady ==
  ASSUME NEW s \in Onus, Timed(s), s.link # <<>>, NEW m, m = Head(s.link),
         NEW u, u = [s EXCEPT !.link = Tail(@)]
  PROVE  /\ u \in Onus /\ Timed(u) /\ Same(s, u) /\ At(u) = At(s) /\ At(s) \in Nat
         /\ u.mac = s.mac /\ u.startTx = s.startTx /\ u.link = Tail(s.link)
         /\ u.report = s.report /\ u.tmp = s.tmp /\ u.q = s.q
         /\ FrameOn(u.link) => NoFrame(u.q.pon) \/ FromHigherLayer(u, m) = u
         /\ \/ m = WakeUp /\ FromHigherLayer(u, m) = u
            \/ m = WakeUp /\ FromHigherLayer(u, m) = StartTxOnPON(u) /\ Ready(u) /\ s.startTx = None
            \/ /\ m \in HostFrame /\ Expected(s) /\ ~ FrameOn(u.link)
               /\ FromHigherLayer(u, m) = StartTxOnPON(WithFrame(u, m)) /\ Ready(WithFrame(u, m))
<1>l. PICK link : link = Tail(s.link)
  OBVIOUS
<1>0. s.link \in Links /\ Linked(s) /\ s.start \in Int
  BY OnuTyped DEF Timed
<1>1. /\ m \in HostFrame \union {WakeUp} /\ link \in Links
      /\ m = WakeUp => WakeOn(s.link) /\ ~ WakeOn(link) /\ (FrameOn(link) <=> FrameOn(s.link))
      /\ m # WakeUp => FrameOn(s.link) /\ ~ FrameOn(link) /\ (WakeOn(link) <=> WakeOn(s.link))
      /\ FrameOn(link) => Head(link) # WakeUp
  BY <1>l, <1>0, TakenFacts
<1>2. u \in Onus
  BY <1>l, <1>1 DEF Onus
<1>3. /\ Same(s, u) /\ u.mac = s.mac /\ u.startTx = s.startTx /\ u.link = link /\ u.report = s.report
      /\ u.polled = s.polled /\ u.start = s.start /\ u.len = s.len /\ u.tmp = s.tmp /\ u.q = s.q
  BY <1>l DEF Onus, Same
<1>4. At(u) = At(s) /\ At(s) \in Nat
  BY <1>3, OnuTyped DEF At
<1>5. Timed(u)
  <2>1. FrameOn(link) => FrameOn(s.link)
    BY <1>1
  <2>2. Expected(s) => Expected(u)
    BY <1>3 DEF Expected, Overtaken, Live, End
  <2>3. Linked(u)
    BY <1>0, <1>1, <1>3, <2>1, <2>2 DEF Linked
  <2> QED BY <1>3, <2>3 DEF Timed, Live, End
<1>6. FrameOn(u.link) => m = WakeUp /\ NoFrame(u.q.pon)
  BY <1>0, <1>1, <1>3 DEF Linked
<1>7. CASE m = WakeUp
  <2>1. CASE u.polled /\ u.startTx = None
    <3>1. FromHigherLayer(u, m) = IF InSlot(u) THEN StartTxOnPON(u) ELSE u
      BY <1>7, <2>1 DEF FromHigherLayer
    <3>2. InSlot(u) => u.start <= 0 /\ 0 < End(u)
      BY <1>0, <1>3 DEF InSlot
    <3>3. InSlot(u) => Ready(u)
      BY <1>2, <1>5, <2>1, <3>2 DEF Ready
    <3> QED BY <1>2, <1>3, <1>4, <1>5, <1>6, <1>7, <1>l, <2>1, <3>1, <3>3
  <2>2. CASE ~ (u.polled /\ u.startTx = None)
    <3>1. FromHigherLayer(u, m) = u
      BY <1>7, <2>2 DEF FromHigherLayer
    <3> QED BY <1>2, <1>3, <1>4, <1>5, <1>6, <1>7, <1>l, <3>1
  <2> QED BY <2>1, <2>2
<1>8. CASE m # WakeUp
  <2>n. PICK new : new = [u EXCEPT !.tmp = <<m>>]
    OBVIOUS
  <2>0. m \in HostFrame /\ Expected(s) /\ ~ FrameOn(link)
    BY <1>0, <1>1, <1>8 DEF Linked
  <2>1. new \in Onus
    <3>1. <<m>> \in Seq(HostFrame)
      BY <2>0
    <3> QED BY <1>2, <2>n, <3>1 DEF Onus
  <2>2. /\ new.mac = s.mac /\ new.startTx = s.startTx /\ new.link = link /\ new.report = s.report
        /\ new.polled = s.polled /\ new.start = s.start /\ new.len = s.len /\ new.tmp = <<m>>
        /\ new.q = s.q
    BY <1>2, <1>3, <2>n DEF Onus
  <2>4. Timed(new)
    <3>1. Linked(new)
      BY <1>3, <1>5, <2>0, <2>2, LinkedKept DEF Timed
    <3> QED BY <1>5, <1>3, <2>2, <3>1 DEF Timed, Live, End
  <2>5. Live(s) /\ s.start <= 0 /\ s.tmp = <<>> /\ (s.startTx = None \/ Overtaken(s))
    BY <2>0 DEF Expected
  <2>6. Ready(new)
    <3>1. new.polled /\ new.start <= 0 /\ 0 < End(new)
      BY <2>2, <2>5 DEF Live, End
    <3>2. s.startTx = None \/ Overtaken(new)
      BY <2>2, <2>5 DEF Overtaken, End
    <3>3. <<m>> # <<>>
      OBVIOUS
    <3> QED BY <2>1, <2>2, <2>4, <3>1, <3>2, <3>3 DEF Ready
  <2>7. FromHigherLayer(u, m) = StartTxOnPON(new)
    <3>1. Append(u.tmp, m) = <<m>>
      <4>1. u.tmp = <<>>
        BY <1>3, <2>5
      <4>2. Append(<<>>, m) = <<m>>
        OBVIOUS
      <4> QED BY <4>1, <4>2
    <3>2. [u EXCEPT !.tmp = Append(@, m)] = new
      BY <2>n, <3>1
    <3>3. InSlot(new)
      BY <1>0, <2>2, <2>6 DEF InSlot, Ready
    <3>4. u.polled
      BY <1>3, <2>5 DEF Live
    <3> QED BY <1>8, <3>2, <3>3, <3>4 DEF FromHigherLayer
  <2> QED BY <1>2, <1>3, <1>4, <1>5, <1>l, <2>n, <2>0, <2>6, <2>7 DEF WithFrame
<1> QED BY <1>7, <1>8

\* A message from the queues: a frame waits in tmp_queue; in the slot, transmit.
LEMMA DeliveredFacts ==
  ASSUME NEW s \in Onus, Timed(s), s.link # <<>>, PollingTimes
  PROVE  OnuStep(s, FromHigherLayer([s EXCEPT !.link = Tail(@)], Head(s.link)))
<1>m. PICK m : m = Head(s.link)
  OBVIOUS
<1>u. PICK u : u = [s EXCEPT !.link = Tail(@)]
  OBVIOUS
<1>1. /\ u \in Onus /\ Timed(u) /\ Same(s, u) /\ At(u) = At(s) /\ At(s) \in Nat /\ u.mac = s.mac
      /\ FrameOn(u.link) => NoFrame(u.q.pon) \/ FromHigherLayer(u, m) = u
  BY <1>m, <1>u, DeliveredReady
<1>2. CASE FromHigherLayer(u, m) = u
  <2>1. OnuStep(s, u)
    BY <1>1 DEF OnuStep, Stays
  <2> QED BY <1>m, <1>u, <1>2, <2>1
<1>3. CASE FromHigherLayer(u, m) # u /\ FromHigherLayer(u, m) = StartTxOnPON(u) /\ Ready(u)
  <2>1. OnuStep(s, StartTxOnPON(u))
    BY <1>1, <1>3, StartTxFacts, StepFrom
  <2> QED BY <1>m, <1>u, <1>3, <2>1
<1>4. CASE /\ ~ FrameOn(u.link)
           /\ FromHigherLayer(u, m) = StartTxOnPON(WithFrame(u, m)) /\ Ready(WithFrame(u, m))
  <2>n. PICK new : new = WithFrame(u, m)
    OBVIOUS
  <2>1. /\ new \in Onus /\ new.mac = u.mac /\ new.link = u.link /\ new.startTx = u.startTx
        /\ new.polled = u.polled /\ new.start = u.start /\ new.len = u.len
    <3>1. new \in Onus
      BY <1>4, <2>n DEF Ready
    <3> QED BY <1>1, <2>n, <3>1 DEF WithFrame, Onus
  <2>2. Same(s, new) /\ At(new) = At(s) /\ new.mac = s.mac
    BY <1>1, <2>1 DEF Same, At
  <2>3. OnuStep(s, StartTxOnPON(new))
    BY <1>4, <2>n, <2>1, <2>2, StartTxFacts, StepFrom
  <2> QED BY <1>m, <1>u, <1>4, <2>n, <2>3
<1> QED BY <1>m, <1>u, <1>2, <1>3, <1>4, DeliveredReady

\* A frame from a host.
LEMMA EnqueuedFacts ==
  ASSUME NEW s \in Onus, Timed(s), ~ WakeOn(s.link), NEW i \in 1 .. NumQueues, NEW f \in HostFrame
  PROVE  OnuStep(s, [s EXCEPT !.q = EnqueueFrame(@, i, f), !.link = @ \o WakeUpFor(s.q)])
<1>q. PICK q : q = EnqueueFrame(s.q, i, f)
  OBVIOUS
<1>l. PICK link : link = s.link \o WakeUpFor(s.q)
  OBVIOUS
<1>t. PICK t : t = [s EXCEPT !.q = q, !.link = link]
  OBVIOUS
<1>1. q \in Queues /\ ~ q.allEmpty /\ (NoFrame(s.q.pon) => NoFrame(RequestPacket(q).pon))
  <2>p. PICK pon : pon = [s.q.pon EXCEPT ![i] = IF Len(@) >= QueueLimit THEN @ ELSE Append(@, f)]
    OBVIOUS
  <2>1. s.q \in Queues
    BY OnuTyped
  <2>2. /\ s.q \in [pon : [1 .. NumQueues -> Seq(HostFrame)], next : 1 .. NumQueues, allEmpty : BOOLEAN]
        /\ \A j \in 1 .. NumQueues : Len(s.q.pon[j]) <= QueueLimit
    BY <2>1 DEF Queues, RoundRobins
  <2>3. q = [s.q EXCEPT !.allEmpty = FALSE, !.pon = pon]
    BY <1>q, <2>p, <2>2 DEF EnqueueFrame
  <2>4. s.q.pon[i] \in Seq(HostFrame) /\ s.q.pon \in [1 .. NumQueues -> Seq(HostFrame)]
    BY <2>2
  <2>s. PICK new : new = IF Len(s.q.pon[i]) >= QueueLimit THEN s.q.pon[i] ELSE Append(s.q.pon[i], f)
    OBVIOUS
  <2>5. new \in Seq(HostFrame) /\ Len(new) <= QueueLimit
    <3>1. Len(s.q.pon[i]) \in Nat /\ Len(s.q.pon[i]) <= QueueLimit
      BY <2>2, <2>4, LenProperties
    <3>2. Append(s.q.pon[i], f) \in Seq(HostFrame) /\ Len(Append(s.q.pon[i], f)) = Len(s.q.pon[i]) + 1
      BY <2>4, AppendProperties
    <3>3. CASE Len(s.q.pon[i]) >= QueueLimit
      BY <2>s, <2>4, <3>1, <3>3
    <3>4. CASE ~ (Len(s.q.pon[i]) >= QueueLimit)
      BY <2>s, <3>1, <3>2, <3>4, Parameters
    <3> QED BY <3>3, <3>4
  <2>6. pon = [s.q.pon EXCEPT ![i] = new]
    BY <2>p, <2>s
  <2>7. pon \in [1 .. NumQueues -> Seq(HostFrame)] /\ \A j \in 1 .. NumQueues : Len(pon[j]) <= QueueLimit
    BY <2>2, <2>4, <2>5, <2>6
  <2>8. /\ q \in [pon : [1 .. NumQueues -> Seq(HostFrame)], next : 1 .. NumQueues, allEmpty : BOOLEAN]
        /\ q.pon = pon /\ ~ q.allEmpty
    BY <2>2, <2>3, <2>7
  <2>9. q \in RoundRobins(NumQueues, HostFrame)
    BY <2>8 DEF RoundRobins
  <2>10. ASSUME NoFrame(s.q.pon)
         PROVE  NoFrame(RequestPacket(q).pon)
    <3>1. Len(s.q.pon) = NumQueues
      BY <2>2, Parameters, LenProperties
    <3>2. \A j \in 1 .. NumQueues : s.q.pon[j] = <<>>
      BY <2>10, <3>1 DEF NoFrame
    <3>3. \A j \in 1 .. NumQueues : j # i => q.pon[j] = <<>>
      BY <2>2, <2>6, <2>8, <3>2
    <3>4. q.pon[i] = new
      BY <2>2, <2>6, <2>8
    <3>5. Len(<<>>) = 0 /\ Len(Append(s.q.pon[i], f)) = 0 + 1
      BY <2>4, <3>2, EmptySeq, AppendProperties
    <3>6. Len(new) <= 1
      BY <2>s, <3>2, <3>5
    <3>7. Len(q.pon[i]) <= 1 /\ NumQueues \in Nat \ {0}
      BY <3>4, <3>6, Parameters
    <3> QED BY <2>9, <3>3, <3>7, OneFrameLeft
  <2> QED BY <2>7, <2>8, <2>9, <2>10 DEF Queues
<1>0. s.link \in Links /\ Linked(s)
  BY OnuTyped DEF Timed
<1>2. /\ link \in Links
      /\ FrameOn(link) => FrameOn(s.link) /\ Head(link) # WakeUp
      /\ WakeOn(link) => NoFrame(s.q.pon)
  <2>1. CASE s.q.allEmpty
    <3>1. link = s.link \o <<WakeUp>>
      BY <1>l, <2>1 DEF WakeUpFor
    <3>2. NoFrame(s.q.pon)
      BY <1>0, <2>1 DEF Linked
    <3> QED BY <1>0, <3>1, <3>2, JoinedFacts
  <2>2. CASE ~ s.q.allEmpty
    <3>1. link = s.link \o <<>>
      BY <1>l, <2>2 DEF WakeUpFor
    <3>2. link = s.link
      BY <1>0, <3>1, JoinedFacts
    <3>3. FrameOn(link) => Head(link) # WakeUp
      BY <1>0, <3>2, TakenFacts, OnLink
    <3> QED BY <1>0, <3>2, <3>3
  <2> QED BY <2>1, <2>2
<1>3. link \in Links
  BY <1>2
<1>4. t \in Onus
  BY <1>t, <1>1, <1>3 DEF Onus
<1>5. /\ t.polled = s.polled /\ t.start = s.start /\ t.len = s.len /\ t.startTx = s.startTx
      /\ t.report = s.report /\ t.mac = s.mac /\ t.link = link /\ t.tmp = s.tmp /\ t.q = q
  BY <1>t DEF Onus
<1>6. Timed(t)
  <2>1. Expected(s) => Expected(t)
    BY <1>5 DEF Expected, Overtaken, Live, End
  <2>2. Linked(t)
    BY <1>0, <1>1, <1>2, <1>5, <2>1 DEF Linked
  <2> QED BY <1>5, <2>2 DEF Timed, Live, End
<1>7. At(t) = At(s) /\ At(s) \in Nat
  BY <1>5, OnuTyped DEF At
<1>8. OnuStep(s, t)
  BY <1>4, <1>5, <1>6, <1>7 DEF OnuStep, Same, Stays
<1> QED BY <1>q, <1>l, <1>t, <1>8

(***************************************************************************)
(* sendReportMsg fires: the frame that makes startTxOnPON run to the       *)
(* REPORT is in no case handed over itself.                                *)
(***************************************************************************)
LEMMA ReportFiresFacts ==
  ASSUME NEW s \in Onus, Timed(s), s.report = 0, PollingTimes
  PROVE  OnuStep(s, ReportFires(s))
<1>u. PICK u : u = [s EXCEPT !.report = None]
  OBVIOUS
<1>0. Live(s) /\ End(s) = RepLead /\ 0 # None /\ s.polled
  <2>1. Live(s) /\ 0 = End(s) - RepLead /\ 0 # None
    BY Parameters DEF Timed
  <2>2. End(s) \in Int
    BY OnuTyped
  <2>6. RepLead \in Int
    BY Parameters
  <2>3. \A a, b \in Int : 0 = a - b => a = b
    OBVIOUS
  <2>4. End(s) = RepLead
    BY <2>1, <2>2, <2>3, <2>6
  <2>5. s.polled
    BY <2>1 DEF Live
  <2> QED BY <2>1, <2>4, <2>5
<1>1. u \in Onus
  BY <1>u DEF Onus, Timer
<1>2. /\ u.mac = s.mac /\ u.startTx = s.startTx /\ u.link = s.link /\ u.report = None
      /\ u.polled = s.polled /\ u.start = s.start /\ u.len = s.len /\ u.tmp = s.tmp /\ u.q = s.q
  BY <1>u DEF Onus
<1>x. Linked(s) /\ (FrameOn(s.link) => Expected(s) /\ s.startTx = None /\ MacBacklog(s.mac) = 0)
  BY <1>0 DEF Timed, Linked, Expected, Overtaken
<1>y. Linked(u)
  <2>1. FrameOn(s.link) => Expected(u)
    BY <1>x, <1>2 DEF Expected, Live, End
  <2> QED BY <1>x, <1>2, <2>1, LinkedKept
<1>3. Timed(u) /\ At(u) = At(s) /\ Same(s, u) /\ At(s) \in Nat
  BY <1>0, <1>2, <1>y, OnuTyped DEF Timed, Live, End, At, Same
<1>4. CASE s.startTx # None
  <2>1. ReportFires(s) = u
    BY <1>u, <1>2, <1>4 DEF ReportFires, SendReport
  <2> QED BY <1>1, <1>2, <1>3, <2>1 DEF OnuStep, Stays
<1>5. CASE s.startTx = None
  <2>p. PICK tmp : tmp = IF u.tmp = <<>> THEN <<Report>> ELSE u.tmp
    OBVIOUS
  <2>x. PICK left : left = IF Len(tmp) = 1 THEN <<>> ELSE tmp
    OBVIOUS
  <2>r. PICK r : r = [u EXCEPT !.tmp = tmp]
    OBVIOUS
  <2>w. PICK w : w = [u EXCEPT !.tmp = left]
    OBVIOUS
  <2>1. ReportFires(s) = [StartTxOnPON(r) EXCEPT !.tmp = IF Len(@) = 1 THEN <<>> ELSE @]
    BY <1>u, <1>2, <1>5, <2>p, <2>r DEF ReportFires, SendReport
  <2>2. u.tmp \in Seq(HostFrame)
    BY <1>1, OnuTyped
  <2>3. tmp # <<>> /\ Head(tmp) \in Frame
    <3>1. CASE u.tmp = <<>>
      <4>1. tmp = <<Report>>
        BY <2>p, <3>1
      <4> QED BY <4>1, FrameFacts
    <3>2. CASE u.tmp # <<>>
      <4>1. tmp = u.tmp
        BY <2>p, <3>2
      <4>2. Head(tmp) \in HostFrame
        BY <2>2, <3>2, <4>1, TailFacts
      <4> QED BY <3>2, <4>1, <4>2, FrameFacts
    <3> QED BY <3>1, <3>2
  <2>4. left \in Seq(HostFrame)
    <3>1. CASE u.tmp = <<>>
      <4>1. tmp = <<Report>>
        BY <2>p, <3>1
      <4>2. left = <<>>
        BY <2>x, <4>1
      <4> QED BY <4>2
    <3>2. CASE u.tmp # <<>>
      <4>1. tmp = u.tmp
        BY <2>p, <3>2
      <4>2. CASE Len(tmp) = 1
        <5>1. left = <<>>
          BY <2>x, <4>2
        <5> QED BY <5>1
      <4>3. CASE Len(tmp) # 1
        <5>1. left = u.tmp
          BY <2>x, <4>1, <4>3
        <5> QED BY <2>2, <5>1
      <4> QED BY <4>2, <4>3
    <3> QED BY <3>1, <3>2
  <2>5. w \in Onus
    BY <1>1, <2>w, <2>4 DEF Onus
  <2>6. /\ w.mac = s.mac /\ w.startTx = s.startTx /\ w.link = s.link /\ w.report = None
        /\ w.polled = s.polled /\ w.start = s.start /\ w.len = s.len /\ w.tmp = left /\ w.q = s.q
    BY <1>1, <1>2, <2>w DEF Onus
  <2>y. Linked(w)
    <3>1. ASSUME FrameOn(s.link)
          PROVE  Expected(w)
      <4>1. u.tmp = <<>>
        BY <1>x, <1>2, <3>1 DEF Expected
      <4>2. tmp = <<Report>>
        BY <2>p, <4>1
      <4>3. left = <<>>
        BY <2>x, <4>2
      <4> QED BY <1>x, <2>6, <3>1, <4>3 DEF Expected, Live, End
    <3> QED BY <1>x, <2>6, <3>1, LinkedKept
  <2>7. Timed(w) /\ At(w) = At(s) /\ Same(s, w) /\ End(w) = End(s)
    BY <1>3, <1>2, <2>6, <2>y DEF Timed, Live, End, At, Same
  <2>8. s.start <= 0
    BY <1>0, <1>5 DEF Timed
  <2>9. 0 < End(s) /\ RepLead \in 1 .. Window
    BY <1>0, Parameters DEF PollingTimes
  <2>10. Ready(w)
    BY <1>0, <1>5, <2>5, <2>6, <2>7, <2>8, <2>9 DEF Ready
  <2>11. /\ r.mac = s.mac /\ r.startTx = None /\ r.polled /\ r.start = s.start /\ r.len = s.len
         /\ r.tmp = tmp
    BY <1>0, <1>1, <1>2, <1>5, <2>r DEF Onus
  <2>12. End(r) = End(s) /\ Remaining(r) = Remaining(w)
    BY <2>7, <2>11 DEF End, Remaining
  <2>13. Remaining(w) = RepLead
    BY <1>0, <2>7, <2>10, ReadyFacts
  <2>14. ~ (r.polled /\ End(r) < 0)
    BY <1>0, <2>9, <2>12
  <2>15. MacBacklog(s.mac) \in Nat
    BY <2>6, <2>10, ReadyFacts
  <2>16. CASE MacBacklog(s.mac) > 0
    <3>v. PICK v : v = IF Remaining(r) > Delay THEN Delay ELSE None
      OBVIOUS
    <3>1. StartTxOnPON(r) = [r EXCEPT !.startTx = v]
      BY <2>11, <2>14, <2>16, <3>v DEF StartTxOnPON
    <3>2. MacBacklog(w.mac) > 0 /\ v = IF End(w) > Delay THEN Delay ELSE None
      BY <1>0, <2>6, <2>7, <2>12, <2>13, <2>16, <3>v
    <3>3. OnuStep(w, [w EXCEPT !.startTx = v])
      BY <2>10, <3>2, WaitFacts
    <3>4. ReportFires(s) = [w EXCEPT !.startTx = v]
      BY <1>1, <2>1, <2>x, <2>r, <2>w, <3>1 DEF Onus
    <3> QED BY <2>5, <2>6, <2>7, <3>3, <3>4, StepFrom
  <2>17. CASE ~ (MacBacklog(s.mac) > 0)
    <3>1. RepTime + Needed(Head(tmp)) >= Remaining(r)
      <4>1. RepTime + Ifg >= RepLead
        BY Parameters DEF PollingTimes
      <4>2. Needed(Head(tmp)) \in Nat /\ Needed(Head(tmp)) >= Ifg
        BY <2>3, FrameFacts, Parameters
      <4> QED BY <2>12, <2>13, <4>1, <4>2, Parameters
    <3>2. StartTxOnPON(r) = [SendReportFrame(r) EXCEPT !.report = None]
      BY <2>3, <2>11, <2>14, <2>17, <3>1 DEF StartTxOnPON
    <3>m. PICK mac : mac = MacSend(s.mac, Report)
      OBVIOUS
    <3>3. OnuStep(w, [w EXCEPT !.mac = mac, !.report = None])
      <4>1. MacBacklog(w.mac) = 0
        BY <2>6, <2>15, <2>17
      <4>2. OnuStep(w, [w EXCEPT !.mac = MacSend(@, Report), !.report = None])
        BY <1>0, <2>7, <2>10, <4>1, ReportFacts
      <4> QED BY <2>6, <3>m, <4>2
    <3>4. ReportFires(s) = [w EXCEPT !.mac = mac, !.report = None]
      <4>1. StartTxOnPON(r) = [r EXCEPT !.mac = mac, !.report = None]
        BY <2>11, <3>2, <3>m DEF SendReportFrame
      <4> QED BY <1>1, <2>1, <2>x, <2>r, <2>w, <4>1 DEF Onus
    <3> QED BY <2>5, <2>6, <2>7, <3>3, <3>4, StepFrom
  <2> QED BY <2>16, <2>17
<1> QED BY <1>4, <1>5

\* A GATE: the slot is set and its two timers are scheduled.
LEMMA GateFacts ==
  ASSUME NEW s \in Onus, Timed(s), ~ Live(s), PollingTimes,
         NEW start \in Int, start <= Guard, RepLead <= start + Window
  PROVE  LET t == ProcessGate(s, start, Window)
         IN  /\ t \in Onus /\ Timed(t) /\ Live(t) /\ t.start = start /\ t.mac = s.mac
             /\ At(t) >= start
<1>u. PICK u : u = [s EXCEPT !.polled = TRUE, !.start = start, !.len = Window]
  OBVIOUS
<1>v. PICK v : v = IF start < 0 THEN 0 ELSE start
  OBVIOUS
<1>w. PICK w : w = [u EXCEPT !.startTx = v]
  OBVIOUS
<1>x. PICK x : x = start + Window - RepLead
  OBVIOUS
<1>t. PICK t : t = [w EXCEPT !.report = x]
  OBVIOUS
<1>1. s.startTx = None /\ s.report = None
  BY DEF Timed
<1>2. u \in Onus
  BY <1>u, Parameters DEF Onus
<1>3. /\ u.polled = TRUE /\ u.start = start /\ u.len = Window /\ u.startTx = None /\ u.report = None
      /\ u.mac = s.mac /\ u.link = s.link /\ u.q = s.q
  BY <1>u, <1>1 DEF Onus
<1>4. /\ End(u) = start + Window /\ RepLead > 0 /\ RepLead <= Window
      /\ start + Window > 0 /\ start + Window \in 0 .. Period - 1
      /\ start >= 0 => start \in 0 .. Period - 1
  <2>1. RepLead \in 1 .. Window /\ Guard + Window < Period
    BY DEF PollingTimes
  <2> QED BY <1>3, <2>1, Parameters DEF End
<1>5. v \in Nat /\ start <= v /\ v < start + Window
  BY <1>v, <1>4, Parameters
<1>6. ScheduleStart(u) = w
  <2>1. CASE start < 0
    BY <1>v, <1>w, <1>3, <1>4, <2>1 DEF ScheduleStart
  <2>2. CASE ~ (start < 0)
    <3>1. start % Period = start
      BY <1>4, <2>2, Around, Parameters
    <3>2. ~ (0 > End(u)) /\ ~ (0 > u.start /\ 0 < End(u))
      BY <1>3, <1>4, <2>2
    <3> QED BY <1>v, <1>w, <1>3, <2>2, <3>1, <3>2 DEF ScheduleStart
  <2> QED BY <2>1, <2>2
<1>7. w \in Onus
  BY <1>w, <1>2, <1>5 DEF Onus, Timer
<1>8. /\ w.polled = TRUE /\ w.start = start /\ w.len = Window /\ w.startTx = v /\ w.report = None
      /\ w.mac = s.mac /\ w.link = s.link /\ w.q = s.q
  BY <1>w, <1>2, <1>3 DEF Onus
<1>9. End(w) = start + Window /\ Remaining(w) = start + Window
  <2>1. End(w) = start + Window
    BY <1>8 DEF End
  <2> QED BY <1>4, <1>7, <2>1, RemainingFacts
<1>10. ScheduleReport(w) = t
  <2>1. ~ (w.report # None \/ Remaining(w) < RepLead)
    BY <1>8, <1>9, Parameters
  <2>2. x = Remaining(w) - RepLead
    BY <1>x, <1>9, Parameters
  <2>3. ScheduleReport(w) = [w EXCEPT !.report = Remaining(w) - RepLead]
    BY <2>1 DEF ScheduleReport
  <2> QED BY <1>t, <2>2, <2>3
<1>11. x \in Nat
  BY <1>x, Parameters
<1>12. t \in Onus
  BY <1>t, <1>7, <1>11 DEF Onus, Timer
<1>13. /\ t.polled = TRUE /\ t.start = start /\ t.len = Window /\ t.startTx = v /\ t.report = x
       /\ t.mac = s.mac /\ t.link = s.link /\ t.q = s.q
  BY <1>t, <1>7, <1>8 DEF Onus
<1>14. Live(t) /\ End(t) = start + Window
  BY <1>4, <1>13 DEF Live, End
<1>15. At(t) = v /\ v # None
  BY <1>5, <1>13, Parameters DEF At
<1>16. Timed(t)
  <2>1. x = End(t) - RepLead
    BY <1>x, <1>14, Parameters
  <2>2. t.startTx # None /\ t.start <= t.startTx /\ t.startTx < End(t)
    BY <1>5, <1>13, <1>14, <1>15
  <2>3. Linked(s) /\ ~ FrameOn(s.link)
    BY DEF Timed, Linked, Expected
  <2>4. Linked(t)
    BY <1>13, <2>3, LinkedKept
  <2> QED BY <1>13, <1>14, <2>1, <2>2, <2>4 DEF Timed
<1>17. ProcessGate(s, start, Window) = t
  BY <1>u, <1>6, <1>10 DEF ProcessGate
<1> QED BY <1>5, <1>12, <1>13, <1>14, <1>15, <1>16, <1>17

\* A timer of the transmitter.
LEMMA MacTimerOnu ==
  ASSUME NEW s \in Onus, Timed(s), s.mac.timer = 0
  PROVE  LET t == MacTimerFires(s)
         IN  /\ t \in Onus /\ Timed(t) /\ Same(s, t) /\ At(t) = At(s)
             /\ t.mac = AfterTimer(s.mac)
<1>m. PICK mac : mac = AfterTimer(s.mac)
  OBVIOUS
<1>t. PICK t : t = [s EXCEPT !.mac = mac]
  OBVIOUS
<1>1. s.mac \in Macs
  BY OnuTyped
<1>2. mac \in Macs
  BY <1>m, <1>1, DepartsFacts, RestsFacts
<1>3. t \in Onus
  BY <1>t, <1>2 DEF Onus
<1>4. /\ t.polled = s.polled /\ t.start = s.start /\ t.len = s.len /\ t.startTx = s.startTx
      /\ t.report = s.report /\ t.mac = mac /\ t.link = s.link /\ t.q = s.q /\ t.tmp = s.tmp
  BY <1>t DEF Onus
<1>5. Timed(t)
  <2>1. MacBacklog(s.mac) = 0 => MacBacklog(mac) = 0
    <3>1. CASE Departs(s.mac)
      BY <1>m, <1>1, <3>1, DepartsFacts DEF MacBacklog
    <3>2. CASE ~ Departs(s.mac)
      <4>1. Len(mac.queue) <= Len(s.mac.queue) /\ (mac.queue # <<>> => s.mac.queue # <<>>)
        BY <1>m, <1>1, <3>2, RestsFacts
      <4>2. /\ Len(mac.queue) \in 0 .. 2 /\ Len(s.mac.queue) \in 0 .. 2
            /\ mac.queue = <<>> <=> Len(mac.queue) = 0
        BY <1>1, <1>2, MacTyped
      <4> PICK a : a = Len(mac.queue)
        OBVIOUS
      <4> PICK b : b = Len(s.mac.queue)
        OBVIOUS
      <4>3. a \in 0 .. 2 /\ b \in 0 .. 2 /\ a <= b
        BY <4>1, <4>2
      <4> QED BY <4>1, <4>2, <4>3 DEF MacBacklog
    <3> QED BY <3>1, <3>2
  <2>2. ReportLast(s.mac) => ReportLast(mac)
    BY <1>m, <1>1, DepartsFacts, RestsFacts DEF ReportLast
  <2>3. Expected(s) => Expected(t)
    BY <1>4, <2>1, <2>2 DEF Expected, Overtaken, Live, End
  <2>4. Linked(t)
    BY <1>4, <2>3, LinkedKept DEF Timed, Linked
  <2> QED BY <1>4, <2>4 DEF Timed, Live, End
<1>6. At(t) = At(s) /\ Same(s, t)
  BY <1>4 DEF At, Same
<1>7. MacTimerFires(s) = t
  BY <1>m, <1>t DEF MacTimerFires, AfterTimer
<1> QED BY <1>m, <1>3, <1>4, <1>5, <1>6, <1>7

\* Time passes: a slot that is not over is a tick nearer, and so are its timers.
LEMMA TickOnu ==
  ASSUME NEW s \in Onus, Timed(s), ~ OnuDue(s), PollingTimes
  PROVE  LET t == OnuTick(s)
         IN  /\ t \in Onus /\ Timed(t)
             /\ s.mac.timer # 0 /\ t.mac = [s.mac EXCEPT !.timer = Elapse(@)]
             /\ Live(t) => /\ Live(s) /\ t.start = s.start - 1
                           /\ At(t) = IF s.startTx = None THEN 0 ELSE At(s) - 1
<1>m. PICK mac : mac = [s.mac EXCEPT !.timer = Elapse(@)]
  OBVIOUS
<1>b. PICK start : start = IF End(s) >= -Missed THEN s.start - 1 ELSE s.start
  OBVIOUS
<1>x. PICK x : x = Elapse(s.startTx)
  OBVIOUS
<1>y. PICK y : y = Elapse(s.report)
  OBVIOUS
<1>t. PICK t : t = [s EXCEPT !.start = start, !.startTx = x, !.report = y, !.mac = mac]
  OBVIOUS
<1>1. /\ s.mac \in Macs /\ s.start \in Int /\ End(s) \in Int
      /\ s.startTx = None \/ s.startTx \in Nat
      /\ s.report = None \/ s.report \in Nat
  BY OnuTyped
<1>2. s.link = <<>> /\ s.startTx # 0 /\ s.report # 0 /\ s.mac.timer # 0
  BY DEF OnuDue
<1>3. mac \in Macs
  BY <1>m, <1>1, <1>2, MacTickFacts
<1>4. /\ s.startTx = None => x = None
      /\ s.startTx # None => x \in Nat /\ x = s.startTx - 1 /\ x # None
  BY <1>x, <1>1, <1>2, Parameters DEF Elapse
<1>5. /\ s.report = None => y = None
      /\ s.report # None => y \in Nat /\ y = s.report - 1 /\ y # None
  BY <1>y, <1>1, <1>2, Parameters DEF Elapse
<1>6. start \in Int /\ start <= s.start /\ (End(s) > 0 => start = s.start - 1)
  BY <1>b, <1>1, Parameters
<1>7. t \in Onus
  <2>1. x \in Timer /\ y \in Timer
    BY <1>4, <1>5 DEF Timer
  <2> QED BY <1>t, <1>3, <1>6, <2>1 DEF Onus
<1>8. /\ t.polled = s.polled /\ t.start = start /\ t.len = s.len /\ t.startTx = x
      /\ t.report = y /\ t.mac = mac /\ t.link = <<>> /\ t.q = s.q
  BY <1>t, <1>2 DEF Onus
<1>9. End(t) = start + s.len /\ End(s) = s.start + s.len /\ s.len \in Nat
  BY <1>8, OnuTyped DEF End
<1>10. /\ End(t) \in Int /\ End(t) <= End(s) /\ (End(s) > 0 => End(t) = End(s) - 1)
  BY <1>1, <1>6, <1>9
<1>11. Live(t) => Live(s) /\ t.start = s.start - 1
  BY <1>1, <1>6, <1>8, <1>10 DEF Live
<1>12. Live(t) => At(t) = IF s.startTx = None THEN 0 ELSE At(s) - 1
  BY <1>4, <1>8 DEF At
<1>13. Timed(t)
  <2>1. t.polled => t.len = Window
    BY <1>8 DEF Timed
  <2>2. t.startTx # None => Live(t) /\ t.start <= t.startTx /\ t.startTx < End(t)
    <3> HAVE t.startTx # None
    <3>1. x # None /\ s.startTx # None /\ x \in Nat /\ x = s.startTx - 1 /\ s.startTx \in Nat
      BY <1>1, <1>4, <1>8
    <3>2. Live(s) /\ s.start <= s.startTx /\ s.startTx < End(s)
      BY <3>1 DEF Timed
    <3>3. End(t) = End(s) - 1 /\ start = s.start - 1 /\ s.polled
      BY <1>6, <1>10, <3>2 DEF Live
    <3>4. start <= x /\ x < End(t) /\ End(t) > 0
      BY <1>1, <3>1, <3>2, <3>3
    <3> QED BY <1>8, <3>3, <3>4 DEF Live
  <2>3. t.report # None => Live(t) /\ t.report = End(t) - RepLead
    <3> HAVE t.report # None
    <3>1. y # None /\ s.report # None /\ y \in Nat /\ y = s.report - 1 /\ s.report \in Nat
      BY <1>1, <1>5, <1>8
    <3>2. Live(s) /\ s.report = End(s) - RepLead
      BY <3>1 DEF Timed
    <3>3. End(t) = End(s) - 1 /\ s.polled
      BY <1>10, <3>2 DEF Live
    <3>4. RepLead \in Nat /\ RepLead >= 1
      BY Parameters DEF PollingTimes
    <3>5. y = End(t) - RepLead /\ End(t) > 0
      BY <1>1, <3>1, <3>2, <3>3, <3>4
    <3> QED BY <1>8, <3>3, <3>5 DEF Live
  <2>4. Live(t) /\ t.startTx = None => t.start <= 0
    <3> HAVE Live(t) /\ t.startTx = None
    <3>1. s.startTx = None
      BY <1>4, <1>8
    <3>2. Live(s) /\ t.start = s.start - 1
      BY <1>11
    <3>3. s.start <= 0
      BY <3>1, <3>2 DEF Timed
    <3> QED BY <1>1, <3>2, <3>3
  <2>5. Linked(t)
    <3>1. Linked(s) /\ ~ FrameOn(s.link)
      BY <1>2, OnLink DEF Timed
    <3> QED BY <1>2, <1>8, <3>1, LinkedKept
  <2> QED BY <1>8, <2>1, <2>2, <2>3, <2>4, <2>5 DEF Timed
<1>14. OnuTick(s) = t
  BY <1>m, <1>b, <1>x, <1>y, <1>t, <1>1 DEF OnuTick, Onus, Macs
<1> QED BY <1>m, <1>2, <1>7, <1>8, <1>11, <1>12, <1>13, <1>14

-----------------------------------------------------------------------------
(* The poller of the PON, as in OltPollingProofs *)

Past == Poller!Past

(***************************************************************************)
(* While the poller runs, the next slot follows the pending GATE by a      *)
(* guard, and every announced slot ends before that GATE is sent.          *)
(***************************************************************************)
Scheduled ==
  IF running
  THEN /\ gateIn \in Nat
       /\ expTx = gateIn + Guard + Window
       /\ comTime[next] = gateIn + Guard
       /\ \A p \in Ports : slot[p] + Window <= gateIn \/ slot[p] = Past
  ELSE /\ gateIn = None /\ expTx = 0 /\ next = 0
       /\ \A p \in Ports : slot[p] = Past

PollerInv == Poller!TypeOK /\ Scheduled /\ Poller!GrantsDisjoint

LEMMA PollerPorts ==
  /\ Poller!Onus = Ports /\ Past \in Int /\ Past = -(Guard + Window) /\ 0 \in Ports
  /\ \A p \in Ports : p \in 0 .. MaxOnus - 1
BY PonParameters, Parameters DEF Poller!Onus, Past, Poller!Past

LEMMA PollerTyped ==
  ASSUME PollerInv
  PROVE  /\ size \in 0 .. MaxOnus /\ next \in Ports /\ (next = 0 \/ next < size)
         /\ running \in BOOLEAN /\ (running <=> size > 0)
         /\ \A p \in Ports : slot[p] \in Int /\ Past <= slot[p] /\ slot[p] <= Guard
         /\ slot \in [Ports -> Past .. Guard]
         /\ comTime \in [Ports -> Past .. 2 * Guard + Window]
         /\ since \in [Ports -> [Ports -> Nat]]
<1>1. /\ slot \in [Ports -> Past .. Guard] /\ comTime \in [Ports -> Past .. 2 * Guard + Window]
      /\ since \in [Ports -> [Ports -> Nat]]
  BY PollerPorts DEF PollerInv, Poller!TypeOK, Past
<1>2. \A x \in Past .. Guard : x \in Int /\ Past <= x /\ x <= Guard
  BY PollerPorts, Parameters
<1>3. \A p \in Ports : slot[p] \in Past .. Guard
  BY <1>1
<1> QED BY <1>1, <1>2, <1>3, PollerPorts DEF PollerInv, Poller!TypeOK

LEMMA PollerStarts == Poller!Init => PollerInv
<1> SUFFICES ASSUME Poller!Init PROVE PollerInv
  OBVIOUS
<1>1. Poller!TypeOK
  <2>1. Past \in Int /\ Past <= 0 /\ 0 \in Ports
    BY PollerPorts, Parameters
  <2>2. Past \in Past .. 2 * Guard + Window /\ Past \in Past .. Guard
    BY <2>1, Parameters
  <2>3. comTime \in [Ports -> Past .. 2 * Guard + Window] /\ slot \in [Ports -> Past .. Guard]
    BY <2>2, PollerPorts DEF Poller!Init, Past
  <2>4. since \in [Ports -> [Ports -> Nat]]
    BY PollerPorts DEF Poller!Init
  <2>5. size \in 0 .. MaxOnus /\ next = 0 /\ ~ (size > 0) /\ running = FALSE
    BY Parameters DEF Poller!Init
  <2>6. expTx \in 0 .. 2 * (Guard + Window) /\ gateIn = None
    BY Parameters DEF Poller!Init
  <2> QED BY <2>1, <2>3, <2>4, <2>5, <2>6, PollerPorts DEF Poller!TypeOK, Past
<1>2. Scheduled
  BY PollerPorts DEF Poller!Init, Scheduled, Past
<1>3. Poller!GrantsDisjoint
  <2>1. \A p \in Ports : ~ (slot[p] > Past)
    <3>1. ~ (Past > Past)
      BY PollerPorts
    <3>2. \A p \in Ports : slot[p] = Past
      BY PollerPorts DEF Poller!Init, Past
    <3> QED BY <3>1, <3>2
  <2> QED BY <2>1, PollerPorts DEF Poller!GrantsDisjoint, Past
<1> QED BY <1>1, <1>2, <1>3 DEF PollerInv

\* A registration changes the table; the first one starts the poller.
LEMMA PollerRegister ==
  ASSUME PollerInv, Poller!Register
  PROVE  /\ PollerInv' /\ slot' = slot
         /\ running => gateIn' = gateIn
         /\ ~ running => gateIn = None
<1>1. CASE running
  <2>1. next' = next /\ UNCHANGED <<comTime, expTx, gateIn, slot, since>> /\ running' = TRUE
    BY <1>1, PollerTyped DEF Poller!Register, Poller!DoUpstreamDBA
  <2>2. size' = size + 1 /\ size < MaxOnus
    BY DEF Poller!Register
  <2>3. next \in Ports /\ (next = 0 \/ next < size) /\ size \in 0 .. MaxOnus /\ next \in Nat
    BY PollerTyped, PollerPorts
  <2>4. size' \in 0 .. MaxOnus /\ size' > 0 /\ (next' = 0 \/ next' < size')
    BY <2>1, <2>2, <2>3, Parameters
  <2>5. Poller!TypeOK'
    BY <1>1, <2>1, <2>3, <2>4 DEF PollerInv, Poller!TypeOK, Poller!Past, Poller!Onus
  <2>6. Scheduled' /\ Poller!GrantsDisjoint'
    BY <1>1, <2>1 DEF PollerInv, Scheduled, Past, Poller!Past, Poller!GrantsDisjoint
  <2> QED BY <1>1, <2>1, <2>5, <2>6 DEF PollerInv
<1>2. CASE ~ running
  <2>1. size = 0 /\ next = 0 /\ expTx = 0 /\ gateIn = None /\ running = FALSE
    BY <1>2, PollerTyped DEF PollerInv, Scheduled
  <2>2. /\ running' = TRUE /\ next' = 0 /\ gateIn' = 0
        /\ comTime' = [comTime EXCEPT ![0] = Guard]
        /\ expTx' = Guard + Window
        /\ UNCHANGED <<slot, since>>
    BY <1>2, <2>1, Parameters DEF Poller!Register, Poller!DoUpstreamDBA
  <2>3. size' = 1
    BY <2>1 DEF Poller!Register
  <2>4. Poller!TypeOK'
    <3>1. 0 \in Ports /\ Guard \in Past .. 2 * Guard + Window
      BY PollerPorts, Parameters
    <3>2. comTime' \in [Ports -> Past .. 2 * Guard + Window]
      BY <2>2, <3>1, PollerTyped
    <3>3. size' \in 0 .. MaxOnus /\ size' > 0 /\ gateIn' \in 0 .. Guard + Window
      BY <2>2, <2>3, Parameters
    <3>4. expTx' \in 0 .. 2 * (Guard + Window)
      BY <2>2, Parameters
    <3>5. slot' \in [Ports -> Past .. Guard] /\ since' \in [Ports -> [Ports -> Nat]]
      BY <2>2, PollerTyped
    <3> QED BY <2>2, <3>1, <3>2, <3>3, <3>4, <3>5, PollerPorts DEF Poller!TypeOK, Past
  <2>5. Scheduled'
    <3>1. \A p \in Ports : slot'[p] = Past
      BY <1>2, <2>2 DEF PollerInv, Scheduled
    <3>2. comTime'[0] = Guard
      BY <2>2, PollerTyped, PollerPorts
    <3>3. 0 + Guard = Guard /\ 0 + Guard + Window = Guard + Window /\ 0 \in Nat
      BY Parameters
    <3> QED BY <2>2, <3>1, <3>2, <3>3 DEF Scheduled, Past, Poller!Past
  <2>6. Poller!GrantsDisjoint'
    BY <2>2 DEF PollerInv, Poller!GrantsDisjoint, Poller!Past
  <2> QED BY <1>2, <2>1, <2>2, <2>4, <2>5, <2>6 DEF PollerInv
<1> QED BY <1>1, <1>2

\* A GATE is sent: every slot announced so far is over, and one more begins
\* a guard later.
LEMMA PollerSends ==
  ASSUME PollerInv, Poller!SendSingleGate
  PROVE  /\ PollerInv' /\ gateIn = 0 /\ running /\ next \in Ports /\ comTime[next] = Guard
         /\ \A p \in Ports : slot[p] + Window <= 0
         /\ slot' = [slot EXCEPT ![next] = Guard]
         /\ gateIn' = Guard + Window
<1>1. gateIn = 0 /\ None # 0
  BY Parameters DEF Poller!SendSingleGate
<1>2. running /\ size \in 0 .. MaxOnus /\ size > 0 /\ next \in Ports /\ next < size
  <2>1. running
    BY <1>1 DEF PollerInv, Scheduled
  <2>2. size \in 0 .. MaxOnus /\ size > 0 /\ next \in Ports /\ (next = 0 \/ next < size)
    BY <2>1, PollerTyped
  <2> QED BY <2>1, <2>2, Parameters
<1>3. size \in 1 .. MaxOnus /\ next \in 0 .. size - 1
  BY <1>2, PollerPorts, Parameters
<1>4. comTime[next] = Guard /\ expTx = Guard + Window
  BY <1>1, <1>2, Parameters DEF PollerInv, Scheduled
<1>5. \A p \in Ports : slot[p] + Window <= 0
  <2> SUFFICES ASSUME NEW p \in Ports PROVE slot[p] + Window <= 0
    OBVIOUS
  <2>1. slot[p] + Window <= 0 \/ slot[p] = Past
    BY <1>1, <1>2 DEF PollerInv, Scheduled
  <2>2. Past + Window <= 0
    BY PollerPorts, Parameters
  <2> QED BY <2>1, <2>2
<1>p. PICK p : p = IF next + 1 = size THEN 0 ELSE next + 1
  OBVIOUS
<1>6. (next + 1) % size = p /\ p \in 0 .. size - 1
  BY <1>p, <1>3, Parameters
<1>7. p \in Ports
  BY <1>3, <1>6, Parameters, PonParameters
<1>8. /\ running' = TRUE /\ next' = p /\ gateIn' = Guard + Window
      /\ comTime' = [comTime EXCEPT ![p] = Guard + Window + Guard]
      /\ expTx' = Guard + Window + Guard + Window /\ size' = size
  <2>1. ~ (p >= size)
    BY <1>3, <1>6, Parameters
  <2>2. size # 0
    BY <1>2
  <2> QED BY <1>4, <1>6, <2>1, <2>2 DEF Poller!SendSingleGate, Poller!DoUpstreamDBA
<1>9. slot' = [slot EXCEPT ![next] = Guard]
  BY <1>4 DEF Poller!SendSingleGate
<1>10. Poller!TypeOK'
  <2>1. since' \in [Ports -> [Ports -> Nat]]
    <3>1. since' = [j \in Ports |->
                      IF j = next THEN [i \in Ports |-> 0]
                      ELSE [since[j] EXCEPT ![next] = IF j < size THEN @ + 1 ELSE @]]
      BY PollerPorts DEF Poller!SendSingleGate
    <3> QED BY <1>2, <3>1, PollerTyped
  <2>2. slot' \in [Ports -> Past .. Guard]
    <3>1. Guard \in Past .. Guard
      BY PollerPorts, Parameters
    <3> QED BY <1>2, <1>9, <3>1, PollerTyped
  <2>3. comTime' \in [Ports -> Past .. 2 * Guard + Window]
    <3>1. Guard + Window + Guard \in Past .. 2 * Guard + Window
      BY PollerPorts, Parameters
    <3> QED BY <1>7, <1>8, <3>1, PollerTyped
  <2>4. gateIn' \in 0 .. Guard + Window /\ expTx' \in 0 .. 2 * (Guard + Window)
    BY <1>8, Parameters
  <2>5. size' \in 0 .. MaxOnus /\ size' > 0 /\ next' < size'
    BY <1>3, <1>6, <1>8, Parameters
  <2> QED BY <1>7, <1>8, <2>1, <2>2, <2>3, <2>4, <2>5, PollerPorts DEF Poller!TypeOK, Past
<1>11. \A i \in Ports : slot'[i] = (IF i = next THEN Guard ELSE slot[i]) /\ slot[i] \in Int
  BY <1>9, PollerTyped
<1>12. Scheduled'
  <2>1. comTime'[p] = Guard + Window + Guard
    BY <1>7, <1>8, PollerTyped
  <2>2. \A i \in Ports : slot'[i] + Window <= gateIn'
    <3> SUFFICES ASSUME NEW i \in Ports PROVE slot'[i] + Window <= Guard + Window
      BY <1>8
    <3> QED BY <1>5, <1>11, Parameters
  <2>3. gateIn' \in Nat /\ expTx' = gateIn' + Guard + Window /\ Guard + Window + Guard = gateIn' + Guard
    BY <1>8, Parameters
  <2> QED BY <1>8, <2>1, <2>2, <2>3 DEF Scheduled
<1>13. Poller!GrantsDisjoint'
  <2> SUFFICES ASSUME NEW i \in Ports, NEW j \in Ports, i # j,
                      slot'[i] > Past, slot'[j] > Past
               PROVE  \/ slot'[i] + Window + Guard <= slot'[j]
                      \/ slot'[j] + Window + Guard <= slot'[i]
    BY PollerPorts DEF Poller!GrantsDisjoint, Past, Poller!Past
  <2>1. CASE i = next
    <3>1. slot'[i] = Guard /\ slot'[j] = slot[j] /\ slot[j] + Window <= 0 /\ slot[j] \in Int
      BY <1>5, <1>11, <2>1
    <3> QED BY <3>1, Parameters
  <2>2. CASE j = next
    <3>1. slot'[j] = Guard /\ slot'[i] = slot[i] /\ slot[i] + Window <= 0 /\ slot[i] \in Int
      BY <1>5, <1>11, <2>2
    <3> QED BY <3>1, Parameters
  <2>3. CASE i # next /\ j # next
    <3>1. slot'[i] = slot[i] /\ slot'[j] = slot[j]
      BY <1>11, <2>3
    <3> QED BY <3>1, PollerPorts DEF PollerInv, Poller!GrantsDisjoint, Past
  <2> QED BY <2>1, <2>2, <2>3
<1> QED BY <1>1, <1>2, <1>4, <1>5, <1>8, <1>9, <1>10, <1>12, <1>13 DEF PollerInv

\* Time brings every slot closer by a tick, or forgets it.
LEMMA PollerTick ==
  ASSUME PollerInv, Poller!Tick
  PROVE  /\ PollerInv' /\ gateIn # 0
         /\ gateIn' = IF gateIn = None THEN None ELSE gateIn - 1
         /\ gateIn = None \/ gateIn \in Nat
         /\ \A p \in Ports : slot'[p] = IF slot[p] > Past THEN slot[p] - 1 ELSE slot[p]
<1>1. \A p \in Ports : slot'[p] = IF slot[p] > Past THEN slot[p] - 1 ELSE slot[p]
  BY PollerPorts DEF Poller!Tick, Poller!Later, Past
<1>2. \A p \in Ports : comTime'[p] = IF comTime[p] > Past THEN comTime[p] - 1 ELSE comTime[p]
  BY PollerPorts DEF Poller!Tick, Poller!Later, Past
<1>3. gateIn # 0 /\ gateIn' = (IF gateIn = None THEN None ELSE gateIn - 1)
  BY DEF Poller!Tick
<1>4. gateIn \in (0 .. Guard + Window) \union {None} /\ expTx \in 0 .. 2 * (Guard + Window)
  BY DEF PollerInv, Poller!TypeOK
<1>5. Poller!TypeOK'
  <2>1. slot' \in [Ports -> Past .. Guard]
    <3>1. \A p \in Ports : slot'[p] \in Past .. Guard
      BY <1>1, PollerTyped, PollerPorts, Parameters
    <3> QED BY <3>1, PollerPorts DEF Poller!Tick
  <2>2. comTime' \in [Ports -> Past .. 2 * Guard + Window]
    <3>1. \A p \in Ports : comTime[p] \in Past .. 2 * Guard + Window
      BY PollerTyped
    <3>2. \A x \in Past .. 2 * Guard + Window :
             (IF x > Past THEN x - 1 ELSE x) \in Past .. 2 * Guard + Window
      BY PollerPorts, Parameters
    <3>3. \A p \in Ports : comTime'[p] \in Past .. 2 * Guard + Window
      BY <1>2, <3>1, <3>2
    <3> QED BY <3>3, PollerPorts DEF Poller!Tick
  <2>3. gateIn' \in (0 .. Guard + Window) \union {None} /\ expTx' \in 0 .. 2 * (Guard + Window)
    <3>1. expTx' = IF expTx > 0 THEN expTx - 1 ELSE 0
      BY DEF Poller!Tick
    <3> QED BY <1>3, <1>4, <3>1, Parameters
  <2> QED BY <2>1, <2>2, <2>3, PollerPorts DEF Poller!Tick, PollerInv, Poller!TypeOK, Past, Poller!Past
<1>6. Scheduled'
  <2>1. CASE running
    <3>1. gateIn \in Nat /\ gateIn # None /\ gateIn > 0
      BY <1>3, <2>1, Parameters DEF PollerInv, Scheduled
    <3>2. /\ gateIn' = gateIn - 1 /\ expTx' = expTx - 1 /\ running' = running
          /\ next' = next /\ next \in Ports
      <4>1. expTx > 0
        BY <2>1, <3>1, Parameters DEF PollerInv, Scheduled
      <4> QED BY <1>3, <3>1, <4>1, PollerTyped DEF Poller!Tick
    <3>3. comTime'[next] = comTime[next] - 1
      <4>1. comTime[next] > Past
        BY <2>1, <3>1, PollerPorts, Parameters DEF PollerInv, Scheduled
      <4> QED BY <1>2, <3>2, <4>1
    <3>4. \A p \in Ports : slot'[p] + Window <= gateIn' \/ slot'[p] = Past
      <4> SUFFICES ASSUME NEW p \in Ports
                   PROVE  slot'[p] + Window <= gateIn - 1 \/ slot'[p] = Past
        BY <3>2
      <4>1. slot[p] + Window <= gateIn \/ slot[p] = Past
        BY <2>1 DEF PollerInv, Scheduled
      <4>2. slot[p] \in Int /\ Past <= slot[p]
        BY PollerTyped
      <4> QED BY <1>1, <3>1, <4>1, <4>2, PollerPorts, Parameters
    <3>5. expTx = gateIn + Guard + Window /\ comTime[next] = gateIn + Guard
      BY <2>1 DEF PollerInv, Scheduled
    <3>6. gateIn' \in Nat /\ expTx' = gateIn' + Guard + Window /\ comTime'[next] = gateIn' + Guard
      BY <3>1, <3>2, <3>3, <3>5, Parameters
    <3> QED BY <2>1, <3>2, <3>4, <3>6 DEF Scheduled, Past, Poller!Past
  <2>2. CASE ~ running
    <3>1. gateIn = None /\ expTx = 0 /\ next = 0 /\ \A p \in Ports : slot[p] = Past
      BY <2>2 DEF PollerInv, Scheduled
    <3>2. \A p \in Ports : slot'[p] = Past
      BY <1>1, <3>1, PollerPorts
    <3> QED BY <2>2, <3>1, <3>2 DEF Poller!Tick, Scheduled, Past, Poller!Past
  <2> QED BY <2>1, <2>2
<1>7. Poller!GrantsDisjoint'
  <2> SUFFICES ASSUME NEW i \in Ports, NEW j \in Ports, i # j,
                      slot'[i] > Past, slot'[j] > Past
               PROVE  \/ slot'[i] + Window + Guard <= slot'[j]
                      \/ slot'[j] + Window + Guard <= slot'[i]
    BY PollerPorts DEF Poller!GrantsDisjoint, Past, Poller!Past
  <2>1. slot[i] \in Int /\ slot[j] \in Int /\ Past <= slot[i] /\ Past <= slot[j]
    BY PollerTyped
  <2>2. slot[i] > Past /\ slot[j] > Past
    BY <1>1, <2>1, PollerPorts
  <2>3. \/ slot[i] + Window + Guard <= slot[j]
        \/ slot[j] + Window + Guard <= slot[i]
    BY <2>2, PollerPorts DEF PollerInv, Poller!GrantsDisjoint, Past
  <2> QED BY <1>1, <2>1, <2>2, <2>3, Parameters
<1>8. gateIn = None \/ gateIn \in Nat
  BY <1>4, Parameters
<1> QED BY <1>1, <1>3, <1>5, <1>6, <1>7, <1>8 DEF PollerInv

-----------------------------------------------------------------------------
(* What is on the fibres *)

TrunkGates == [to : Ports, start : Int, in : Nat]
FibreGates == [start : Int, in : Nat]
Frames == [in : Int, air : Nat \ {0}]

LEMMA FunctionIsSeq ==
  ASSUME NEW T, NEW n \in Nat, NEW f \in [1 .. n -> T]
  PROVE  f \in Seq(T) /\ Len(f) = n /\ DOMAIN f = 1 .. n
<1>1. f \in Seq(T)
  BY SeqDef
<1>2. DOMAIN f = 1 .. n
  OBVIOUS
<1> QED BY <1>1, <1>2

\* A tick on a fibre.
LEMMA NearerFacts ==
  ASSUME NEW s \in Seq(Frames)
  PROVE  /\ Nearer(s) \in Seq(Frames) /\ Len(Nearer(s)) = Len(s)
         /\ \A k \in 1 .. Len(s) : Nearer(s)[k].in = s[k].in - 1 /\ Nearer(s)[k].air = s[k].air
<1> DEFINE f == [k \in 1 .. Len(s) |-> [s[k] EXCEPT !.in = s[k].in - 1]]
<1>1. DOMAIN s = 1 .. Len(s) /\ Len(s) \in Nat /\ \A k \in 1 .. Len(s) : s[k] \in Frames
  BY LenProperties, ElementOfSeq
<1>2. Nearer(s) = f
  BY <1>1 DEF Nearer
<1>3. ASSUME NEW k \in 1 .. Len(s)
      PROVE  /\ [s[k] EXCEPT !.in = s[k].in - 1] \in Frames
             /\ [s[k] EXCEPT !.in = s[k].in - 1].in = s[k].in - 1
             /\ [s[k] EXCEPT !.in = s[k].in - 1].air = s[k].air
  <2>1. s[k].in - 1 \in Int
    BY <1>1 DEF Frames
  <2> QED BY <1>1, <2>1 DEF Frames
<1>4. f \in [1 .. Len(s) -> Frames]
  BY <1>3
<1>5. f \in Seq(Frames) /\ Len(f) = Len(s)
  BY <1>1, <1>4, FunctionIsSeq
<1>6. \A k \in 1 .. Len(s) : f[k] = [s[k] EXCEPT !.in = s[k].in - 1]
  OBVIOUS
<1> HIDE DEF f
<1> QED BY <1>2, <1>3, <1>5, <1>6

LEMMA SoonerOnTrunk ==
  ASSUME NEW s \in Seq(TrunkGates), \A k \in 1 .. Len(s) : s[k].in # 0
  PROVE  /\ Sooner(s) \in Seq(TrunkGates) /\ Len(Sooner(s)) = Len(s)
         /\ \A k \in 1 .. Len(s) : /\ Sooner(s)[k].in = s[k].in - 1 /\ Sooner(s)[k].to = s[k].to
                                   /\ Sooner(s)[k].start = s[k].start - 1
<1>f. PICK f : f = [k \in 1 .. Len(s) |-> [s[k] EXCEPT !.in = s[k].in - 1, !.start = s[k].start - 1]]
  OBVIOUS
<1>1. DOMAIN s = 1 .. Len(s) /\ Len(s) \in Nat /\ \A k \in 1 .. Len(s) : s[k] \in TrunkGates
  BY LenProperties, ElementOfSeq
<1>2. Sooner(s) = f
  BY <1>f, <1>1 DEF Sooner
<1>3. ASSUME NEW k \in 1 .. Len(s)
      PROVE  LET g == [s[k] EXCEPT !.in = s[k].in - 1, !.start = s[k].start - 1]
             IN  g \in TrunkGates /\ g.in = s[k].in - 1 /\ g.start = s[k].start - 1 /\ g.to = s[k].to
  <2>1. s[k].in - 1 \in Nat /\ s[k].start - 1 \in Int
    BY <1>1 DEF TrunkGates
  <2> QED BY <1>1, <2>1 DEF TrunkGates
<1>4. f \in [1 .. Len(s) -> TrunkGates]
  BY <1>f, <1>3
<1>5. f \in Seq(TrunkGates) /\ Len(f) = Len(s)
  BY <1>1, <1>4, FunctionIsSeq
<1>6. \A k \in 1 .. Len(s) : f[k] = [s[k] EXCEPT !.in = s[k].in - 1, !.start = s[k].start - 1]
  BY <1>f
<1> QED BY <1>2, <1>3, <1>5, <1>6

LEMMA SoonerOnFibre ==
  ASSUME NEW s \in Seq(FibreGates), \A k \in 1 .. Len(s) : s[k].in # 0
  PROVE  /\ Sooner(s) \in Seq(FibreGates) /\ Len(Sooner(s)) = Len(s)
         /\ \A k \in 1 .. Len(s) : /\ Sooner(s)[k].in = s[k].in - 1
                                   /\ Sooner(s)[k].start = s[k].start - 1
<1>f. PICK f : f = [k \in 1 .. Len(s) |-> [s[k] EXCEPT !.in = s[k].in - 1, !.start = s[k].start - 1]]
  OBVIOUS
<1>1. DOMAIN s = 1 .. Len(s) /\ Len(s) \in Nat /\ \A k \in 1 .. Len(s) : s[k] \in FibreGates
  BY LenProperties, ElementOfSeq
<1>2. Sooner(s) = f
  BY <1>f, <1>1 DEF Sooner
<1>3. ASSUME NEW k \in 1 .. Len(s)
      PROVE  LET g == [s[k] EXCEPT !.in = s[k].in - 1, !.start = s[k].start - 1]
             IN  g \in FibreGates /\ g.in = s[k].in - 1 /\ g.start = s[k].start - 1
  <2>1. s[k].in - 1 \in Nat /\ s[k].start - 1 \in Int
    BY <1>1 DEF FibreGates
  <2> QED BY <1>1, <2>1 DEF FibreGates
<1>4. f \in [1 .. Len(s) -> FibreGates]
  BY <1>f, <1>3
<1>5. f \in Seq(FibreGates) /\ Len(f) = Len(s)
  BY <1>1, <1>4, FunctionIsSeq
<1>6. \A k \in 1 .. Len(s) : f[k] = [s[k] EXCEPT !.in = s[k].in - 1, !.start = s[k].start - 1]
  BY <1>f
<1> QED BY <1>2, <1>3, <1>5, <1>6

-----------------------------------------------------------------------------
(* The invariant of the PON *)

Splitters == [busy : Nat, col : 0 .. HaltOn, down : [Ports -> Nat]]

\* A GATE brings the slot last announced to its ONU, which has no other, in time.
Coming(start, in, announced, s) ==
  start = announced /\ ~ Live(s) /\ in + RepLead <= announced + Window

GatesOnTrunk ==
  /\ Len(trunk) <= 1
  /\ trunk # <<>> =>
       LET g == trunk[1]
       IN  Coming(g.start, g.in + Dist[g.to], slot[g.to], onu[g.to]) /\ down[g.to] = <<>>
GatesOnFibres ==
  \A p \in Ports :
    /\ Len(down[p]) <= 1
    /\ down[p] # <<>> => Coming(down[p][1].start, down[p][1].in, slot[p], onu[p])
\* An ONU whose slot is not over has the one last announced.
LiveSlots == \A p \in Ports : Live(onu[p]) => onu[p].start = slot[p]

Carried ==
  /\ trunk \in Seq(TrunkGates) /\ down \in [Ports -> Seq(FibreGates)]
  /\ GatesOnTrunk /\ GatesOnFibres /\ LiveSlots

PonInv ==
  /\ PollerInv
  /\ onu \in [Ports -> Onus] /\ \A p \in Ports : Timed(onu[p])
  /\ Carried
  /\ split \in Splitters /\ up \in [Ports -> Seq(Frames)]

\* One at most, first in its sequence.
LEMMA FirstOnly ==
  ASSUME NEW T, NEW s \in Seq(T), Len(s) <= 1
  PROVE  /\ Len(s) \in {0, 1} /\ (s = <<>> <=> Len(s) = 0)
         /\ s # <<>> => Len(s) = 1 /\ s[1] \in T /\ Head(s) = s[1] /\ Tail(s) = <<>>
<1>1. Len(s) \in Nat /\ (s = <<>> <=> Len(s) = 0)
  BY LenProperties, EmptySeq
<1>2. Len(s) \in {0, 1}
  <2>1. \A n \in Nat : n <= 1 => n \in {0, 1}
    OBVIOUS
  <2> QED BY <1>1, <2>1
<1>3. ASSUME s # <<>>
      PROVE  Len(s) = 1 /\ s[1] \in T /\ Head(s) = s[1] /\ Tail(s) = <<>>
  <2>1. Tail(s) \in Seq(T) /\ Len(Tail(s)) = Len(s) - 1 /\ Head(s) = s[1] /\ Head(s) \in T
    BY <1>3, TailFacts
  <2>2. Len(s) = 1
    BY <1>1, <1>2, <1>3
  <2>3. Tail(s) = <<>>
    <3>1. Len(Tail(s)) = 0
      BY <2>1, <2>2
    <3>2. \A t \in Seq(T) : Len(t) = 0 => t = <<>>
      BY EmptySeq
    <3> QED BY <2>1, <3>1, <3>2
  <2> QED BY <2>1, <2>2, <2>3
<1> QED BY <1>1, <1>2, <1>3

LEMMA OnlyFirst ==
  ASSUME NEW s, Len(s) \in {0, 1}, NEW k \in 1 .. Len(s)
  PROVE  k = 1 /\ s # <<>>
<1>1. CASE Len(s) = 0
  BY <1>1
<1>2. CASE Len(s) = 1
  <2>1. s # <<>>
    BY <1>2, NotEmpty
  <2> QED BY <1>2, <2>1
<1> QED BY <1>1, <1>2

LEMMA TrunkTyped ==
  ASSUME Carried
  PROVE  /\ Len(trunk) \in {0, 1} /\ (trunk = <<>> <=> Len(trunk) = 0)
         /\ trunk # <<>> =>
              /\ Len(trunk) = 1 /\ Head(trunk) = trunk[1] /\ Tail(trunk) = <<>>
              /\ trunk[1].to \in Ports /\ trunk[1].start \in Int /\ trunk[1].in \in Nat
<1>1. trunk \in Seq(TrunkGates) /\ Len(trunk) <= 1
  BY DEF Carried, GatesOnTrunk
<1>2. \A g \in TrunkGates : g.to \in Ports /\ g.start \in Int /\ g.in \in Nat
  BY DEF TrunkGates
<1> QED BY <1>1, <1>2, FirstOnly

LEMMA FibreTyped ==
  ASSUME Carried, NEW p \in Ports
  PROVE  /\ down[p] \in Seq(FibreGates) /\ Len(down[p]) \in {0, 1}
         /\ down[p] = <<>> <=> Len(down[p]) = 0
         /\ down[p] # <<>> => /\ Len(down[p]) = 1 /\ Head(down[p]) = down[p][1] /\ Tail(down[p]) = <<>>
                              /\ down[p][1].start \in Int /\ down[p][1].in \in Nat
<1>1. down[p] \in Seq(FibreGates) /\ Len(down[p]) <= 1
  BY DEF Carried, GatesOnFibres
<1>2. \A g \in FibreGates : g.start \in Int /\ g.in \in Nat
  BY DEF FibreGates
<1> QED BY <1>1, <1>2, FirstOnly

\* Nothing changes on the fibres, and no ONU gets a slot.
LEMMA CarriedKept ==
  ASSUME Carried, trunk' = trunk, down' = down, slot' = slot,
         \A p \in Ports : Live(onu'[p]) => Live(onu[p]) /\ onu'[p].start = onu[p].start
  PROVE  Carried'
<1>1. GatesOnTrunk'
  BY TrunkTyped DEF Carried, GatesOnTrunk, Coming
<1>2. GatesOnFibres'
  BY DEF Carried, GatesOnFibres, Coming
<1>3. LiveSlots'
  BY DEF Carried, LiveSlots
<1> QED BY <1>1, <1>2, <1>3 DEF Carried

-----------------------------------------------------------------------------
(* The steps of the PON *)

LEMMA PonOnus ==
  ASSUME PonInv, NEW p \in Ports
  PROVE  onu[p] \in Onus /\ Timed(onu[p]) /\ onu \in [Ports -> Onus]
BY DEF PonInv

LEMMA OnuStarts ==
  /\ OnuInit(NumQueues) \in Onus /\ Timed(OnuInit(NumQueues)) /\ ~ Live(OnuInit(NumQueues))
  /\ OnuInit(NumQueues).mac.queue = <<>>
<1>s. PICK s : s = OnuInit(NumQueues)
  OBVIOUS
<1>q. PICK q : q = [pon |-> [i \in 1 .. NumQueues |-> <<>>], next |-> 1, allEmpty |-> TRUE]
  OBVIOUS
<1>1. q \in Queues
  <2>1. <<>> \in Seq(HostFrame) /\ Len(<<>>) = 0
    BY EmptySeq
  <2>2. 1 \in 1 .. NumQueues /\ 0 <= QueueLimit
    BY Parameters
  <2>3. q.pon = [i \in 1 .. NumQueues |-> <<>>] /\ q.next = 1 /\ q.allEmpty = TRUE
    BY <1>q
  <2>4. q \in RoundRobins(NumQueues, HostFrame)
    BY <1>q, <2>1, <2>2 DEF RoundRobins
  <2>5. \A i \in 1 .. NumQueues : Len(q.pon[i]) <= QueueLimit
    BY <2>1, <2>2, <2>3
  <2> QED BY <2>4, <2>5 DEF Queues
<1>2. MacInit \in Macs
  BY Parameters DEF MacInit, Macs, Timer
<1>3. s = [polled |-> FALSE, start |-> 0, len |-> 0, startTx |-> None, report |-> None,
           tmp |-> <<>>, link |-> <<>>, mac |-> MacInit, error |-> FALSE, q |-> q]
  BY <1>s, <1>q DEF OnuInit
<1>4. s \in Onus
  <2>1. None \in Timer /\ <<>> \in Links /\ <<>> \in Seq(HostFrame) /\ 0 \in Int
    BY DEF Timer, Links
  <2> QED BY <1>1, <1>2, <1>3, <2>1 DEF Onus
<1>5. /\ s.polled = FALSE /\ s.startTx = None /\ s.report = None /\ s.link = <<>>
      /\ s.mac.queue = <<>>
  BY <1>3 DEF MacInit
<1>6. Linked(s)
  <2>1. s.q = q /\ q.pon = [i \in 1 .. NumQueues |-> <<>>]
    BY <1>q, <1>3
  <2>2. NoFrame(q.pon)
    <3>1. Len(q.pon) = NumQueues
      BY <1>q, Parameters
    <3> QED BY <2>1, <3>1 DEF NoFrame
  <2> QED BY <1>5, <2>1, <2>2, OnLink DEF Linked
<1>7. Timed(s) /\ ~ Live(s)
  BY <1>5, <1>6 DEF Timed, Live
<1> QED BY <1>s, <1>4, <1>5, <1>7

LEMMA PonStarts == Init => PonInv
<1> SUFFICES ASSUME Init PROVE PonInv
  OBVIOUS
<1>1. PollerInv
  BY PollerStarts DEF Init
<1>2. onu = [p \in Ports |-> OnuInit(NumQueues)]
  BY DEF Init
<1>3. \A p \in Ports : onu[p] \in Onus /\ Timed(onu[p]) /\ ~ Live(onu[p])
  BY <1>2, OnuStarts
<1>4. onu \in [Ports -> Onus]
  BY <1>2, OnuStarts
<1>5. trunk = <<>> /\ \A p \in Ports : down[p] = <<>>
  BY DEF Init
<1>6. /\ trunk \in Seq(TrunkGates) /\ Len(trunk) = 0
      /\ down \in [Ports -> Seq(FibreGates)] /\ \A p \in Ports : Len(down[p]) = 0
      /\ up \in [Ports -> Seq(Frames)]
  <2>1. <<>> \in Seq(FibreGates) /\ <<>> \in Seq(TrunkGates) /\ <<>> \in Seq(Frames) /\ Len(<<>>) = 0
    BY EmptySeq
  <2> QED BY <1>5, <2>1 DEF Init
<1>7. Carried
  <2>1. GatesOnTrunk
    BY <1>6 DEF GatesOnTrunk
  <2>2. GatesOnFibres
    BY <1>5, <1>6 DEF GatesOnFibres
  <2>3. LiveSlots
    BY <1>3 DEF LiveSlots
  <2> QED BY <1>6, <2>1, <2>2, <2>3 DEF Carried
<1>8. split \in Splitters
  <2>1. 0 \in 0 .. HaltOn
    BY Parameters
  <2> QED BY <2>1 DEF Init, SplitterInit, Splitters
<1> QED BY <1>1, <1>3, <1>4, <1>6, <1>7, <1>8 DEF PonInv

(***************************************************************************)
(* One ONU does what OnuStep allows, and nothing else changes.             *)
(***************************************************************************)
OnuActs(p) ==
  /\ OnuStep(onu[p], onu'[p])
  /\ onu' = [onu EXCEPT ![p] = onu'[p]]
  /\ UNCHANGED <<pollerVars, trunk, down, up, split>>

LEMMA OnuActions ==
  ASSUME PonInv, PollingTimes, NEW p \in Ports,
         FrameArrives(p) \/ LinkDelivers(p) \/ StartTx(p) \/ ReportTime(p)
  PROVE  OnuActs(p)
<1>0. onu[p] \in Onus /\ Timed(onu[p]) /\ onu \in [Ports -> Onus]
  BY PonOnus
<1>u. UNCHANGED <<pollerVars, trunk, down, up, split>>
  BY DEF FrameArrives, LinkDelivers, StartTx, ReportTime
<1>e. ASSUME NEW t, onu' = [onu EXCEPT ![p] = t], OnuStep(onu[p], t)
      PROVE  OnuActs(p)
  <2>1. onu'[p] = t
    BY <1>0, <1>e
  <2> QED BY <1>u, <1>e, <2>1 DEF OnuActs
<1>1. CASE FrameArrives(p)
  <2>1. ~ WakeOn(onu[p].link)
    BY <1>1 DEF FrameArrives, WakeOn
  <2>2. PICK i \in 1 .. NumQueues, air \in Airs :
          onu' = [onu EXCEPT ![p].q = EnqueueFrame(@, i, [air |-> air, data |-> TRUE]),
                             ![p].link = @ \o WakeUpFor(onu[p].q)]
    BY <1>1 DEF FrameArrives
  <2>3. [air |-> air, data |-> TRUE] \in HostFrame
    BY DEF HostFrame
  <2>4. onu' = [onu EXCEPT ![p] = [onu[p] EXCEPT
                  !.q = EnqueueFrame(@, i, [air |-> air, data |-> TRUE]),
                  !.link = @ \o WakeUpFor(onu[p].q)]]
    BY <1>0, <2>2 DEF Onus
  <2> QED BY <1>0, <1>e, <2>1, <2>3, <2>4, EnqueuedFacts
<1>2. CASE LinkDelivers(p)
  <2>1. onu[p].link # <<>>
        /\ onu' = [onu EXCEPT ![p] = FromHigherLayer([onu[p] EXCEPT !.link = Tail(@)], Head(onu[p].link))]
    BY <1>2 DEF LinkDelivers
  <2> QED BY <1>0, <1>e, <2>1, DeliveredFacts
<1>3. CASE StartTx(p)
  <2>1. onu[p].startTx = 0 /\ onu' = [onu EXCEPT ![p] = StartTxFires(onu[p])]
    BY <1>3 DEF StartTx
  <2> QED BY <1>0, <1>e, <2>1, StartTxFiresFacts
<1>4. CASE ReportTime(p)
  <2>1. onu[p].report = 0 /\ onu' = [onu EXCEPT ![p] = ReportFires(onu[p])]
    BY <1>4 DEF ReportTime
  <2> QED BY <1>0, <1>e, <2>1, ReportFiresFacts
<1> QED BY <1>1, <1>2, <1>3, <1>4

\* One ONU changes, without a new slot.
LEMMA OneOnuChanges ==
  ASSUME PonInv, NEW p \in Ports, NEW t \in Onus, Timed(t), Same(onu[p], t),
         onu' = [onu EXCEPT ![p] = t],
         UNCHANGED <<pollerVars, trunk, down>>, split' \in Splitters, up' \in [Ports -> Seq(Frames)]
  PROVE  PonInv'
<1>1. PollerInv'
  BY DEF PonInv, PollerInv, pollerVars, Poller!TypeOK, Poller!Past, Poller!Onus, Scheduled, Past,
         Poller!GrantsDisjoint
<1>2. onu \in [Ports -> Onus] /\ \A q \in Ports : Timed(onu[q])
  BY DEF PonInv
<1>3. \A q \in Ports : onu'[q] = IF q = p THEN t ELSE onu[q]
  BY <1>2
<1>4. onu' \in [Ports -> Onus] /\ \A q \in Ports : Timed(onu'[q])
  BY <1>2, <1>3
<1>5. \A q \in Ports : Live(onu'[q]) => Live(onu[q]) /\ onu'[q].start = onu[q].start
  <2>1. (Live(t) <=> Live(onu[p])) /\ t.start = onu[p].start
    BY DEF Same, Live, End
  <2> QED BY <1>3, <2>1
<1>6. Carried'
  <2>1. Carried /\ trunk' = trunk /\ down' = down /\ slot' = slot
    BY DEF PonInv, pollerVars
  <2> QED BY <1>5, <2>1, CarriedKept
<1> QED BY <1>1, <1>4, <1>6 DEF PonInv

LEMMA OnuActsKeeps ==
  ASSUME PonInv, NEW p \in Ports, OnuActs(p)
  PROVE  PonInv'
<1>1. onu'[p] \in Onus /\ Timed(onu'[p]) /\ Same(onu[p], onu'[p])
  BY DEF OnuActs, OnuStep
<1>2. /\ onu' = [onu EXCEPT ![p] = onu'[p]] /\ UNCHANGED <<pollerVars, trunk, down>>
      /\ split' \in Splitters /\ up' \in [Ports -> Seq(Frames)]
  BY DEF OnuActs, PonInv
<1> QED BY <1>1, <1>2, OneOnuChanges

\* A GATE that comes belongs to a slot that is not over.
LEMMA ComingFacts ==
  ASSUME NEW start \in Int, NEW in \in Nat, NEW a \in Int, NEW s, PollingTimes,
         Coming(start, in, a, s)
  PROVE  a + Window > 0 /\ start = a /\ ~ Live(s) /\ RepLead <= a + Window
<1>1. in + RepLead <= a + Window /\ start = a /\ ~ Live(s)
  BY DEF Coming
<1>2. RepLead >= 1
  BY Parameters DEF PollingTimes
<1> QED BY <1>1, <1>2, Parameters

LEMMA DistTyped == \A p \in Ports : Dist[p] \in Nat
BY PonParameters

LEMMA RegisterKeeps ==
  ASSUME PonInv, Register
  PROVE  PonInv'
<1>1. Poller!Register /\ UNCHANGED <<onu, trunk, down, up, split>> /\ PollerInv /\ Carried
  BY DEF Register, PonInv
<1>2. PollerInv' /\ slot' = slot
  BY <1>1, PollerRegister
<1>3. Carried'
  BY <1>1, <1>2, CarriedKept
<1> QED BY <1>1, <1>2, <1>3 DEF PonInv

\* When a GATE is sent, every slot is over and no other GATE is on its way.
LEMMA NothingComes ==
  ASSUME PonInv, PollingTimes, \A p \in Ports : slot[p] + Window <= 0
  PROVE  /\ trunk = <<>> /\ \A p \in Ports : down[p] = <<>> /\ ~ Live(onu[p])
<1>0. Carried /\ PollerInv
  BY DEF PonInv
<1>1. \A p \in Ports : slot[p] \in Int /\ ~ (slot[p] + Window > 0)
  BY <1>0, PollerTyped, Parameters
<1>2. trunk = <<>>
  <2> SUFFICES ASSUME trunk # <<>> PROVE FALSE
    OBVIOUS
  <2>g. PICK g : g = trunk[1]
    OBVIOUS
  <2>1. g.to \in Ports /\ g.start \in Int /\ g.in \in Nat
    BY <1>0, <2>g, TrunkTyped
  <2>2. Coming(g.start, g.in + Dist[g.to], slot[g.to], onu[g.to])
    BY <1>0, <2>g DEF Carried, GatesOnTrunk
  <2>3. g.in + Dist[g.to] \in Nat
    BY <2>1, DistTyped
  <2> QED BY <1>1, <2>1, <2>2, <2>3, ComingFacts
<1>3. ASSUME NEW p \in Ports PROVE down[p] = <<>>
  <2> SUFFICES ASSUME down[p] # <<>> PROVE FALSE
    OBVIOUS
  <2>g. PICK g : g = down[p][1]
    OBVIOUS
  <2>1. g.start \in Int /\ g.in \in Nat
    BY <1>0, <2>g, FibreTyped
  <2>2. Coming(g.start, g.in, slot[p], onu[p])
    BY <1>0, <2>g DEF Carried, GatesOnFibres
  <2> QED BY <1>1, <2>1, <2>2, ComingFacts
<1>4. ASSUME NEW p \in Ports PROVE ~ Live(onu[p])
  <2> SUFFICES ASSUME Live(onu[p]) PROVE FALSE
    OBVIOUS
  <2>1. End(onu[p]) = onu[p].start + Window /\ End(onu[p]) > 0
    BY PonOnus, LiveFacts DEF Live
  <2>2. onu[p].start = slot[p]
    BY <1>0 DEF Carried, LiveSlots
  <2> QED BY <1>1, <2>1, <2>2
<1> QED BY <1>2, <1>3, <1>4

LEMMA SendGateKeeps ==
  ASSUME PonInv, PollingTimes, SendGate
  PROVE  PonInv'
<1>1. Poller!SendSingleGate /\ UNCHANGED <<onu, down, up, split>> /\ PollerInv /\ Carried
  BY DEF SendGate, PonInv
<1>2. /\ PollerInv' /\ next \in Ports /\ comTime[next] = Guard
      /\ \A p \in Ports : slot[p] + Window <= 0
      /\ slot' = [slot EXCEPT ![next] = Guard]
  BY <1>1, PollerSends
<1>3. trunk = <<>> /\ \A p \in Ports : down[p] = <<>> /\ ~ Live(onu[p])
  BY <1>2, NothingComes
<1>4. PICK d \in GateDelays :
        trunk' = Append(trunk, [to |-> next, start |-> comTime[next], in |-> d])
  BY DEF SendGate
<1>g. PICK g : g = [to |-> next, start |-> Guard, in |-> d]
  OBVIOUS
<1>5. /\ g.to = next /\ g.start = Guard /\ g.in = d /\ d \in Nat
      /\ g \in TrunkGates
  <2>1. d \in Nat /\ Guard \in Int
    BY PonParameters, Parameters
  <2> QED BY <1>2, <1>g, <2>1 DEF TrunkGates
<1>6. /\ trunk' \in Seq(TrunkGates) /\ Len(trunk') = 1 /\ trunk'[1] = g
  <2>1. trunk' = <<g>>
    BY <1>2, <1>3, <1>4, <1>g
  <2> QED BY <1>5, <2>1
<1>7. GatesOnTrunk'
  <2>1. d + Dist[next] + RepLead <= Guard + Window
    BY <1>2, DistTyped, Parameters DEF PollingTimes
  <2>2. slot'[next] = Guard
    BY <1>1, <1>2, PollerTyped
  <2>3. Coming(g.start, g.in + Dist[g.to], slot'[g.to], onu'[g.to])
    BY <1>1, <1>2, <1>3, <1>5, <2>1, <2>2 DEF Coming
  <2>4. down'[g.to] = <<>>
    BY <1>1, <1>2, <1>3, <1>5
  <2>5. Len(trunk') <= 1
    BY <1>6
  <2> QED BY <1>6, <2>3, <2>4, <2>5 DEF GatesOnTrunk
<1>8. GatesOnFibres'
  BY <1>1, <1>3 DEF Carried, GatesOnFibres
<1>9. LiveSlots'
  BY <1>1, <1>3 DEF LiveSlots
<1>10. Carried'
  BY <1>1, <1>6, <1>7, <1>8, <1>9 DEF Carried
<1> QED BY <1>1, <1>2, <1>10 DEF PonInv

LEMMA GateAtSplitterKeeps ==
  ASSUME PonInv, PollingTimes, GateAtSplitter
  PROVE  PonInv'
<1>g. PICK g : g = trunk[1]
  OBVIOUS
<1>0. Carried /\ UNCHANGED <<pollerVars, onu, up>> /\ trunk # <<>>
  BY DEF PonInv, GateAtSplitter
<1>1. /\ Head(trunk) = g /\ Tail(trunk) = <<>>
      /\ g.to \in Ports /\ g.start \in Int /\ g.in \in Nat
  BY <1>0, <1>g, TrunkTyped
<1>2. g.in = 0 /\ trunk' = <<>> /\ split' = Downstream(split, 1)
  BY <1>1 DEF GateAtSplitter
<1>3. Coming(g.start, Dist[g.to], slot[g.to], onu[g.to]) /\ down[g.to] = <<>>
  <2>1. Coming(g.start, g.in + Dist[g.to], slot[g.to], onu[g.to]) /\ down[g.to] = <<>>
    BY <1>0, <1>g DEF Carried, GatesOnTrunk
  <2>2. g.in + Dist[g.to] = Dist[g.to]
    BY <1>1, <1>2, DistTyped
  <2> QED BY <2>1, <2>2
<1>h. PICK h : h = [start |-> g.start, in |-> Dist[g.to]]
  OBVIOUS
<1>4. h \in FibreGates /\ h.start = g.start /\ h.in = Dist[g.to]
  BY <1>1, <1>h, DistTyped DEF FibreGates
<1>5. down' = down \/ down' = [down EXCEPT ![g.to] = <<h>>]
  <2>1. down' = IF g.to \in Reached(split)
                THEN [down EXCEPT ![g.to] = Append(down[g.to], h)]
                ELSE down
    BY <1>1, <1>h DEF GateAtSplitter
  <2>2. Append(down[g.to], h) = <<h>>
    BY <1>3
  <2> QED BY <2>1, <2>2
<1>6. \A p \in Ports : down'[p] = down[p] \/ (p = g.to /\ down'[p] = <<h>>)
  BY <1>0, <1>1, <1>5 DEF Carried
<1>7. <<h>> \in Seq(FibreGates) /\ Len(<<h>>) = 1 /\ <<h>>[1] = h
  BY <1>4
<1>8. down' \in [Ports -> Seq(FibreGates)]
  BY <1>0, <1>5, <1>7 DEF Carried
<1>9. GatesOnFibres'
  <2> SUFFICES ASSUME NEW p \in Ports
               PROVE  /\ Len(down'[p]) <= 1
                      /\ down'[p] # <<>> => Coming(down'[p][1].start, down'[p][1].in, slot[p], onu[p])
    BY <1>0 DEF GatesOnFibres, pollerVars
  <2>1. CASE down'[p] = down[p]
    BY <1>0, <2>1 DEF Carried, GatesOnFibres
  <2>2. CASE p = g.to /\ down'[p] = <<h>>
    BY <1>3, <1>4, <1>7, <2>2
  <2> QED BY <1>6, <2>1, <2>2
<1>10. trunk' \in Seq(TrunkGates) /\ GatesOnTrunk'
  <2>1. <<>> \in Seq(TrunkGates) /\ Len(<<>>) <= 1
    BY EmptySeq
  <2> QED BY <1>2, <2>1 DEF GatesOnTrunk
<1>11. LiveSlots'
  BY <1>0 DEF Carried, LiveSlots, pollerVars
<1>12. PollerInv'
  BY <1>0 DEF PonInv, PollerInv, pollerVars, Poller!TypeOK, Poller!Past, Poller!Onus, Scheduled, Past,
         Poller!GrantsDisjoint
<1>13. split' \in Splitters
  <2>1. [p \in Ports |-> IF p \in Reached(split) THEN 1 ELSE split.down[p]] \in [Ports -> Nat]
    BY DEF PonInv, Splitters
  <2> QED BY <1>2, <2>1 DEF PonInv, Splitters, Downstream
<1> QED BY <1>0, <1>8, <1>9, <1>10, <1>11, <1>12, <1>13 DEF PonInv, Carried

\* The slot of the GATE is the slot of the ONU now.
LEMMA GateAtOnuFacts ==
  ASSUME PonInv, PollingTimes, NEW p \in Ports, GateAtOnu(p)
  PROVE  /\ onu' = [onu EXCEPT ![p] = onu'[p]] /\ onu'[p] \in Onus /\ Timed(onu'[p])
         /\ ~ Live(onu[p]) /\ Live(onu'[p]) /\ onu'[p].start = slot[p] /\ onu'[p].mac = onu[p].mac
         /\ slot[p] <= At(onu'[p]) /\ slot[p] + Window > 0
         /\ down' = [down EXCEPT ![p] = <<>>] /\ down[p] # <<>>
<1>g. PICK g : g = down[p][1]
  OBVIOUS
<1>0. Carried /\ PollerInv /\ down[p] # <<>>
  BY DEF PonInv, GateAtOnu
<1>1. Head(down[p]) = g /\ Tail(down[p]) = <<>> /\ g.start \in Int /\ g.in \in Nat
  BY <1>0, <1>g, FibreTyped
<1>2. Coming(g.start, g.in, slot[p], onu[p])
  BY <1>0, <1>g DEF Carried, GatesOnFibres
<1>3. slot[p] \in Int /\ slot[p] <= Guard
  BY <1>0, PollerTyped
<1>4. slot[p] + Window > 0 /\ g.start = slot[p] /\ ~ Live(onu[p]) /\ RepLead <= slot[p] + Window
  BY <1>1, <1>2, <1>3, ComingFacts
<1>5. onu[p] \in Onus /\ Timed(onu[p]) /\ onu \in [Ports -> Onus]
  BY PonOnus
<1>t. PICK t : t = ProcessGate(onu[p], slot[p], Window)
  OBVIOUS
<1>6. t \in Onus /\ Timed(t) /\ Live(t) /\ t.start = slot[p] /\ t.mac = onu[p].mac /\ At(t) >= slot[p]
  BY <1>0, <1>3, <1>4, <1>5, <1>t, GateFacts
<1>7. onu' = [onu EXCEPT ![p] = t] /\ down' = [down EXCEPT ![p] = <<>>]
  BY <1>1, <1>4, <1>t DEF GateAtOnu
<1>8. onu'[p] = t
  BY <1>5, <1>7
<1>9. At(t) \in Nat
  BY <1>6, OnuTyped
<1> QED BY <1>0, <1>3, <1>4, <1>6, <1>7, <1>8, <1>9

LEMMA GateAtOnuKeeps ==
  ASSUME PonInv, PollingTimes, NEW p \in Ports, GateAtOnu(p)
  PROVE  PonInv'
<1>t. PICK t : t = onu'[p]
  OBVIOUS
<1>1. /\ onu' = [onu EXCEPT ![p] = t] /\ t \in Onus /\ Timed(t) /\ t.start = slot[p]
      /\ down' = [down EXCEPT ![p] = <<>>] /\ down[p] # <<>>
  BY <1>t, GateAtOnuFacts
<1>0. Carried /\ UNCHANGED <<pollerVars, trunk, up, split>> /\ onu \in [Ports -> Onus]
      /\ \A q \in Ports : Timed(onu[q])
  BY DEF PonInv, GateAtOnu
<1>2. \A q \in Ports : onu'[q] = (IF q = p THEN t ELSE onu[q]) /\ down'[q] = (IF q = p THEN <<>> ELSE down[q])
  BY <1>0, <1>1 DEF Carried
<1>3. onu' \in [Ports -> Onus] /\ \A q \in Ports : Timed(onu'[q])
  BY <1>0, <1>1, <1>2
<1>4. down' \in [Ports -> Seq(FibreGates)]
  <2>1. <<>> \in Seq(FibreGates)
    BY EmptySeq
  <2> QED BY <1>0, <1>1, <2>1 DEF Carried
<1>5. GatesOnFibres'
  <2> SUFFICES ASSUME NEW q \in Ports
               PROVE  /\ Len(down'[q]) <= 1
                      /\ down'[q] # <<>> => Coming(down'[q][1].start, down'[q][1].in, slot[q], onu'[q])
    BY <1>0 DEF GatesOnFibres, pollerVars
  <2>1. CASE q = p
    <3>1. Len(<<>>) <= 1
      BY EmptySeq
    <3> QED BY <1>2, <2>1, <3>1
  <2>2. CASE q # p
    BY <1>0, <1>2, <2>2 DEF Carried, GatesOnFibres
  <2> QED BY <2>1, <2>2
<1>6. GatesOnTrunk'
  <2>g. PICK g : g = trunk[1]
    OBVIOUS
  <2>1. Len(trunk) <= 1 /\ trunk' = trunk /\ slot' = slot
    BY <1>0 DEF Carried, GatesOnTrunk, pollerVars
  <2>2. trunk # <<>> => Coming(g.start, g.in + Dist[g.to], slot[g.to], onu'[g.to]) /\ down'[g.to] = <<>>
    <3> HAVE trunk # <<>>
    <3>1. /\ Coming(g.start, g.in + Dist[g.to], slot[g.to], onu[g.to]) /\ down[g.to] = <<>>
          /\ g.to \in Ports
      BY <1>0, <2>g, TrunkTyped DEF Carried, GatesOnTrunk
    <3>2. g.to # p
      BY <1>1, <3>1
    <3> QED BY <1>2, <3>1, <3>2
  <2> QED BY <2>g, <2>1, <2>2 DEF GatesOnTrunk
<1>7. LiveSlots'
  BY <1>0, <1>1, <1>2 DEF Carried, LiveSlots, pollerVars
<1>8. PollerInv'
  BY <1>0 DEF PonInv, PollerInv, pollerVars, Poller!TypeOK, Poller!Past, Poller!Onus, Scheduled, Past,
         Poller!GrantsDisjoint
<1> QED BY <1>0, <1>3, <1>4, <1>5, <1>6, <1>7, <1>8 DEF PonInv, Carried

LEMMA MacTimerSteps ==
  ASSUME PonInv, NEW p \in Ports, MacTimer(p)
  PROVE  LET m == onu[p].mac
             f == [in |-> Dist[p], air |-> Head(m.queue).air + Extra]
         IN  /\ onu' = [onu EXCEPT ![p] = onu'[p]] /\ onu'[p] \in Onus /\ Timed(onu'[p])
             /\ Same(onu[p], onu'[p]) /\ At(onu'[p]) = At(onu[p])
             /\ m \in Macs /\ m.timer = 0 /\ onu'[p].mac = AfterTimer(m)
             /\ Departs(m) => up' = [up EXCEPT ![p] = Append(@, f)] /\ f \in Frames
             /\ ~ Departs(m) => up' = up
<1>0. /\ onu[p] \in Onus /\ Timed(onu[p]) /\ onu \in [Ports -> Onus]
      /\ onu[p].mac.timer = 0 /\ onu' = [onu EXCEPT ![p] = MacTimerFires(onu[p])]
  BY PonOnus DEF MacTimer
<1>1. onu'[p] = MacTimerFires(onu[p])
  BY <1>0
<1>2. onu[p].mac \in Macs
  BY <1>0, OnuTyped
<1>f. PICK f : f = [in |-> Dist[p], air |-> Head(onu[p].mac.queue).air + Extra]
  OBVIOUS
<1>3. Departs(onu[p].mac) => up' = [up EXCEPT ![p] = Append(@, f)]
  BY <1>f DEF MacTimer, Departs
<1>4. ~ Departs(onu[p].mac) => up' = up
  BY DEF MacTimer, Departs
<1>5. Departs(onu[p].mac) => f \in Frames
  <2> HAVE Departs(onu[p].mac)
  <2>1. Head(onu[p].mac.queue).air + Extra \in Nat \ {0}
    BY <1>0, <1>2, DepartsFacts
  <2> QED BY <1>f, <2>1, DistTyped DEF Frames
<1>6. LET t == MacTimerFires(onu[p])
      IN  /\ t \in Onus /\ Timed(t) /\ Same(onu[p], t) /\ At(t) = At(onu[p])
          /\ t.mac = AfterTimer(onu[p].mac)
  BY <1>0, MacTimerOnu
<1> QED BY <1>0, <1>1, <1>2, <1>3, <1>4, <1>5, <1>6, <1>f

LEMMA MacTimerKeeps ==
  ASSUME PonInv, NEW p \in Ports, MacTimer(p)
  PROVE  PonInv'
<1>f. PICK f : f = [in |-> Dist[p], air |-> Head(onu[p].mac.queue).air + Extra]
  OBVIOUS
<1>1. /\ onu' = [onu EXCEPT ![p] = onu'[p]] /\ onu'[p] \in Onus /\ Timed(onu'[p])
      /\ Same(onu[p], onu'[p])
      /\ up' = up \/ (up' = [up EXCEPT ![p] = Append(@, f)] /\ f \in Frames)
  BY <1>f, MacTimerSteps
<1>2. UNCHANGED <<pollerVars, trunk, down>> /\ split' \in Splitters /\ up \in [Ports -> Seq(Frames)]
  BY DEF PonInv, MacTimer
<1>3. up' \in [Ports -> Seq(Frames)]
  <2>1. ASSUME up' = [up EXCEPT ![p] = Append(@, f)], f \in Frames
        PROVE  up' \in [Ports -> Seq(Frames)]
    <3>1. Append(up[p], f) \in Seq(Frames)
      BY <1>2, <2>1, AppendProperties
    <3> QED BY <1>2, <2>1, <3>1
  <2> QED BY <1>1, <1>2, <2>1
<1> QED BY <1>1, <1>2, <1>3, OneOnuChanges

LEMMA FrameAtSplitterKeeps ==
  ASSUME PonInv, NEW p \in Ports, FrameAtSplitter(p)
  PROVE  PonInv'
<1>1. /\ UNCHANGED <<pollerVars, onu, trunk, down>> /\ up[p] # <<>>
      /\ up' = [up EXCEPT ![p] = Tail(@)] /\ split' = Upstream(split, Head(up[p]).air)
      /\ up \in [Ports -> Seq(Frames)] /\ split \in Splitters
  BY DEF FrameAtSplitter, PonInv
<1>2. Tail(up[p]) \in Seq(Frames) /\ Head(up[p]) \in Frames
  <2>1. up[p] \in Seq(Frames)
    BY <1>1
  <2> QED BY <1>1, <2>1, TailFacts
<1>3. up' \in [Ports -> Seq(Frames)]
  BY <1>1, <1>2
<1>4. split' \in Splitters
  <2>a. PICK air : air = Head(up[p]).air
    OBVIOUS
  <2>1. air \in Nat
    BY <1>2, <2>a DEF Frames
  <2>c. PICK col : col = IF split.col < HaltOn THEN split.col + 1 ELSE split.col
    OBVIOUS
  <2>2. col \in 0 .. HaltOn
    <3>1. split.col \in 0 .. HaltOn
      BY <1>1 DEF Splitters
    <3> QED BY <2>c, <3>1, Parameters
  <2>3. split' = IF split.busy > 0 THEN [split EXCEPT !.col = col] ELSE [split EXCEPT !.busy = air]
    BY <1>1, <2>a, <2>c DEF Upstream
  <2> QED BY <1>1, <2>1, <2>2, <2>3 DEF Splitters
<1>5. PollerInv'
  BY <1>1 DEF PonInv, PollerInv, pollerVars, Poller!TypeOK, Poller!Past, Poller!Onus, Scheduled, Past,
         Poller!GrantsDisjoint
<1>6. Carried'
  <2>1. Carried /\ trunk' = trunk /\ down' = down /\ slot' = slot /\ onu' = onu
    BY <1>1 DEF PonInv, pollerVars
  <2> QED BY <2>1, CarriedKept
<1> QED BY <1>1, <1>3, <1>4, <1>5, <1>6 DEF PonInv

\* Nothing that is on its way has arrived when time passes.
LEMMA TickOnFibres ==
  ASSUME PonInv, Tick
  PROVE  /\ trunk # <<>> => trunk[1].in # 0
         /\ \A p \in Ports : down[p] # <<>> => down[p][1].in # 0
<1>0. Carried
  BY DEF PonInv
<1>1. trunk # <<>> => Head(trunk) = trunk[1]
  BY <1>0, TrunkTyped
<1>2. \A p \in Ports : down[p] # <<>> => Head(down[p]) = down[p][1]
  BY <1>0, FibreTyped
<1> QED BY <1>1, <1>2 DEF Tick, Arriving

LEMMA TickKeeps ==
  ASSUME PonInv, PollingTimes, Tick
  PROVE  PonInv'
<1>0. /\ Carried /\ PollerInv /\ onu \in [Ports -> Onus] /\ \A p \in Ports : Timed(onu[p])
      /\ up \in [Ports -> Seq(Frames)] /\ split \in Splitters
  BY DEF PonInv
<1>1. Poller!Tick
  BY DEF Tick
<1>2. /\ PollerInv'
      /\ \A p \in Ports : slot'[p] = IF slot[p] > Past THEN slot[p] - 1 ELSE slot[p]
  BY <1>0, <1>1, PollerTick
<1>3. onu' = [p \in Ports |-> OnuTick(onu[p])] /\ \A p \in Ports : ~ OnuDue(onu[p])
  BY DEF Tick
<1>4. \A p \in Ports : onu'[p] \in Onus /\ Timed(onu'[p])
  BY <1>0, <1>3, TickOnu
<1>5. \A p \in Ports : Live(onu'[p]) => Live(onu[p]) /\ onu'[p].start = onu[p].start - 1
  BY <1>0, <1>3, TickOnu
<1>6. onu' \in [Ports -> Onus]
  BY <1>3, <1>4
<1>7. \A p \in Ports : slot[p] \in Int /\ (slot[p] + Window > 0 => slot'[p] = slot[p] - 1)
  <2> SUFFICES ASSUME NEW p \in Ports
               PROVE  slot[p] \in Int /\ (slot[p] + Window > 0 => slot'[p] = slot[p] - 1)
    OBVIOUS
  <2>1. slot[p] \in Int
    BY <1>0, PollerTyped
  <2>2. slot[p] + Window > 0 => slot[p] > Past
    BY <2>1, PollerPorts, Parameters
  <2> QED BY <1>2, <2>1, <2>2
\* what comes, comes a tick later to a slot that is a tick nearer
<1>8. ASSUME NEW p \in Ports, NEW start \in Int, NEW in \in Nat, NEW fewer \in Nat, in = fewer + 1,
             Coming(start, in, slot[p], onu[p])
      PROVE  Coming(start - 1, fewer, slot'[p], onu'[p])
  <2>1. slot[p] + Window > 0 /\ start = slot[p] /\ ~ Live(onu[p])
    BY <1>7, <1>8, ComingFacts
  <2>2. slot'[p] = slot[p] - 1 /\ ~ Live(onu'[p]) /\ slot[p] \in Int
    BY <1>5, <1>7, <2>1
  <2>3. in + RepLead <= slot[p] + Window
    BY <1>8 DEF Coming
  <2>4. fewer + RepLead <= (slot[p] - 1) + Window
    BY <1>8, <2>2, <2>3, Parameters
  <2> QED BY <2>1, <2>2, <2>4 DEF Coming
<1>9. trunk' \in Seq(TrunkGates) /\ GatesOnTrunk'
  <2>1. trunk' = Sooner(trunk) /\ trunk \in Seq(TrunkGates) /\ Len(trunk) \in {0, 1}
    BY <1>0, TrunkTyped DEF Tick, Carried
  <2>2. \A k \in 1 .. Len(trunk) : trunk[k].in # 0
    <3> SUFFICES ASSUME NEW k \in 1 .. Len(trunk) PROVE trunk[k].in # 0
      OBVIOUS
    <3>1. k = 1 /\ trunk # <<>>
      BY <2>1, OnlyFirst
    <3> QED BY <3>1, TickOnFibres
  <2>3. /\ trunk' \in Seq(TrunkGates) /\ Len(trunk') = Len(trunk)
        /\ \A k \in 1 .. Len(trunk) : /\ trunk'[k].in = trunk[k].in - 1 /\ trunk'[k].to = trunk[k].to
                                      /\ trunk'[k].start = trunk[k].start - 1
    BY <2>1, <2>2, SoonerOnTrunk
  <2>4. trunk' # <<>> => /\ Coming(trunk'[1].start, trunk'[1].in + Dist[trunk'[1].to],
                                   slot'[trunk'[1].to], onu'[trunk'[1].to])
                         /\ down'[trunk'[1].to] = <<>>
    <3> HAVE trunk' # <<>>
    <3>g. PICK g : g = trunk[1]
      OBVIOUS
    <3>1. Len(trunk') # 0
      BY <2>3, EmptySeq
    <3>2. trunk # <<>> /\ 1 \in 1 .. Len(trunk)
      BY <2>1, <2>3, <3>1, NotEmpty
    <3>3. /\ g.to \in Ports /\ g.start \in Int /\ g.in \in Nat /\ g.in # 0
          /\ Coming(g.start, g.in + Dist[g.to], slot[g.to], onu[g.to]) /\ down[g.to] = <<>>
      BY <1>0, <3>2, <3>g, TrunkTyped, TickOnFibres DEF Carried, GatesOnTrunk
    <3>4. trunk'[1].in = g.in - 1 /\ trunk'[1].to = g.to /\ trunk'[1].start = g.start - 1
      BY <2>3, <3>2, <3>g
    <3>n. PICK fewer : fewer = (g.in - 1) + Dist[g.to]
      OBVIOUS
    <3>5. fewer \in Nat /\ g.in + Dist[g.to] = fewer + 1 /\ g.in + Dist[g.to] \in Nat
      BY <3>3, <3>n, DistTyped
    <3>6. Coming(g.start - 1, fewer, slot'[g.to], onu'[g.to])
      BY <1>8, <3>3, <3>5
    <3>7. down'[g.to] = <<>>
      <4>1. down'[g.to] = Sooner(down[g.to]) /\ down[g.to] \in Seq(FibreGates)
        BY <1>0, <3>3 DEF Tick, Carried
      <4>2. Len(down[g.to]) = 0
        BY <3>3, EmptySeq
      <4>3. Sooner(down[g.to]) \in Seq(FibreGates) /\ Len(Sooner(down[g.to])) = 0
        BY <4>1, <4>2, SoonerOnFibre
      <4> QED BY <4>1, <4>3, EmptySeq
    <3> QED BY <3>4, <3>6, <3>7, <3>n
  <2>5. Len(trunk') <= 1
    BY <2>1, <2>3
  <2> QED BY <2>3, <2>4, <2>5 DEF GatesOnTrunk
<1>10. ASSUME NEW p \in Ports
       PROVE  /\ down'[p] \in Seq(FibreGates) /\ Len(down'[p]) <= 1
              /\ down'[p] # <<>> => Coming(down'[p][1].start, down'[p][1].in, slot'[p], onu'[p])
  <2>1. down'[p] = Sooner(down[p]) /\ down[p] \in Seq(FibreGates) /\ Len(down[p]) \in {0, 1}
    BY <1>0, FibreTyped DEF Tick
  <2>2. \A k \in 1 .. Len(down[p]) : down[p][k].in # 0
    <3> SUFFICES ASSUME NEW k \in 1 .. Len(down[p]) PROVE down[p][k].in # 0
      OBVIOUS
    <3>1. k = 1 /\ down[p] # <<>>
      BY <2>1, OnlyFirst
    <3> QED BY <3>1, TickOnFibres
  <2>3. /\ down'[p] \in Seq(FibreGates) /\ Len(down'[p]) = Len(down[p])
        /\ \A k \in 1 .. Len(down[p]) : /\ down'[p][k].in = down[p][k].in - 1
                                        /\ down'[p][k].start = down[p][k].start - 1
    BY <2>1, <2>2, SoonerOnFibre
  <2>4. down'[p] # <<>> => Coming(down'[p][1].start, down'[p][1].in, slot'[p], onu'[p])
    <3> HAVE down'[p] # <<>>
    <3>g. PICK g : g = down[p][1]
      OBVIOUS
    <3>1. Len(down'[p]) # 0
      BY <2>3, EmptySeq
    <3>2. down[p] # <<>> /\ 1 \in 1 .. Len(down[p])
      BY <2>1, <2>3, <3>1, NotEmpty
    <3>3. /\ g.start \in Int /\ g.in \in Nat /\ g.in # 0
          /\ Coming(g.start, g.in, slot[p], onu[p])
      BY <1>0, <3>2, <3>g, FibreTyped, TickOnFibres DEF Carried, GatesOnFibres
    <3>4. down'[p][1].in = g.in - 1 /\ down'[p][1].start = g.start - 1
      BY <2>3, <3>2, <3>g
    <3>n. PICK fewer : fewer = g.in - 1
      OBVIOUS
    <3>5. fewer \in Nat /\ g.in = fewer + 1
      BY <3>3, <3>n
    <3>6. Coming(g.start - 1, fewer, slot'[p], onu'[p])
      BY <1>8, <3>3, <3>5
    <3> QED BY <3>4, <3>6, <3>n
  <2>5. Len(down'[p]) <= 1
    BY <2>1, <2>3
  <2> QED BY <2>3, <2>4, <2>5
<1>11. down' \in [Ports -> Seq(FibreGates)]
  <2>1. down' = [p \in Ports |-> Sooner(down[p])]
    BY DEF Tick
  <2> QED BY <1>10, <2>1
<1>12. GatesOnFibres'
  BY <1>10 DEF GatesOnFibres
<1>13. LiveSlots'
  <2> SUFFICES ASSUME NEW p \in Ports, Live(onu'[p]) PROVE onu'[p].start = slot'[p]
    BY DEF LiveSlots
  <2>1. Live(onu[p]) /\ onu'[p].start = onu[p].start - 1
    BY <1>5
  <2>2. onu[p].start = slot[p] /\ End(onu[p]) = onu[p].start + Window /\ End(onu[p]) > 0
    BY <1>0, <2>1, LiveFacts DEF Carried, LiveSlots, Live
  <2> QED BY <1>7, <2>1, <2>2
<1>14. split' \in Splitters
  <2>1. \A t \in Nat : Ahead(t) \in Nat
    BY DEF Ahead
  <2>2. split.busy \in Nat /\ \A p \in Ports : split.down[p] \in Nat
    BY <1>0 DEF Splitters
  <2>d. PICK d : d = [p \in Ports |-> Ahead(split.down[p])]
    OBVIOUS
  <2>3. d \in [Ports -> Nat] /\ Ahead(split.busy) \in Nat
    BY <2>1, <2>2, <2>d
  <2>4. split' = [split EXCEPT !.busy = Ahead(@), !.down = d]
    BY <2>d DEF Tick, SplitterTick
  <2> QED BY <1>0, <2>3, <2>4 DEF Splitters
<1>15. up' \in [Ports -> Seq(Frames)]
  <2>1. up' = [p \in Ports |-> Nearer(up[p])]
    BY DEF Tick
  <2>2. ASSUME NEW p \in Ports PROVE Nearer(up[p]) \in Seq(Frames)
    BY <1>0, NearerFacts
  <2> QED BY <2>1, <2>2
<1> QED BY <1>0, <1>2, <1>4, <1>6, <1>9, <1>11, <1>12, <1>13, <1>14, <1>15 DEF PonInv, Carried

-----------------------------------------------------------------------------
(* What follows from the times of GATEs and REPORTs alone *)

LEMMA StepKeeps ==
  ASSUME PonInv, PollingTimes, [Next]_vars
  PROVE  PonInv'
<1>1. CASE UNCHANGED vars
  BY <1>1 DEF vars, pollerVars, PonInv, PollerInv, Poller!TypeOK, Poller!Past, Poller!Onus, Scheduled,
              Past, Poller!GrantsDisjoint, Carried, GatesOnTrunk, GatesOnFibres, LiveSlots
<1>2. CASE Register
  BY <1>2, RegisterKeeps
<1>3. CASE Event
  <2>1. CASE SendGate
    BY <2>1, SendGateKeeps
  <2>2. CASE GateAtSplitter
    BY <2>2, GateAtSplitterKeeps
  <2>3. ASSUME NEW p \in Ports, LinkDelivers(p) \/ StartTx(p) \/ ReportTime(p) PROVE PonInv'
    BY <2>3, OnuActions, OnuActsKeeps
  <2>4. ASSUME NEW p \in Ports, GateAtOnu(p) PROVE PonInv'
    BY <2>4, GateAtOnuKeeps
  <2>5. ASSUME NEW p \in Ports, MacTimer(p) PROVE PonInv'
    BY <2>5, MacTimerKeeps
  <2>6. ASSUME NEW p \in Ports, FrameAtSplitter(p) PROVE PonInv'
    BY <2>6, FrameAtSplitterKeeps
  <2> QED BY <1>3, <2>1, <2>2, <2>3, <2>4, <2>5, <2>6 DEF Event
<1>4. CASE Tick
  BY <1>4, TickKeeps
<1>5. ASSUME NEW p \in Ports, FrameArrives(p) PROVE PonInv'
  BY <1>5, OnuActions, OnuActsKeeps
<1> QED BY <1>1, <1>2, <1>3, <1>4, <1>5 DEF Next

\* The invariant holds throughout.
THEOREM PonInvariant ==
  ASSUME PollingTimes
  PROVE  Spec => []PonInv
<1>1. PonInv /\ [Next]_vars => PonInv'
  BY StepKeeps
<1> QED BY PonStarts, <1>1, PTL DEF Spec

(***************************************************************************)
(* The state keeps its shape, whatever the order of GATEs, WAKE UPs, of    *)
(* frames that come one at a time and of the four timers of an ONU, also   *)
(* within an instant (PollingPon): in particular a GATE has always         *)
(* reached its ONU before the next one is sent to it, and the transmitter  *)
(* never runs without a frame (ONUMacCtl_P, EPON_mac, OLTQPerLLiDBase_P).  *)
(***************************************************************************)
THEOREM PonTypeCorrect ==
  ASSUME PollingTimes
  PROVE  Spec => []TypeOK
<1>1. PonInv => TypeOK
  <2> SUFFICES ASSUME PonInv PROVE TypeOK
    OBVIOUS
  <2>1. Poller!TypeOK /\ split \in [busy : Nat, col : 0 .. HaltOn, down : [Ports -> Nat]]
    BY DEF PonInv, PollerInv, Splitters
  <2>2. ASSUME NEW p \in Ports
        PROVE  /\ onu[p].polled \in BOOLEAN /\ onu[p].error \in BOOLEAN
               /\ onu[p].start \in Int /\ onu[p].len \in {0, Window}
               /\ onu[p].startTx \in Timer /\ onu[p].report \in Timer /\ onu[p].mac.timer \in Timer
               /\ onu[p].tmp \in Seq(Frame) /\ onu[p].mac.queue \in Seq(Frame)
               /\ onu[p].link \in Seq(Frame \union {WakeUp})
               /\ onu[p].q.next \in 1 .. NumQueues
               /\ \A i \in 1 .. NumQueues : Len(onu[p].q.pon[i]) <= QueueLimit
               /\ Len(down[p]) <= 1
    <3>0. onu[p] \in Onus
      BY PonOnus
    <3>1. /\ onu[p].polled \in BOOLEAN /\ onu[p].error \in BOOLEAN
          /\ onu[p].start \in Int /\ onu[p].len \in {0, Window}
          /\ onu[p].startTx \in Timer /\ onu[p].report \in Timer
          /\ onu[p].tmp \in Seq(HostFrame) /\ onu[p].link \in Links
          /\ onu[p].mac \in Macs /\ onu[p].q \in Queues
      BY <3>0 DEF Onus
    <3>2. onu[p].mac.timer \in Timer /\ onu[p].mac.queue \in Seq(Frame)
      BY <3>1 DEF Macs
    <3>3. onu[p].tmp \in Seq(Frame)
      BY <3>1, FrameFacts, SeqMonotonic
    <3>4. onu[p].link \in Seq(Frame \union {WakeUp})
      <4>1. HostFrame \union {WakeUp} \subseteq Frame \union {WakeUp}
        BY FrameFacts
      <4> QED BY <3>1, <4>1, JoinedFacts, SeqMonotonic
    <3>5. onu[p].q.next \in 1 .. NumQueues /\ \A i \in 1 .. NumQueues : Len(onu[p].q.pon[i]) <= QueueLimit
      BY <3>1 DEF Queues, RoundRobins
    <3>6. Len(down[p]) <= 1
      BY DEF PonInv, Carried, GatesOnFibres
    <3> QED BY <3>1, <3>2, <3>3, <3>4, <3>5, <3>6
  <2> QED BY <2>1, <2>2 DEF TypeOK
<1> QED BY PonInvariant, <1>1, PTL

(***************************************************************************)
(* scheduleReport never schedules sendReportMsg in the past or a second    *)
(* time: the slot of the last GATE is over when the next one arrives, and  *)
(* its own REPORT is still to come.                                        *)
(***************************************************************************)
THEOREM NeverSchedulesWrongly ==
  ASSUME PollingTimes
  PROVE  Spec => []NoSchedulingError
<1>1. PonInv => NoSchedulingError
  BY DEF PonInv, Onus, NoSchedulingError
<1> QED BY PonInvariant, <1>1, PTL

\* What is handed over is handed over in the slot, and leaves room for the REPORT.
LEMMA HandOver ==
  ASSUME PonInv, PollingTimes, NEW p \in Ports, OnuActs(p),
         Len(onu'[p].mac.queue) > Len(onu[p].mac.queue)
  PROVE  LET f == onu'[p].mac.queue[Len(onu'[p].mac.queue)]
         IN  /\ slot[p] <= 0 /\ 0 <= slot[p] + Window
             /\ f.data => RepTime + Needed(f) < slot[p] + Window
<1>s. PICK s : s = onu[p]
  OBVIOUS
<1>t. PICK t : t = onu'[p]
  OBVIOUS
<1>0. s \in Onus /\ Timed(s) /\ s.mac \in Macs /\ PollerInv /\ OnuStep(s, t)
  BY <1>s, <1>t, PonOnus, OnuTyped DEF PonInv, OnuActs
<1>1. Len(s.mac.queue) \in Nat /\ Len(t.mac.queue) > Len(s.mac.queue)
  BY <1>0, <1>s, <1>t, MacTyped
<1>2. ~ Stays(s, t)
  <2>1. \A n \in Nat : ~ (n > n)
    OBVIOUS
  <2> QED BY <1>1, <2>1 DEF Stays
<1>3. Sending(s)
  BY <1>0, <1>2 DEF OnuStep, Reports, Transmits
<1>4. s.start = slot[p] /\ slot[p] <= 0 /\ slot[p] + Window > 0 /\ End(s) = slot[p] + Window
  <2>1. Live(s) /\ s.start <= 0
    BY <1>3 DEF Sending
  <2>2. End(s) = s.start + Window /\ End(s) > 0
    BY <1>0, <2>1, LiveFacts DEF Live
  <2>3. s.start = slot[p]
    BY <1>s, <2>1 DEF PonInv, Carried, LiveSlots
  <2> QED BY <2>1, <2>2, <2>3
<1>5. slot[p] <= 0 /\ 0 <= slot[p] + Window
  <2>1. slot[p] \in Int
    BY <1>0, PollerTyped
  <2> QED BY <1>4, <2>1, Parameters
<1>6. CASE Reports(s, t)
  <2>1. Last(t.mac.queue) = Report
    BY <1>0, <1>3, <1>6, MacSendFacts, FrameFacts DEF Reports, Sending
  <2>2. ~ Report.data
    BY DEF Report
  <2> QED BY <1>t, <1>5, <2>1, <2>2 DEF Last
<1>7. CASE Transmits(s, t)
  <2>1. PICK f \in HostFrame : t.mac = MacSend(s.mac, f) /\ RepTime + Needed(f) < End(s)
    BY <1>7 DEF Transmits
  <2>2. Last(t.mac.queue) = f
    BY <1>0, <1>3, <2>1, MacSendFacts, FrameFacts DEF Sending
  <2> QED BY <1>t, <1>4, <1>5, <2>1, <2>2 DEF Last
<1> QED BY <1>0, <1>2, <1>6, <1>7 DEF OnuStep

(***************************************************************************)
(* Whatever the order of the events of PollingPon, also within an instant  *)
(* (frames come one at a time), an ONU hands a frame to its transmitter    *)
(* in the slot of the last GATE sent to it only, and a frame of a host     *)
(* only when it and the REPORT still fit (startTxOnPON and its callers).   *)
(***************************************************************************)
THEOREM SendsOnlyInAnnouncedSlot ==
  ASSUME PollingTimes
  PROVE  Spec => SendsInAnnouncedSlot
<1> DEFINE NothingSent == \A p \in Ports : ~ (Len(onu'[p].mac.queue) > Len(onu[p].mac.queue))
           Sent == \A p \in Ports : HandsOver(p) =>
                     LET f == onu'[p].mac.queue[Len(onu'[p].mac.queue)]
                     IN  /\ slot[p] <= 0 /\ 0 <= slot[p] + Window
                         /\ f.data => RepTime + Needed(f) < slot[p] + Window
<1>1. ASSUME PonInv, [Next]_vars PROVE [Sent]_vars
  <2>0. \A p \in Ports : Len(onu[p].mac.queue) \in Nat
    BY <1>1, PonOnus, OnuTyped, MacTyped
  <2>1. \A n \in Nat : ~ (n > n)
    OBVIOUS
  <2>2. NothingSent => Sent
    BY DEF HandsOver
  <2>3. onu' = onu => NothingSent
    BY <2>0, <2>1
  <2>4. ASSUME NEW p \in Ports, OnuActs(p) PROVE Sent
    <3>1. \A q \in Ports : q # p => onu'[q] = onu[q]
      BY <2>4, <1>1, PonOnus DEF OnuActs
    <3>2. \A q \in Ports : HandsOver(q) => q = p
      BY <2>0, <2>1, <3>1 DEF HandsOver
    <3> QED BY <1>1, <2>4, <3>2, HandOver DEF HandsOver
  <2>5. ASSUME NEW p \in Ports, FrameArrives(p) \/ LinkDelivers(p) \/ StartTx(p) \/ ReportTime(p)
        PROVE  Sent
    BY <1>1, <2>4, <2>5, OnuActions
  <2>6. ASSUME NEW p \in Ports, GateAtOnu(p) PROVE NothingSent
    <3>1. onu' = [onu EXCEPT ![p] = onu'[p]] /\ onu'[p].mac = onu[p].mac
      BY <1>1, <2>6, GateAtOnuFacts
    <3>2. \A q \in Ports : onu'[q].mac = onu[q].mac
      BY <1>1, <3>1, PonOnus
    <3> QED BY <2>0, <2>1, <3>2
  <2>7. ASSUME NEW p \in Ports, MacTimer(p) PROVE NothingSent
    <3>1. /\ onu' = [onu EXCEPT ![p] = onu'[p]] /\ onu[p].mac \in Macs /\ onu[p].mac.timer = 0
          /\ onu'[p].mac = AfterTimer(onu[p].mac)
      BY <1>1, <2>7, MacTimerSteps
    <3>2. /\ AfterTimer(onu[p].mac) \in Macs
          /\ Len(AfterTimer(onu[p].mac).queue) <= Len(onu[p].mac.queue)
      <4>1. Departs(onu[p].mac) => AfterTimer(onu[p].mac).queue = onu[p].mac.queue
        BY <3>1, DepartsFacts
      <4>2. \A n \in Nat : n <= n
        OBVIOUS
      <4> QED BY <2>0, <3>1, <4>1, <4>2, DepartsFacts, RestsFacts
    <3>3. \A q \in Ports : Len(onu'[q].mac.queue) <= Len(onu[q].mac.queue)
                           /\ Len(onu'[q].mac.queue) \in Nat
      <4>1. \A q \in Ports : q # p => onu'[q] = onu[q]
        BY <1>1, <3>1, PonOnus
      <4>2. \A n \in Nat : n <= n
        OBVIOUS
      <4>3. Len(onu'[p].mac.queue) \in Nat
        BY <3>1, <3>2, MacTyped
      <4>4. Len(onu'[p].mac.queue) <= Len(onu[p].mac.queue)
        BY <3>1, <3>2
      <4>5. ASSUME NEW q \in Ports, q # p
            PROVE  Len(onu'[q].mac.queue) <= Len(onu[q].mac.queue) /\ Len(onu'[q].mac.queue) \in Nat
        BY <2>0, <4>1, <4>2, <4>5
      <4> QED BY <4>3, <4>4, <4>5
    <3>4. \A a, b \in Nat : a <= b => ~ (a > b)
      OBVIOUS
    <3> QED BY <2>0, <3>3, <3>4
  <2>8. ASSUME Tick PROVE NothingSent
    <3>1. \A q \in Ports : onu'[q] = OnuTick(onu[q]) /\ ~ OnuDue(onu[q])
      BY <2>8 DEF Tick
    <3>2. \A q \in Ports : onu'[q].mac.queue = onu[q].mac.queue
      BY <1>1, <3>1, PonOnus, TickOnu, OnuTyped, MacTickFacts
    <3> QED BY <2>0, <2>1, <3>2
  <2> HIDE DEF NothingSent, Sent
  <2>9. (UNCHANGED vars) => onu' = onu
    BY DEF vars
  <2>10. Register \/ SendGate \/ GateAtSplitter \/ (\E p \in Ports : FrameAtSplitter(p)) => onu' = onu
    BY DEF Register, SendGate, GateAtSplitter, FrameAtSplitter
  <2> QED BY <1>1, <2>2, <2>3, <2>5, <2>6, <2>7, <2>8, <2>9, <2>10 DEF Next, Event
<1> QED BY <1>1, PonInvariant, PTL DEF Spec, SendsInAnnouncedSlot

-----------------------------------------------------------------------------
(* How late a transmitter may be *)

(***************************************************************************)
(* When startTxOnPON runs next, the transmitter is behind by what is       *)
(* allowed after as many ticks of the slot, or will be when it comes to    *)
(* the last of its frames.                                                 *)
(***************************************************************************)
Behind(s, n) ==
  \/ MacEnd(s.mac) <= At(s) + n
  \/ s.mac.queue # <<>> /\ Ifg + Last(s.mac.queue).air + Extra <= n
LagBounded(s, late) == Live(s) => Behind(s, late[At(s) - s.start])

LEMMA CoversFacts ==
  ASSUME NEW near, NEW late, Covers(near, late)
  PROVE  /\ near \in Nat /\ \A p \in Ports : near <= Dist[p]
         /\ \A e \in 0 .. Window : late[e] \in Nat /\ late[0] <= late[e] /\ late[e] <= late[Window]
         /\ Window \in 0 .. Window /\ 0 \in 0 .. Window
<1>1. Window \in 0 .. Window /\ 0 \in 0 .. Window
  BY Parameters
<1>2. \A e \in 0 .. Window : 0 <= e /\ e <= Window
  BY Parameters
<1> QED BY <1>1, <1>2 DEF Covers

\* A transmitter with one frame is behind by that frame at most.
LEMMA BehindOne ==
  ASSUME NEW m \in Macs, MacBacklog(m) = 0, m.queue # <<>>
  PROVE  MacEnd(m) <= Ifg + Last(m.queue).air + Extra
<1>a. PICK a : a = m.queue[1].air
  OBVIOUS
<1>1. Len(m.queue) = 1
  BY MacBusy DEF MacBacklog
<1>2. /\ m.state \in {"ifg", "tx"} /\ m.timer \in Nat /\ a \in Nat
  BY <1>a, MacBusy
<1>3. m.state = "ifg" => m.timer <= Ifg
  BY MacTyped, Parameters
<1>4. m.state = "tx" => m.timer <= a + Extra
  BY <1>a, <1>2, MacTyped, Parameters
<1>5. MacEnd(m) = m.timer + (IF m.state = "ifg" THEN a + Extra ELSE 0) + 0
  BY <1>a, <1>1, MacEndBusy
<1>6. Last(m.queue).air = a
  BY <1>a, <1>1 DEF Last
<1> QED BY <1>2, <1>3, <1>4, <1>5, <1>6, Parameters

\* When a frame may be handed over, what came before it is done in time.
LEMMA SendingEnd ==
  ASSUME NEW s \in Onus, Timed(s), Sending(s), At(s) = 0, NEW near, NEW late, Covers(near, late),
         LagBounded(s, late)
  PROVE  /\ MacEnd(s.mac) \in Nat /\ MacEnd(s.mac) <= late[0 - s.start]
         /\ 0 - s.start \in 0 .. Window - 1 /\ End(s) = s.start + Window /\ End(s) > 0
<1>1. Live(s) /\ MacBacklog(s.mac) = 0 /\ s.mac \in Macs
  BY OnuTyped DEF Sending
<1>2. 0 - s.start \in 0 .. Window - 1 /\ End(s) = s.start + Window /\ End(s) > 0
  BY <1>1, LiveFacts DEF Live
<1>3. MacEnd(s.mac) \in Nat
  BY <1>1, MacTimes
<1>n. PICK n : n = late[0 - s.start]
  OBVIOUS
<1>4. n \in Nat
  <2>1. \A e \in 0 .. Window - 1 : e \in 0 .. Window
    BY Parameters
  <2> QED BY <1>2, <1>n, <2>1, CoversFacts
<1>5. Behind(s, n)
  BY <1>1, <1>n DEF LagBounded
<1>6. MacEnd(s.mac) <= n
  <2>1. CASE MacEnd(s.mac) <= At(s) + n
    <3>1. 0 + n = n
      BY <1>4
    <3> QED BY <1>1, <2>1, <3>1
  <2>2. CASE s.mac.queue # <<>> /\ Ifg + Last(s.mac.queue).air + Extra <= n
    <3>1. MacEnd(s.mac) <= Ifg + Last(s.mac.queue).air + Extra
      BY <1>1, <2>2, BehindOne
    <3>2. Last(s.mac.queue).air \in Nat
      <4>1. Len(s.mac.queue) \in 1 .. Len(s.mac.queue)
        BY <1>1, <2>2, MacBusy
      <4> QED BY <1>1, <4>1, MacTyped DEF Last
    <3> QED BY <1>3, <1>4, <2>2, <3>1, <3>2, Parameters
  <2> QED BY <1>5, <2>1, <2>2 DEF Behind
<1> QED BY <1>2, <1>3, <1>6, <1>n

\* What is handed over is through before a guard after the slot.
LEMMA HandedFacts ==
  ASSUME NEW s \in Onus, Timed(s), NEW near, NEW late, Covers(near, late), LagBounded(s, late),
         NEW t, Reports(s, t) \/ Transmits(s, t), NEW p \in Ports
  PROVE  /\ Dist[p] + MacEnd(t.mac) <= End(s) + Guard + near
         /\ t.mac \in Macs /\ Waits(t.mac) /\ MacFree(t.mac) = MacFree(s.mac)
<1>1. Sending(s) /\ s.mac \in Macs /\ MacBacklog(s.mac) = 0
  BY OnuTyped DEF Reports, Transmits, Sending
<1>e. PICK e : e = MacEnd(s.mac)
  OBVIOUS
<1>w. PICK w : w = late[Window]
  OBVIOUS
<1>2. e \in Nat /\ w \in Nat /\ e <= w /\ End(s) \in Int /\ End(s) > 0
  <2>1. e \in Nat /\ w \in Nat /\ late[0] \in Nat /\ late[0] <= w
    BY <1>1, <1>e, <1>w, MacTimes, CoversFacts
  <2>2. \A a, b, c \in Nat : a <= b /\ b <= c => a <= c
    OBVIOUS
  <2>3. End(s) \in Int /\ End(s) > 0
    BY <1>1, OnuTyped DEF Sending, Live
  <2>4. CASE At(s) = 0
    <3>1. e <= late[0 - s.start] /\ 0 - s.start \in 0 .. Window - 1
      BY <1>1, <1>e, <2>4, SendingEnd
    <3>2. \A i \in 0 .. Window - 1 : i \in 0 .. Window
      BY Parameters
    <3>3. late[0 - s.start] \in Nat /\ late[0 - s.start] <= w
      BY <3>1, <3>2, <1>w, CoversFacts
    <3> QED BY <2>1, <2>2, <2>3, <3>1, <3>3
  <2>5. CASE At(s) # 0
    <3>1. s.mac.queue # <<>> => Last(s.mac.queue).air = RepAir
      BY <1>1, <2>5 DEF Sending, ReportLast, Report
    <3>2. s.mac.queue # <<>> => e <= Ifg + RepAir + Extra
      BY <1>1, <1>e, <3>1, BehindOne
    <3>3. s.mac.queue = <<>> => e = 0
      BY <1>1, <1>e, MacTimes
    <3>4. Ifg + RepAir + Extra <= late[0]
      BY DEF Covers
    <3>5. e <= late[0]
      BY <2>1, <3>2, <3>3, <3>4, Parameters
    <3> QED BY <2>1, <2>2, <2>3, <3>5
  <2> QED BY <2>4, <2>5
<1>3. Dist[p] + w + Ifg + RepAir + Extra <= Guard + near + 1 /\ near \in Nat /\ Dist[p] \in Nat
  <2>1. Dist[p] + w + Ifg + RepAir + Extra <= Guard + near + 1
    BY <1>w DEF Covers
  <2> QED BY <2>1, CoversFacts, DistTyped
<1>4. CASE Reports(s, t)
  <2>1. /\ t.mac \in Macs /\ Waits(t.mac) /\ MacFree(t.mac) = MacFree(s.mac)
        /\ MacEnd(t.mac) <= e + Ifg + RepAir + Extra
    <3>1. Report.air = RepAir
      BY DEF Report
    <3> QED BY <1>1, <1>4, <1>e, <3>1, MacSendFacts, FrameFacts DEF Reports
  <2>2. MacEnd(t.mac) \in Nat
    BY <2>1, MacTimes
  <2>3. Dist[p] + MacEnd(t.mac) <= End(s) + Guard + near
    BY <1>2, <1>3, <2>1, <2>2, Parameters
  <2> QED BY <2>1, <2>3
<1>5. CASE Transmits(s, t)
  <2>1. PICK f \in HostFrame : t.mac = MacSend(s.mac, f) /\ RepTime + Needed(f) < End(s)
    BY <1>5 DEF Transmits
  <2>2. f \in Frame /\ f.air \in Nat /\ Needed(f) = f.air + Ifg
    BY FrameFacts
  <2>3. /\ t.mac \in Macs /\ Waits(t.mac) /\ MacFree(t.mac) = MacFree(s.mac)
        /\ MacEnd(t.mac) <= e + Ifg + f.air + Extra
    BY <1>1, <1>e, <2>1, <2>2, MacSendFacts
  <2>4. MacEnd(t.mac) \in Nat
    BY <2>3, MacTimes
  <2>5. Dist[p] + MacEnd(t.mac) <= End(s) + Guard + near
    <3>1. RepTime + (f.air + Ifg) < End(s)
      BY <2>1, <2>2
    <3> QED BY <1>2, <1>3, <2>2, <2>3, <2>4, <3>1, Parameters
  <2> QED BY <2>3, <2>5
<1> QED BY <1>4, <1>5

\* No event of an ONU makes its transmitter later than is allowed.
LEMMA LagKept ==
  ASSUME NEW s \in Onus, Timed(s), NEW near, NEW late, Covers(near, late), LagBounded(s, late),
         PollingTimes, NEW t, OnuStep(s, t)
  PROVE  LagBounded(t, late)
<1> SUFFICES ASSUME Live(t) PROVE Behind(t, late[At(t) - t.start])
  BY DEF LagBounded
<1>1. t \in Onus /\ Timed(t) /\ t.start = s.start /\ t.len = s.len /\ Live(s)
  BY DEF OnuStep, Same, Live, End
<1>2. /\ At(s) \in Nat /\ At(t) \in Nat /\ s.start \in Int /\ s.mac \in Macs /\ t.mac \in Macs
  BY <1>1, OnuTyped
<1>d. PICK d : d = At(s) - s.start
  OBVIOUS
<1>e. PICK e : e = At(t) - t.start
  OBVIOUS
<1>3. d \in 0 .. Window /\ e \in 0 .. Window
  <2>1. d \in 0 .. Window - 1 /\ e \in 0 .. Window - 1
    BY <1>1, <1>d, <1>e, LiveFacts
  <2>2. \A i \in 0 .. Window - 1 : i \in 0 .. Window
    BY Parameters
  <2> QED BY <2>1, <2>2
<1>4. late[d] \in Nat /\ late[e] \in Nat /\ late[0] \in Nat /\ late[0] <= late[e]
  BY <1>3, CoversFacts
<1>5. Behind(s, late[d])
  BY <1>1, <1>d DEF LagBounded
<1>6. CASE Stays(s, t)
  <2>1. t.mac = s.mac /\ At(s) <= At(t)
    BY <1>6 DEF Stays
  <2>2. d <= e
    BY <1>1, <1>2, <1>d, <1>e, <2>1
  <2>3. late[d] <= late[e]
    BY <1>3, <2>2 DEF Covers
  <2>4. CASE MacEnd(s.mac) <= At(s) + late[d]
    <3>1. MacEnd(s.mac) \in Nat
      BY <1>2, MacTimes
    <3>2. MacEnd(t.mac) <= At(t) + late[e]
      BY <1>2, <1>4, <2>1, <2>3, <2>4, <3>1
    <3> QED BY <1>e, <3>2 DEF Behind
  <2>5. CASE s.mac.queue # <<>> /\ Ifg + Last(s.mac.queue).air + Extra <= late[d]
    <3>1. Last(s.mac.queue).air \in Nat
      <4>1. Len(s.mac.queue) \in 1 .. Len(s.mac.queue)
        BY <1>2, <2>5, MacBusy
      <4> QED BY <1>2, <4>1, MacTyped DEF Last
    <3>2. Ifg + Last(s.mac.queue).air + Extra <= late[e]
      BY <1>4, <2>3, <2>5, <3>1, Parameters
    <3> QED BY <1>e, <2>1, <2>5, <3>2 DEF Behind
  <2> QED BY <1>5, <2>4, <2>5 DEF Behind
<1>7. CASE Reports(s, t)
  <2>1. Last(t.mac.queue) = Report /\ t.mac.queue # <<>>
    BY <1>2, <1>7, MacSendFacts, FrameFacts DEF Reports, Sending
  <2>2. Last(t.mac.queue).air = RepAir
    BY <2>1 DEF Report
  <2>3. Ifg + RepAir + Extra <= late[0]
    BY DEF Covers
  <2>4. Ifg + Last(t.mac.queue).air + Extra <= late[e]
    BY <1>4, <2>2, <2>3, Parameters
  <2> QED BY <1>e, <2>1, <2>4 DEF Behind
<1>8. CASE Transmits(s, t)
  <2>1. PICK f \in HostFrame : /\ t.mac = MacSend(s.mac, f) /\ t.startTx = Needed(f)
                               /\ RepTime + Needed(f) < End(s)
    BY <1>8 DEF Transmits
  <2>a. PICK a : a = f.air
    OBVIOUS
  <2>2. f \in Frame /\ a \in Nat /\ a \in Airs /\ Needed(f) = a + Ifg /\ f.air = a
    BY <2>a, FrameFacts DEF HostFrame
  <2>3. Sending(s) /\ At(s) = 0 /\ MacBacklog(s.mac) = 0
    BY <1>8 DEF Transmits, Sending
  <2>4. /\ MacEnd(t.mac) <= MacEnd(s.mac) + Ifg + a + Extra /\ Last(t.mac.queue) = f
        /\ t.mac.queue # <<>> /\ MacEnd(t.mac) \in Nat
    BY <1>2, <2>1, <2>2, <2>3, MacSendFacts, MacTimes
  <2>5. MacEnd(s.mac) \in Nat /\ MacEnd(s.mac) <= late[d]
    <3>1. d = 0 - s.start
      BY <1>d, <2>3
    <3> QED BY <2>3, <3>1, SendingEnd
  <2>6. At(t) = a + Ifg
    <3>1. a + Ifg \in Nat
      BY <2>2, Parameters
    <3> QED BY <2>1, <2>2, <3>1, Parameters DEF At
  <2>7. e = d + a + Ifg
    BY <1>1, <1>2, <1>d, <1>e, <2>2, <2>3, <2>6, Parameters
  <2>8. d + a + Ifg <= Window
    BY <1>3, <2>7, Parameters
  <2>9. late[d] + Extra <= late[e] \/ Ifg + a + Extra <= late[e]
    BY <1>3, <2>2, <2>7, <2>8 DEF Covers
  <2>10. CASE late[d] + Extra <= late[e]
    <3>1. \A m, k, l, x, b \in Nat :
            m <= k + Ifg + b + Extra /\ k <= l /\ l + Extra <= x => m <= (b + Ifg) + x
      BY Parameters
    <3>2. MacEnd(t.mac) <= (a + Ifg) + late[e]
      BY <1>3, <1>4, <2>2, <2>4, <2>5, <2>10, <3>1
    <3> QED BY <1>e, <2>6, <3>2 DEF Behind
  <2>11. CASE Ifg + a + Extra <= late[e]
    BY <1>e, <2>2, <2>4, <2>11 DEF Behind
  <2> QED BY <2>9, <2>10, <2>11
<1> QED BY <1>6, <1>7, <1>8 DEF OnuStep

\* The timers of the transmitter leave it as late as it was.
LEMMA LagAfterTimer ==
  ASSUME NEW s \in Onus, NEW t \in Onus, Same(s, t), At(t) = At(s), NEW late, LagBounded(s, late),
         s.mac.timer = 0, t.mac = AfterTimer(s.mac), NEW near, Covers(near, late), Timed(s)
  PROVE  LagBounded(t, late)
<1> SUFFICES ASSUME Live(t) PROVE Behind(t, late[At(t) - t.start])
  BY DEF LagBounded
<1>1. Live(s) /\ t.start = s.start /\ s.mac \in Macs /\ t.mac \in Macs
  BY OnuTyped DEF Same, Live, End
<1>n. PICK n : n = late[At(s) - s.start]
  OBVIOUS
<1>2. Behind(s, n) /\ n = late[At(t) - t.start]
  BY <1>1, <1>n DEF LagBounded
<1>3. MacEnd(t.mac) = MacEnd(s.mac)
  BY <1>1, DepartsFacts, RestsFacts
<1>4. s.mac.queue # <<>> => \/ t.mac.queue # <<>> /\ Last(t.mac.queue) = Last(s.mac.queue)
                            \/ t.mac.queue = <<>>
  BY <1>1, DepartsFacts, RestsFacts
<1>5. t.mac.queue = <<>> => Behind(t, n)
  <2> HAVE t.mac.queue = <<>>
  <2>1. MacEnd(t.mac) = 0
    BY <1>1, MacTimes
  <2>2. At(t) \in Nat
    BY OnuTyped
  <2>3. n \in Nat
    <3>1. At(s) - s.start \in 0 .. Window - 1
      BY <1>1, LiveFacts
    <3>2. \A i \in 0 .. Window - 1 : i \in 0 .. Window
      BY Parameters
    <3> QED BY <1>n, <3>1, <3>2, CoversFacts
  <2>4. MacEnd(t.mac) <= At(t) + n
    BY <2>1, <2>2, <2>3
  <2> QED BY <2>4 DEF Behind
<1> QED BY <1>2, <1>3, <1>4, <1>5 DEF Behind

\* As time passes.
LEMMA LagAfterTick ==
  ASSUME NEW s \in Onus, Timed(s), ~ OnuDue(s), PollingTimes,
         NEW near, NEW late, Covers(near, late), LagBounded(s, late)
  PROVE  LagBounded(OnuTick(s), late)
<1>t. PICK t : t = OnuTick(s)
  OBVIOUS
<1>1. /\ t \in Onus /\ Timed(t)
      /\ s.mac.timer # 0 /\ t.mac = [s.mac EXCEPT !.timer = Elapse(@)]
      /\ Live(t) => /\ Live(s) /\ t.start = s.start - 1
                    /\ At(t) = IF s.startTx = None THEN 0 ELSE At(s) - 1
  BY <1>t, TickOnu
<1> SUFFICES ASSUME Live(t) PROVE Behind(t, late[At(t) - t.start])
  BY <1>t DEF LagBounded
<1>2. /\ At(s) \in Nat /\ At(t) \in Nat /\ s.start \in Int /\ s.mac \in Macs /\ t.mac \in Macs
  BY <1>1, OnuTyped
<1>3. t.mac.queue = s.mac.queue /\ (s.mac.queue # <<>> => MacEnd(t.mac) = MacEnd(s.mac) - 1)
  BY <1>1, <1>2, MacTickFacts
<1>d. PICK d : d = At(s) - s.start
  OBVIOUS
<1>e. PICK e : e = At(t) - t.start
  OBVIOUS
<1>4. At(s) - 1 <= At(t) /\ d <= e
  <2>1. s.startTx = None => At(s) = 0
    BY DEF At
  <2> QED BY <1>1, <1>2, <1>d, <1>e, <2>1
<1>5. d \in 0 .. Window /\ e \in 0 .. Window
  <2>1. d \in 0 .. Window - 1 /\ e \in 0 .. Window - 1
    BY <1>1, <1>d, <1>e, LiveFacts
  <2>2. \A i \in 0 .. Window - 1 : i \in 0 .. Window
    BY Parameters
  <2> QED BY <2>1, <2>2
<1>6. late[d] \in Nat /\ late[e] \in Nat /\ late[d] <= late[e]
  <2>1. late[d] <= late[e]
    BY <1>4, <1>5 DEF Covers
  <2> QED BY <1>5, <2>1, CoversFacts
<1>7. Behind(s, late[d])
  BY <1>1, <1>d DEF LagBounded
<1>8. CASE s.mac.queue = <<>>
  <2>1. MacEnd(t.mac) = 0
    BY <1>2, <1>3, <1>8, MacTimes
  <2>2. MacEnd(t.mac) <= At(t) + late[e]
    BY <1>2, <1>6, <2>1
  <2> QED BY <1>e, <2>2 DEF Behind
<1>9. CASE s.mac.queue # <<>>
  <2>1. CASE MacEnd(s.mac) <= At(s) + late[d]
    <3>1. MacEnd(s.mac) \in Nat /\ MacEnd(t.mac) = MacEnd(s.mac) - 1
      BY <1>2, <1>3, <1>9, MacTimes
    <3>2. MacEnd(t.mac) <= At(t) + late[e]
      BY <1>2, <1>4, <1>6, <2>1, <3>1
    <3> QED BY <1>e, <3>2 DEF Behind
  <2>2. CASE Ifg + Last(s.mac.queue).air + Extra <= late[d]
    <3>1. Last(s.mac.queue).air \in Nat
      <4>1. Len(s.mac.queue) \in 1 .. Len(s.mac.queue)
        BY <1>2, <1>9, MacBusy
      <4> QED BY <1>2, <4>1, MacTyped DEF Last
    <3>2. Ifg + Last(t.mac.queue).air + Extra <= late[e]
      BY <1>3, <1>6, <2>2, <3>1, Parameters
    <3> QED BY <1>3, <1>9, <1>e, <3>2 DEF Behind
  <2> QED BY <1>7, <2>1, <2>2 DEF Behind
<1> QED BY <1>8, <1>9

-----------------------------------------------------------------------------
(* What is on its way upstream *)

(***************************************************************************)
(* A frame of the ONU p that is through at b is out of the way of what the *)
(* OLT has announced to others and is about to announce.  g is gateIn and  *)
(* a the slots announced.                                                  *)
(***************************************************************************)
Clear(g, a, p, b, near) ==
  /\ g \in Nat /\ b <= g + Guard + near
  /\ \A q \in Ports : q # p => a[q] + Window < 0 \/ b <= a[q] + near

(***************************************************************************)
(* At the splitter an ONU takes the line from a to b: with a frame on its  *)
(* fibre u, d ticks long, or with those that wait in its transmitter m.    *)
(***************************************************************************)
Occupies(u, m, d, a, b) ==
  \/ \E k \in 1 .. Len(u) : a = u[k].in /\ b = u[k].in + u[k].air
  \/ Waits(m) /\ a = d + MacFrom(m) /\ b = d + MacEnd(m)
On(p, a, b) == Occupies(up[p], onu[p].mac, Dist[p], a, b)

\* The frames on a fibre follow each other, and are followed by what waits.
Ordered(u, m, d) ==
  \A k \in 1 .. Len(u) :
    /\ 0 <= u[k].in /\ u[k].in + u[k].air <= d + MacFree(m)
    /\ \A j \in 1 .. Len(u) : j < k => u[j].in + u[j].air <= u[k].in

LineOrdered == \A p \in Ports : Ordered(up[p], onu[p].mac, Dist[p])
LineClear(near) ==
  \A p \in Ports : \A a, b \in Int :
    On(p, a, b) => Clear(gateIn, slot, p, b, near) /\ split.busy <= a
MacClear(near) ==
  \A p \in Ports : onu[p].mac.queue # <<>> =>
    Clear(gateIn, slot, p, Dist[p] + MacEnd(onu[p].mac), near)
LineApart ==
  \A p, q \in Ports : p # q =>
    \A a, b, c, d \in Int : On(p, a, b) /\ On(q, c, d) => b <= c \/ d <= a
\* What passes the splitter now.
BusyClear(near) ==
  split.busy > 0 => \E p \in Ports : /\ Clear(gateIn, slot, p, split.busy, near)
                                     /\ split.busy <= Dist[p] + MacFree(onu[p].mac)

Passing(near) ==
  /\ split.col = 0
  /\ LineOrdered /\ LineClear(near) /\ MacClear(near) /\ LineApart /\ BusyClear(near)

LEMMA ClearSooner ==
  ASSUME NEW g, NEW a, \A q \in Ports : a[q] \in Int, NEW p \in Ports, NEW near \in Nat,
         NEW b \in Int, NEW c \in Int, c <= b, Clear(g, a, p, b, near)
  PROVE  Clear(g, a, p, c, near)
<1>1. g \in Nat /\ c <= g + Guard + near
  BY Parameters DEF Clear
<1>2. ASSUME NEW q \in Ports, q # p
      PROVE  a[q] + Window < 0 \/ c <= a[q] + near
  <2>1. a[q] \in Int /\ (a[q] + Window < 0 \/ b <= a[q] + near)
    BY <1>2 DEF Clear
  <2> QED BY <2>1
<1> QED BY <1>1, <1>2 DEF Clear

\* Times at the splitter are integers, and no frame has no length.
LEMMA OnFacts ==
  ASSUME PonInv, NEW p \in Ports
  PROVE  /\ onu[p].mac \in Macs /\ up[p] \in Seq(Frames) /\ Dist[p] \in Nat /\ Len(up[p]) \in Nat
         /\ \A k \in 1 .. Len(up[p]) : /\ up[p][k].in \in Int /\ up[p][k].air \in Nat
                                       /\ up[p][k].air > 0
         /\ MacEnd(onu[p].mac) \in Nat /\ MacFree(onu[p].mac) \in Nat
         /\ Waits(onu[p].mac) => /\ MacFrom(onu[p].mac) \in Nat /\ MacEnd(onu[p].mac) > 0
                                 /\ MacFree(onu[p].mac) <= MacFrom(onu[p].mac)
                                 /\ onu[p].mac.queue # <<>>
<1>1. onu[p].mac \in Macs
  BY PonOnus, OnuTyped
<1>2. up[p] \in Seq(Frames)
  BY DEF PonInv
<1>3. Len(up[p]) \in Nat /\ \A k \in 1 .. Len(up[p]) : up[p][k] \in Frames
  BY <1>2, LenProperties, ElementOfSeq
<1>4. \A f \in Frames : f.in \in Int /\ f.air \in Nat /\ f.air > 0
  BY DEF Frames
<1> QED BY <1>1, <1>2, <1>3, <1>4, DistTyped, MacTimes DEF Waits

(***************************************************************************)
(* A step at which no frame is handed over, none reaches the splitter and  *)
(* no time passes: what takes the line took at least as much of it before. *)
(***************************************************************************)
LEMMA PassingKept ==
  ASSUME PonInv, PonInv', NEW near \in Nat, Passing(near),
         split'.busy = split.busy, split'.col = split.col,
         LineOrdered',
         \A p \in Ports : \A a, b \in Int : On(p, a, b)' =>
           \E x, y \in Int : On(p, x, y) /\ x <= a /\ b <= y,
         \A p \in Ports : onu'[p].mac.queue # <<>> =>
           onu[p].mac.queue # <<>> /\ MacEnd(onu'[p].mac) = MacEnd(onu[p].mac),
         \A p \in Ports : MacFree(onu[p].mac) <= MacFree(onu'[p].mac),
         \A p \in Ports : \A b \in Int : Clear(gateIn, slot, p, b, near) => Clear(gateIn', slot', p, b, near)
  PROVE  Passing(near)'
<1>0. split.busy \in Nat /\ \A q \in Ports : slot[q] \in Int
  BY PollerTyped DEF PonInv, Splitters
<1>1. LineClear(near)'
  <2> SUFFICES ASSUME NEW p \in Ports, NEW a \in Int, NEW b \in Int, On(p, a, b)'
               PROVE  Clear(gateIn', slot', p, b, near) /\ split'.busy <= a
    BY DEF LineClear
  <2>1. PICK x, y \in Int : On(p, x, y) /\ x <= a /\ b <= y
    OBVIOUS
  <2>2. Clear(gateIn, slot, p, y, near) /\ split.busy <= x
    BY <2>1 DEF Passing, LineClear
  <2>3. Clear(gateIn, slot, p, b, near)
    BY <1>0, <2>1, <2>2, ClearSooner
  <2>4. split.busy <= a
    BY <1>0, <2>1, <2>2
  <2> QED BY <2>3, <2>4
<1>2. MacClear(near)'
  <2> SUFFICES ASSUME NEW p \in Ports, onu'[p].mac.queue # <<>>
               PROVE  Clear(gateIn', slot', p, Dist[p] + MacEnd(onu'[p].mac), near)
    BY DEF MacClear
  <2>b. PICK b : b = Dist[p] + MacEnd(onu[p].mac)
    OBVIOUS
  <2>1. Clear(gateIn, slot, p, b, near)
    BY <2>b DEF Passing, MacClear
  <2>2. b \in Int
    BY <2>b, OnFacts
  <2> QED BY <2>b, <2>1, <2>2
<1>3. LineApart'
  <2> SUFFICES ASSUME NEW p \in Ports, NEW q \in Ports, p # q,
                      NEW a \in Int, NEW b \in Int, NEW c \in Int, NEW d \in Int,
                      On(p, a, b)', On(q, c, d)'
               PROVE  b <= c \/ d <= a
    BY DEF LineApart
  <2>1. PICK x, y \in Int : On(p, x, y) /\ x <= a /\ b <= y
    OBVIOUS
  <2>2. PICK v, w \in Int : On(q, v, w) /\ v <= c /\ d <= w
    OBVIOUS
  <2>3. y <= v \/ w <= x
    BY <2>1, <2>2 DEF Passing, LineApart
  <2> QED BY <2>1, <2>2, <2>3
<1>4. BusyClear(near)'
  <2> SUFFICES ASSUME split'.busy > 0
               PROVE  \E p \in Ports : /\ Clear(gateIn', slot', p, split'.busy, near)
                                       /\ split'.busy <= Dist[p] + MacFree(onu'[p].mac)
    BY DEF BusyClear
  <2>1. PICK p \in Ports : /\ Clear(gateIn, slot, p, split.busy, near)
                           /\ split.busy <= Dist[p] + MacFree(onu[p].mac)
    BY DEF Passing, BusyClear
  <2>2. Clear(gateIn', slot', p, split.busy, near)
    BY <1>0, <2>1
  <2>3. MacFree(onu[p].mac) \in Nat /\ Dist[p] \in Nat
    BY OnFacts
  <2>4. MacFree(onu'[p].mac) \in Nat
    <3>1. onu'[p] \in Onus
      BY DEF PonInv
    <3> QED BY <3>1, OnuTyped, MacTimes
  <2>5. split.busy <= Dist[p] + MacFree(onu'[p].mac)
    BY <1>0, <2>1, <2>3, <2>4
  <2> QED BY <2>2, <2>5
<1> QED BY <1>1, <1>2, <1>3, <1>4 DEF Passing

\* In particular one that leaves the transmitters and the fibres alone.
LEMMA PassingStays ==
  ASSUME PonInv, PonInv', NEW near \in Nat, Passing(near),
         split'.busy = split.busy, split'.col = split.col, up' = up,
         \A p \in Ports : onu'[p].mac = onu[p].mac,
         \A p \in Ports : \A b \in Int : Clear(gateIn, slot, p, b, near) => Clear(gateIn', slot', p, b, near)
  PROVE  Passing(near)'
<1>1. LineOrdered'
  BY DEF Passing, LineOrdered
<1>2. \A p \in Ports : \A a, b : On(p, a, b)' <=> On(p, a, b)
  BY DEF On
<1>3. \A p \in Ports : MacFree(onu[p].mac) <= MacFree(onu'[p].mac)
  BY OnFacts
<1> QED BY <1>1, <1>2, <1>3, PassingKept

\* What the OLT has announced and is about to announce.
LEMMA PollerClears ==
  ASSUME PonInv, NEW near \in Nat
  PROVE  /\ slot' = slot /\ gateIn' = gateIn =>
              \A p \in Ports : \A b \in Int :
                Clear(gateIn, slot, p, b, near) => Clear(gateIn', slot', p, b, near)
         /\ Poller!Register =>
              \A p \in Ports : \A b \in Int :
                Clear(gateIn, slot, p, b, near) => Clear(gateIn', slot', p, b, near)
         /\ Poller!SendSingleGate =>
              \A p \in Ports : \A b \in Int :
                Clear(gateIn, slot, p, b, near) => Clear(gateIn', slot', p, b, near)
<1>0. PollerInv /\ \A q \in Ports : slot[q] \in Int
  BY PollerTyped DEF PonInv
<1>1. slot' = slot /\ gateIn' = gateIn =>
        \A p \in Ports : \A b \in Int :
          Clear(gateIn, slot, p, b, near) => Clear(gateIn', slot', p, b, near)
  OBVIOUS
<1>2. ASSUME Poller!Register, NEW p \in Ports, NEW b \in Int, Clear(gateIn, slot, p, b, near)
      PROVE  Clear(gateIn', slot', p, b, near)
  <2>1. gateIn \in Nat
    BY <1>2 DEF Clear
  <2>2. running
    BY <1>0, <1>2, <2>1, PollerRegister, Parameters
  <2> QED BY <1>0, <1>2, <2>2, PollerRegister
<1>3. ASSUME Poller!SendSingleGate, NEW p \in Ports, NEW b \in Int, Clear(gateIn, slot, p, b, near)
      PROVE  Clear(gateIn', slot', p, b, near)
  <2>1. /\ gateIn = 0 /\ \A q \in Ports : slot[q] + Window <= 0
        /\ slot' = [slot EXCEPT ![next] = Guard] /\ gateIn' = Guard + Window /\ next \in Ports
    BY <1>0, <1>3, PollerSends
  <2>2. b <= 0 + Guard + near
    BY <1>3, <2>1 DEF Clear
  <2>3. \A q \in Ports : slot'[q] = IF q = next THEN Guard ELSE slot[q]
    BY <1>0, <2>1, PollerTyped
  <2>4. ASSUME NEW q \in Ports, q # p
        PROVE  slot'[q] + Window < 0 \/ b <= slot'[q] + near
    <3>1. CASE q = next
      <4>1. b <= Guard + near
        BY <2>2, Parameters
      <4> QED BY <2>3, <3>1, <4>1
    <3>2. CASE q # next
      BY <1>3, <2>3, <2>4, <3>2 DEF Clear
    <3> QED BY <3>1, <3>2
  <2>5. gateIn' \in Nat /\ b <= gateIn' + Guard + near
    BY <2>1, <2>2, Parameters
  <2> QED BY <2>4, <2>5 DEF Clear
<1> QED BY <1>1, <1>2, <1>3

\* A frame moves from a transmitter to its fibre, or the gap behind it ends.
LEMMA PassingAfterTimer ==
  ASSUME PonInv, NEW near \in Nat, Passing(near), NEW p \in Ports, MacTimer(p)
  PROVE  Passing(near)'
<1>0. PonInv'
  BY MacTimerKeeps
<1>m. PICK m : m = onu[p].mac
  OBVIOUS
<1>n. PICK n : n = AfterTimer(m)
  OBVIOUS
<1>d. PICK d : d = Dist[p]
  OBVIOUS
<1>u. PICK u : u = up[p]
  OBVIOUS
<1>f. PICK f : f = [in |-> d, air |-> Head(m.queue).air + Extra]
  OBVIOUS
<1>1. /\ onu' = [onu EXCEPT ![p] = onu'[p]] /\ onu'[p].mac = n /\ m \in Macs /\ m.timer = 0
      /\ Departs(m) => up' = [up EXCEPT ![p] = Append(@, f)] /\ f \in Frames
      /\ ~ Departs(m) => up' = up
  BY <1>m, <1>n, <1>d, <1>f, MacTimerSteps
<1>2. /\ UNCHANGED <<pollerVars, split>> /\ up \in [Ports -> Seq(Frames)] /\ onu \in [Ports -> Onus]
  BY PonOnus DEF MacTimer, PonInv
<1>3. \A q \in Ports : q # p => up'[q] = up[q] /\ onu'[q].mac = onu[q].mac
  BY <1>1, <1>2
<1>4. /\ d \in Nat /\ u \in Seq(Frames) /\ Len(u) \in Nat /\ Ordered(u, m, d)
      /\ \A k \in 1 .. Len(u) : u[k].in \in Int /\ u[k].air \in Nat
      /\ MacEnd(m) \in Nat /\ MacFree(m) \in Nat
  BY <1>m, <1>d, <1>u, OnFacts DEF Passing, LineOrdered
<1>5. CASE Departs(m)
  <2>v. PICK v : v = Append(u, f)
    OBVIOUS
  <2>1. up'[p] = v
    BY <1>1, <1>2, <1>5, <1>u, <2>v
  <2>2. /\ Len(v) = Len(u) + 1 /\ v[Len(u) + 1] = f
        /\ \A k \in 1 .. Len(u) : v[k] = u[k]
    BY <1>1, <1>4, <1>5, <2>v, AppendProperties
  <2>a. PICK air : air = Head(m.queue).air + Extra
    OBVIOUS
  <2>3. /\ air \in Nat /\ air > 0 /\ f.in = d /\ f.air = air /\ n \in Macs /\ n.queue = m.queue
        /\ MacEnd(n) = MacEnd(m) /\ Waits(m) /\ MacFrom(m) = 0 /\ MacFree(m) = 0
        /\ MacFree(n) = air /\ air <= MacEnd(n) /\ (Waits(n) => MacFrom(n) = air + Ifg)
    BY <1>1, <1>5, <1>f, <1>n, <2>a, DepartsFacts
  <2>4. \A k \in 1 .. Len(v) : k \in 1 .. Len(u) \/ k = Len(u) + 1
    BY <1>4, <2>2
  <2>5. Ordered(v, n, d)
    <3>1. ASSUME NEW k \in 1 .. Len(v)
          PROVE  0 <= v[k].in /\ v[k].in + v[k].air <= d + MacFree(n)
      <4>1. CASE k \in 1 .. Len(u)
        <5>1. 0 <= u[k].in /\ u[k].in + u[k].air <= d + MacFree(m)
          BY <1>4, <4>1 DEF Ordered
        <5> QED BY <1>4, <2>2, <2>3, <4>1, <5>1
      <4>2. CASE k = Len(u) + 1
        BY <1>4, <2>2, <2>3, <4>2
      <4> QED BY <2>4, <4>1, <4>2
    <3>2. ASSUME NEW k \in 1 .. Len(v), NEW j \in 1 .. Len(v), j < k
          PROVE  v[j].in + v[j].air <= v[k].in
      <4>1. j \in 1 .. Len(u)
        BY <1>4, <2>2, <3>2
      <4>2. CASE k \in 1 .. Len(u)
        BY <1>4, <2>2, <3>2, <4>1, <4>2 DEF Ordered
      <4>3. CASE k = Len(u) + 1
        <5>1. u[j].in + u[j].air <= d + 0
          BY <1>4, <2>3, <4>1 DEF Ordered
        <5> QED BY <1>4, <2>2, <2>3, <4>1, <4>3, <5>1
      <4> QED BY <2>4, <4>2, <4>3
    <3> QED BY <3>1, <3>2 DEF Ordered
  <2>6. ASSUME NEW a \in Int, NEW b \in Int, Occupies(v, n, d, a, b)
        PROVE  \E x, y \in Int : Occupies(u, m, d, x, y) /\ x <= a /\ b <= y
    <3>1. Occupies(u, m, d, d, d + MacEnd(m)) /\ d \in Int /\ d + MacEnd(m) \in Int
      BY <1>4, <2>3 DEF Occupies
    <3>2. CASE \E k \in 1 .. Len(v) : a = v[k].in /\ b = v[k].in + v[k].air
      <4>1. PICK k \in 1 .. Len(v) : a = v[k].in /\ b = v[k].in + v[k].air
        BY <3>2
      <4>2. CASE k \in 1 .. Len(u)
        <5>1. Occupies(u, m, d, a, b)
          BY <2>2, <4>1, <4>2 DEF Occupies
        <5> QED BY <5>1
      <4>3. CASE k = Len(u) + 1
        <5>1. a = d /\ b = d + air
          BY <2>2, <2>3, <4>1, <4>3
        <5>2. d <= a /\ b <= d + MacEnd(m)
          BY <1>4, <2>3, <5>1
        <5> QED BY <3>1, <5>2
      <4> QED BY <2>4, <4>2, <4>3
    <3>3. CASE Waits(n) /\ a = d + MacFrom(n) /\ b = d + MacEnd(n)
      <4>1. d <= a /\ b <= d + MacEnd(m)
        BY <1>4, <2>3, <3>3, Parameters
      <4> QED BY <3>1, <4>1
    <3> QED BY <2>6, <3>2, <3>3 DEF Occupies
  <2>7. LineOrdered'
    <3> SUFFICES ASSUME NEW q \in Ports PROVE Ordered(up'[q], onu'[q].mac, Dist[q])
      BY DEF LineOrdered
    <3>1. CASE q = p
      BY <1>1, <1>d, <2>1, <2>5, <3>1
    <3>2. CASE q # p
      BY <1>3, <3>2 DEF Passing, LineOrdered
    <3> QED BY <3>1, <3>2
  <2>8. ASSUME NEW q \in Ports, NEW a \in Int, NEW b \in Int, On(q, a, b)'
        PROVE  \E x, y \in Int : On(q, x, y) /\ x <= a /\ b <= y
    <3>0. Occupies(up'[q], onu'[q].mac, Dist[q], a, b)
      BY <2>8 DEF On
    <3>1. CASE q = p
      <4>1. Occupies(v, n, d, a, b)
        BY <1>1, <1>d, <2>1, <3>0, <3>1
      <4> QED BY <1>m, <1>d, <1>u, <2>6, <3>1, <4>1 DEF On
    <3>2. CASE q # p
      <4>1. On(q, a, b)
        BY <1>3, <3>0, <3>2 DEF On
      <4> QED BY <4>1
    <3> QED BY <3>1, <3>2
  <2>9. ASSUME NEW q \in Ports
        PROVE  /\ onu'[q].mac.queue # <<>> =>
                    onu[q].mac.queue # <<>> /\ MacEnd(onu'[q].mac) = MacEnd(onu[q].mac)
               /\ MacFree(onu[q].mac) <= MacFree(onu'[q].mac)
    <3>1. CASE q = p
      BY <1>1, <1>m, <2>3, <3>1
    <3>2. CASE q # p
      BY <1>3, <3>2, OnFacts
    <3> QED BY <3>1, <3>2
  <2>10. slot' = slot /\ gateIn' = gateIn /\ split' = split
    BY <1>2 DEF pollerVars
  <2>11. \A q \in Ports : \A b \in Int :
           Clear(gateIn, slot, q, b, near) => Clear(gateIn', slot', q, b, near)
    BY <2>10
  <2> QED BY <1>0, <2>7, <2>8, <2>9, <2>10, <2>11, PassingKept
<1>6. CASE ~ Departs(m)
  <2>1. up' = up /\ slot' = slot /\ gateIn' = gateIn /\ split' = split
    BY <1>1, <1>2, <1>6 DEF pollerVars
  <2>2. /\ n \in Macs /\ MacEnd(n) = MacEnd(m) /\ MacFree(n) = 0 /\ MacFree(m) = 0
        /\ n.queue # <<>> => m.queue # <<>>
        /\ Waits(n) => Waits(m) /\ MacFrom(n) = MacFrom(m)
    BY <1>1, <1>6, <1>n, RestsFacts
  <2>3. LineOrdered'
    <3> SUFFICES ASSUME NEW q \in Ports PROVE Ordered(up'[q], onu'[q].mac, Dist[q])
      BY DEF LineOrdered
    <3>1. CASE q = p
      <4>1. Ordered(u, n, d)
        BY <1>4, <2>2 DEF Ordered
      <4> QED BY <1>1, <1>d, <1>u, <2>1, <3>1, <4>1
    <3>2. CASE q # p
      BY <1>3, <3>2 DEF Passing, LineOrdered
    <3> QED BY <3>1, <3>2
  <2>4. ASSUME NEW q \in Ports, NEW a \in Int, NEW b \in Int, On(q, a, b)'
        PROVE  On(q, a, b)
    <3>0. Occupies(up[q], onu'[q].mac, Dist[q], a, b)
      BY <2>1, <2>4 DEF On
    <3>1. CASE q = p
      <4>1. Occupies(u, n, d, a, b)
        BY <1>1, <1>d, <1>u, <3>0, <3>1
      <4>2. Occupies(u, m, d, a, b)
        BY <2>2, <4>1 DEF Occupies
      <4> QED BY <1>m, <1>d, <1>u, <3>1, <4>2 DEF On
    <3>2. CASE q # p
      BY <1>3, <3>0, <3>2 DEF On
    <3> QED BY <3>1, <3>2
  <2>5. ASSUME NEW q \in Ports
        PROVE  /\ onu'[q].mac.queue # <<>> =>
                    onu[q].mac.queue # <<>> /\ MacEnd(onu'[q].mac) = MacEnd(onu[q].mac)
               /\ MacFree(onu[q].mac) <= MacFree(onu'[q].mac)
    <3>1. CASE q = p
      BY <1>1, <1>m, <2>2, <3>1
    <3>2. CASE q # p
      BY <1>3, <3>2, OnFacts
    <3> QED BY <3>1, <3>2
  <2>6. \A q \in Ports : \A b \in Int :
           Clear(gateIn, slot, q, b, near) => Clear(gateIn', slot', q, b, near)
    BY <2>1
  <2>7. \A q \in Ports : \A a, b \in Int : On(q, a, b)' => \E x, y \in Int : On(q, x, y) /\ x <= a /\ b <= y
    <3>1. \A a, b \in Int : a <= a /\ b <= b
      OBVIOUS
    <3> QED BY <2>4, <3>1
  <2> QED BY <1>0, <2>1, <2>3, <2>5, <2>6, <2>7, PassingKept
<1> QED BY <1>5, <1>6

(***************************************************************************)
(* The slot of an ONU that may send is a guard away from all others, and   *)
(* the next one has not been announced.                                    *)
(***************************************************************************)
LEMMA OwnSlot ==
  ASSUME PonInv, NEW p \in Ports, Live(onu[p])
  PROVE  /\ slot[p] \in Int /\ onu[p].start = slot[p] /\ End(onu[p]) = slot[p] + Window
         /\ slot[p] + Window > 0 /\ gateIn \in Nat /\ slot[p] + Window <= gateIn
         /\ \A q \in Ports : q # p =>
              \/ slot[q] + Window < 0
              \/ slot[p] + Window + Guard <= slot[q]
              \/ slot[q] + Window + Guard <= slot[p]
<1>0. PollerInv /\ Carried /\ onu[p] \in Onus /\ Timed(onu[p])
  BY PonOnus DEF PonInv
<1>1. /\ \A q \in Ports : slot[q] \in Int /\ Past <= slot[q]
      /\ Past \in Int /\ Past = -(Guard + Window) /\ Poller!Onus = Ports
  BY <1>0, PollerTyped, PollerPorts
<1>2. onu[p].start = slot[p] /\ End(onu[p]) = slot[p] + Window /\ End(onu[p]) > 0
  BY <1>0, LiveFacts DEF Carried, LiveSlots, Live
<1>3. slot[p] # Past /\ slot[p] > Past
  BY <1>1, <1>2, Parameters
<1>4. gateIn \in Nat /\ slot[p] + Window <= gateIn
  BY <1>0, <1>3 DEF PollerInv, Scheduled
<1>5. ASSUME NEW q \in Ports, q # p
      PROVE  \/ slot[q] + Window < 0
             \/ slot[p] + Window + Guard <= slot[q]
             \/ slot[q] + Window + Guard <= slot[p]
  <2>1. CASE slot[q] = Past
    BY <1>1, <2>1, Parameters
  <2>2. CASE slot[q] > Past
    BY <1>0, <1>1, <1>3, <1>5, <2>2 DEF PollerInv, Poller!GrantsDisjoint, Past
  <2> QED BY <1>1, <2>1, <2>2
<1> QED BY <1>1, <1>2, <1>4, <1>5

\* A frame that is handed over will meet none.
LEMMA PassingAfterHandOver ==
  ASSUME PonInv, PollingTimes, NEW near, NEW late, Covers(near, late), Passing(near),
         NEW p \in Ports, OnuActs(p), LagBounded(onu[p], late),
         Reports(onu[p], onu'[p]) \/ Transmits(onu[p], onu'[p])
  PROVE  Passing(near)'
<1>0. PonInv'
  BY OnuActsKeeps
<1>m. PICK m : m = onu[p].mac
  OBVIOUS
<1>n. PICK n : n = onu'[p].mac
  OBVIOUS
<1>d. PICK d : d = Dist[p]
  OBVIOUS
<1>u. PICK u : u = up[p]
  OBVIOUS
<1>s. PICK s : s = slot[p]
  OBVIOUS
<1>1. /\ onu' = [onu EXCEPT ![p] = onu'[p]] /\ onu \in [Ports -> Onus]
      /\ slot' = slot /\ gateIn' = gateIn /\ split' = split /\ up' = up
  BY PonOnus DEF OnuActs, pollerVars
<1>2. \A q \in Ports : q # p => onu'[q].mac = onu[q].mac
  BY <1>1
<1>3. /\ d \in Nat /\ Len(u) \in Nat /\ Ordered(u, m, d)
      /\ \A k \in 1 .. Len(u) : u[k].in \in Int /\ u[k].air \in Nat
      /\ MacEnd(m) \in Nat /\ MacFree(m) \in Nat /\ near \in Nat /\ near <= d
  BY <1>m, <1>d, <1>u, OnFacts, CoversFacts DEF Passing, LineOrdered
<1>4. Live(onu[p]) /\ onu[p].start <= 0
  BY DEF Reports, Transmits, Sending
<1>5. /\ s \in Int /\ s <= 0 /\ s + Window > 0 /\ gateIn \in Nat /\ s + Window <= gateIn
      /\ \A q \in Ports : q # p => \/ slot[q] + Window < 0
                                   \/ s + Window + Guard <= slot[q]
                                   \/ slot[q] + Window + Guard <= s
  BY <1>4, <1>s, OwnSlot
<1>6. d + MacEnd(n) <= s + Window + Guard + near /\ n \in Macs /\ Waits(n) /\ MacFree(n) = MacFree(m)
  <2>1. onu[p] \in Onus /\ Timed(onu[p]) /\ End(onu[p]) = slot[p] + Window
    BY <1>4, PonOnus, OwnSlot
  <2> QED BY <1>m, <1>n, <1>d, <1>s, <2>1, HandedFacts
<1>7. /\ MacEnd(n) \in Nat /\ MacFrom(n) \in Nat /\ MacFree(n) <= MacFrom(n)
      /\ \A q \in Ports : slot[q] \in Int
  BY <1>6, MacTimes, PollerTyped DEF PonInv
<1>8. Clear(gateIn, slot, p, d + MacEnd(n), near)
  <2>1. d + MacEnd(n) <= gateIn + Guard + near
    BY <1>3, <1>5, <1>6, <1>7, Parameters
  <2>2. ASSUME NEW q \in Ports, q # p
        PROVE  slot[q] + Window < 0 \/ d + MacEnd(n) <= slot[q] + near
    <3>r. PICK r : r = slot[q]
      OBVIOUS
    <3>1. r \in Int /\ (r + Window < 0 \/ s + Window + Guard <= r \/ r + Window + Guard <= s)
      BY <1>5, <1>7, <2>2, <3>r
    <3>2. r + Window < 0 \/ d + MacEnd(n) <= r + near
      BY <1>3, <1>5, <1>6, <1>7, <3>1, Parameters
    <3> QED BY <3>r, <3>2
  <2> QED BY <1>5, <2>1, <2>2 DEF Clear
\* what other ONUs take the line for ends before
<1>9. ASSUME NEW q \in Ports, q # p, NEW b \in Int, Clear(gateIn, slot, q, b, near)
      PROVE  b <= d + MacFrom(n)
  <2>1. b <= s + near
    <3>1. s + Window < 0 \/ b <= s + near
      BY <1>9, <1>s DEF Clear
    <3> QED BY <1>5, <3>1, Parameters
  <2> QED BY <1>3, <1>5, <1>7, <2>1
<1>10. split.busy \in Nat /\ split.busy <= d + MacFrom(n)
  <2>1. split.busy \in Nat
    BY DEF PonInv, Splitters
  <2>2. CASE split.busy = 0
    BY <1>3, <1>7, <2>2
  <2>3. CASE split.busy > 0
    <3>1. PICK q \in Ports : /\ Clear(gateIn, slot, q, split.busy, near)
                             /\ split.busy <= Dist[q] + MacFree(onu[q].mac)
      BY <2>3 DEF Passing, BusyClear
    <3>2. CASE q = p
      <4>1. split.busy <= d + MacFree(m)
        BY <1>m, <1>d, <3>1, <3>2
      <4> QED BY <1>3, <1>6, <1>7, <2>1, <4>1
    <3>3. CASE q # p
      BY <1>9, <2>1, <3>1, <3>3
    <3> QED BY <3>2, <3>3
  <2> QED BY <2>1, <2>2, <2>3
\* the line is taken as before, and for what has been handed over
<1>11. ASSUME NEW q \in Ports, NEW a \in Int, NEW b \in Int, On(q, a, b)'
       PROVE  On(q, a, b) \/ (q = p /\ a = d + MacFrom(n) /\ b = d + MacEnd(n))
  <2>0. Occupies(up[q], onu'[q].mac, Dist[q], a, b)
    BY <1>1, <1>11 DEF On
  <2>1. CASE q = p
    <3>1. Occupies(u, n, d, a, b)
      BY <1>n, <1>d, <1>u, <2>0, <2>1
    <3>2. Occupies(u, m, d, a, b) \/ (a = d + MacFrom(n) /\ b = d + MacEnd(n))
      BY <3>1 DEF Occupies
    <3> QED BY <1>m, <1>d, <1>u, <2>1, <3>2 DEF On
  <2>2. CASE q # p
    BY <1>2, <2>0, <2>2 DEF On
  <2> QED BY <2>1, <2>2
<1>12. LineOrdered'
  <2> SUFFICES ASSUME NEW q \in Ports PROVE Ordered(up[q], onu'[q].mac, Dist[q])
    BY <1>1 DEF LineOrdered
  <2>1. CASE q = p
    <3>1. Ordered(u, n, d)
      BY <1>3, <1>6 DEF Ordered
    <3> QED BY <1>n, <1>d, <1>u, <2>1, <3>1
  <2>2. CASE q # p
    BY <1>2, <2>2 DEF Passing, LineOrdered
  <2> QED BY <2>1, <2>2
<1>13. LineClear(near)'
  <2> SUFFICES ASSUME NEW q \in Ports, NEW a \in Int, NEW b \in Int, On(q, a, b)'
               PROVE  Clear(gateIn, slot, q, b, near) /\ split.busy <= a
    BY <1>1 DEF LineClear
  <2>1. CASE On(q, a, b)
    BY <2>1 DEF Passing, LineClear
  <2>2. CASE q = p /\ a = d + MacFrom(n) /\ b = d + MacEnd(n)
    BY <1>8, <1>10, <2>2
  <2> QED BY <1>11, <2>1, <2>2
<1>14. MacClear(near)'
  <2> SUFFICES ASSUME NEW q \in Ports, onu'[q].mac.queue # <<>>
               PROVE  Clear(gateIn, slot, q, Dist[q] + MacEnd(onu'[q].mac), near)
    BY <1>1 DEF MacClear
  <2>1. CASE q = p
    BY <1>n, <1>d, <1>8, <2>1
  <2>2. CASE q # p
    BY <1>2, <2>2 DEF Passing, MacClear
  <2> QED BY <2>1, <2>2
<1>15. LineApart'
  <2> SUFFICES ASSUME NEW q \in Ports, NEW r \in Ports, q # r,
                      NEW a \in Int, NEW b \in Int, NEW c \in Int, NEW e \in Int,
                      On(q, a, b)', On(r, c, e)'
               PROVE  b <= c \/ e <= a
    BY DEF LineApart
  <2>1. CASE On(q, a, b) /\ On(r, c, e)
    BY <2>1 DEF Passing, LineApart
  <2>2. CASE On(q, a, b) /\ r = p /\ c = d + MacFrom(n)
    <3>1. Clear(gateIn, slot, q, b, near)
      BY <2>2 DEF Passing, LineClear
    <3> QED BY <1>9, <2>2, <3>1
  <2>3. CASE On(r, c, e) /\ q = p /\ a = d + MacFrom(n)
    <3>1. Clear(gateIn, slot, r, e, near)
      BY <2>3 DEF Passing, LineClear
    <3> QED BY <1>9, <2>3, <3>1
  <2> QED BY <1>11, <2>1, <2>2, <2>3
<1>16. BusyClear(near)'
  <2> SUFFICES ASSUME split.busy > 0
               PROVE  \E q \in Ports : /\ Clear(gateIn, slot, q, split.busy, near)
                                       /\ split.busy <= Dist[q] + MacFree(onu'[q].mac)
    BY <1>1 DEF BusyClear
  <2>1. PICK q \in Ports : /\ Clear(gateIn, slot, q, split.busy, near)
                           /\ split.busy <= Dist[q] + MacFree(onu[q].mac)
    BY DEF Passing, BusyClear
  <2>2. MacFree(onu'[q].mac) = MacFree(onu[q].mac)
    <3>1. CASE q = p
      BY <1>m, <1>n, <1>6, <3>1
    <3>2. CASE q # p
      BY <1>2, <3>2
    <3> QED BY <3>1, <3>2
  <2> QED BY <2>1, <2>2
<1> QED BY <1>1, <1>12, <1>13, <1>14, <1>15, <1>16 DEF Passing

\* The splitter is free when a frame reaches it.
LEMMA PassingAfterArrival ==
  ASSUME PonInv, NEW near \in Nat, Passing(near), NEW p \in Ports, FrameAtSplitter(p)
  PROVE  Passing(near)'
<1>0. PonInv'
  BY FrameAtSplitterKeeps
<1>m. PICK m : m = onu[p].mac
  OBVIOUS
<1>d. PICK d : d = Dist[p]
  OBVIOUS
<1>u. PICK u : u = up[p]
  OBVIOUS
<1>v. PICK v : v = Tail(u)
  OBVIOUS
<1>a. PICK air : air = u[1].air
  OBVIOUS
<1>1. /\ UNCHANGED <<pollerVars, onu>> /\ u # <<>> /\ Head(u).in = 0
      /\ up' = [up EXCEPT ![p] = v] /\ split' = Upstream(split, Head(u).air)
      /\ up \in [Ports -> Seq(Frames)] /\ u \in Seq(Frames)
  BY <1>u, <1>v DEF FrameAtSplitter, PonInv
<1>2. /\ d \in Nat /\ Len(u) \in Nat /\ Ordered(u, m, d)
      /\ \A k \in 1 .. Len(u) : u[k].in \in Int /\ u[k].air \in Nat /\ u[k].air > 0
      /\ MacEnd(m) \in Nat /\ MacFree(m) \in Nat
      /\ Waits(m) => MacFrom(m) \in Nat /\ MacFree(m) <= MacFrom(m)
  BY <1>m, <1>d, <1>u, OnFacts DEF Passing, LineOrdered
<1>3. /\ 1 \in 1 .. Len(u) /\ Head(u) = u[1] /\ u[1].in = 0 /\ Head(u).air = air
      /\ v \in Seq(Frames) /\ Len(v) = Len(u) - 1
      /\ \A k \in 1 .. Len(v) : v[k] = u[k + 1] /\ k + 1 \in 1 .. Len(u)
  <2>1. Len(u) # 0 /\ Len(u) \in Nat
    BY <1>1, EmptySeq, LenProperties
  <2>2. Head(u) = u[1] /\ v \in Seq(Frames) /\ Len(v) = Len(u) - 1
    BY <1>1, <1>v, TailFacts
  <2>3. \A k \in 1 .. Len(v) : v[k] = u[k + 1]
    BY <1>1, <1>v, <2>2, TailFacts
  <2>4. \A k \in 1 .. Len(v) : k + 1 \in 1 .. Len(u)
    BY <2>1, <2>2
  <2>5. 1 \in 1 .. Len(u)
    BY <2>1
  <2> QED BY <1>1, <1>a, <2>2, <2>3, <2>4, <2>5
<1>4. air \in Nat /\ air > 0
  BY <1>2, <1>3, <1>a
\* the frame takes the line from now on
<1>5. On(p, 0, air)
  <2>1. Occupies(u, m, d, 0, air)
    <3>1. 0 = u[1].in /\ air = u[1].in + u[1].air
      BY <1>2, <1>3, <1>4, <1>a
    <3> QED BY <1>3, <3>1 DEF Occupies
  <2> QED BY <1>m, <1>d, <1>u, <2>1 DEF On
<1>6. 0 \in Int /\ air \in Int
  BY <1>4
<1>7. Clear(gateIn, slot, p, air, near) /\ split.busy = 0
  <2>1. Clear(gateIn, slot, p, air, near) /\ split.busy <= 0
    BY <1>5, <1>6 DEF Passing, LineClear
  <2>2. split.busy \in Nat
    BY DEF PonInv, Splitters
  <2> QED BY <2>1, <2>2
<1>8. split'.busy = air /\ split'.col = 0
  <2>1. split' = [split EXCEPT !.busy = air]
    BY <1>1, <1>3, <1>7 DEF Upstream
  <2> QED BY <2>1 DEF PonInv, Splitters, Passing
<1>9. slot' = slot /\ gateIn' = gateIn /\ onu' = onu
  BY <1>1 DEF pollerVars
<1>10. up'[p] = v /\ \A q \in Ports : q # p => up'[q] = up[q]
  BY <1>1
<1>11. LineOrdered'
  <2> SUFFICES ASSUME NEW q \in Ports PROVE Ordered(up'[q], onu[q].mac, Dist[q])
    BY <1>9 DEF LineOrdered
  <2>1. CASE q = p
    <3>1. Ordered(v, m, d)
      <4>1. ASSUME NEW k \in 1 .. Len(v)
            PROVE  0 <= v[k].in /\ v[k].in + v[k].air <= d + MacFree(m)
        BY <1>2, <1>3 DEF Ordered
      <4>2. ASSUME NEW k \in 1 .. Len(v), NEW j \in 1 .. Len(v), j < k
            PROVE  v[j].in + v[j].air <= v[k].in
        <5>1. j + 1 < k + 1
          BY <4>2
        <5> QED BY <1>2, <1>3, <5>1 DEF Ordered
      <4> QED BY <4>1, <4>2 DEF Ordered
    <3> QED BY <1>m, <1>d, <1>10, <2>1, <3>1
  <2>2. CASE q # p
    BY <1>10, <2>2 DEF Passing, LineOrdered
  <2> QED BY <2>1, <2>2
<1>12. ASSUME NEW q \in Ports, NEW a \in Int, NEW b \in Int, On(q, a, b)'
       PROVE  On(q, a, b) /\ air <= a
  <2>0. Occupies(up'[q], onu[q].mac, Dist[q], a, b)
    BY <1>9, <1>12 DEF On
  <2>1. CASE q = p
    <3>1. Occupies(v, m, d, a, b)
      BY <1>m, <1>d, <1>10, <2>0, <2>1
    <3>2. CASE \E k \in 1 .. Len(v) : a = v[k].in /\ b = v[k].in + v[k].air
      <4>1. PICK k \in 1 .. Len(v) : a = v[k].in /\ b = v[k].in + v[k].air
        BY <3>2
      <4>2. v[k] = u[k + 1] /\ k + 1 \in 1 .. Len(u) /\ 1 < k + 1
        BY <1>2, <1>3
      <4>3. Occupies(u, m, d, a, b)
        BY <4>1, <4>2 DEF Occupies
      <4>4. u[1].in + u[1].air <= u[k + 1].in
        BY <1>2, <1>3, <4>2 DEF Ordered
      <4>5. air <= a
        BY <1>3, <1>4, <1>a, <4>1, <4>2, <4>4
      <4> QED BY <1>m, <1>d, <1>u, <2>1, <4>3, <4>5 DEF On
    <3>3. CASE Waits(m) /\ a = d + MacFrom(m) /\ b = d + MacEnd(m)
      <4>1. Occupies(u, m, d, a, b)
        BY <3>3 DEF Occupies
      <4>2. u[1].in + u[1].air <= d + MacFree(m)
        BY <1>2, <1>3 DEF Ordered
      <4>3. air <= a
        BY <1>2, <1>3, <1>4, <1>a, <3>3, <4>2
      <4> QED BY <1>m, <1>d, <1>u, <2>1, <4>1, <4>3 DEF On
    <3> QED BY <3>1, <3>2, <3>3 DEF Occupies
  <2>2. CASE q # p
    <3>1. On(q, a, b)
      BY <1>10, <2>0, <2>2 DEF On
    <3>2. air <= a \/ b <= 0
      BY <1>5, <1>6, <2>2, <3>1 DEF Passing, LineApart
    <3>3. b > 0
      <4>1. CASE \E k \in 1 .. Len(up[q]) : a = up[q][k].in /\ b = up[q][k].in + up[q][k].air
        <5>1. PICK k \in 1 .. Len(up[q]) : a = up[q][k].in /\ b = up[q][k].in + up[q][k].air
          BY <4>1
        <5>2. 0 <= up[q][k].in
          BY DEF Passing, LineOrdered, Ordered
        <5>3. up[q][k].in \in Int /\ up[q][k].air \in Nat /\ up[q][k].air > 0
          BY OnFacts
        <5> QED BY <5>1, <5>2, <5>3
      <4>2. CASE Waits(onu[q].mac) /\ b = Dist[q] + MacEnd(onu[q].mac)
        <5>1. Dist[q] \in Nat /\ MacEnd(onu[q].mac) \in Nat /\ MacEnd(onu[q].mac) > 0
          BY <4>2, OnFacts
        <5> QED BY <4>2, <5>1
      <4> QED BY <3>1, <4>1, <4>2 DEF On, Occupies
    <3> QED BY <3>1, <3>2, <3>3
  <2> QED BY <2>1, <2>2
<1>13. LineClear(near)'
  <2> SUFFICES ASSUME NEW q \in Ports, NEW a \in Int, NEW b \in Int, On(q, a, b)'
               PROVE  Clear(gateIn, slot, q, b, near) /\ split'.busy <= a
    BY <1>9 DEF LineClear
  <2> QED BY <1>8, <1>12 DEF Passing, LineClear
<1>14. MacClear(near)'
  BY <1>9 DEF Passing, MacClear
<1>15. LineApart'
  BY <1>12 DEF Passing, LineApart
<1>16. BusyClear(near)'
  <2>1. air <= d + MacFree(m)
    <3>1. u[1].in + u[1].air <= d + MacFree(m)
      BY <1>2, <1>3 DEF Ordered
    <3> QED BY <1>2, <1>3, <1>4, <1>a, <3>1
  <2>2. Clear(gateIn', slot', p, split'.busy, near) /\ split'.busy <= Dist[p] + MacFree(onu'[p].mac)
    BY <1>m, <1>d, <1>7, <1>8, <1>9, <2>1
  <2> QED BY <2>2 DEF BusyClear
<1> QED BY <1>8, <1>11, <1>13, <1>14, <1>15, <1>16 DEF Passing

\* A tick later, a tick nearer.
LEMMA ClearLater ==
  ASSUME PonInv, Poller!Tick, NEW near \in Nat, NEW p \in Ports, NEW b \in Int,
         Clear(gateIn, slot, p, b + 1, near)
  PROVE  Clear(gateIn', slot', p, b, near)
<1>0. PollerInv
  BY DEF PonInv
<1>1. gateIn \in Nat /\ b + 1 <= gateIn + Guard + near
  BY DEF Clear
<1>2. gateIn # 0 /\ gateIn' = gateIn - 1
  BY <1>0, <1>1, PollerTick, Parameters
<1>3. gateIn' \in Nat /\ b <= gateIn' + Guard + near
  BY <1>1, <1>2, Parameters
<1>4. ASSUME NEW q \in Ports, q # p
      PROVE  slot'[q] + Window < 0 \/ b <= slot'[q] + near
  <2>1. slot'[q] = IF slot[q] > Past THEN slot[q] - 1 ELSE slot[q]
    BY <1>0, PollerTick
  <2>2. slot[q] \in Int /\ Past \in Int /\ Past = -(Guard + Window) /\ Past <= slot[q]
    BY <1>0, PollerTyped, PollerPorts
  <2>3. slot[q] + Window < 0 \/ b + 1 <= slot[q] + near
    BY <1>4 DEF Clear
  <2> QED BY <2>1, <2>2, <2>3, Parameters
<1> QED BY <1>3, <1>4 DEF Clear

LEMMA PassingAfterTick ==
  ASSUME PonInv, PollingTimes, NEW near \in Nat, Passing(near), Tick
  PROVE  Passing(near)'
<1>1. /\ Poller!Tick /\ split' = SplitterTick(split)
      /\ up' = [q \in Ports |-> Nearer(up[q])] /\ onu' = [q \in Ports |-> OnuTick(onu[q])]
      /\ \A q \in Ports : ~ Arriving(up[q]) /\ ~ OnuDue(onu[q])
  BY DEF Tick
<1>b. PICK busy : busy = split.busy
  OBVIOUS
<1>2. /\ busy \in Nat /\ split'.col = 0 /\ split'.busy = Ahead(busy) /\ Ahead(busy) \in Nat
      /\ Ahead(busy) > 0 => busy > 0 /\ Ahead(busy) = busy - 1
      /\ \A a \in Int : 0 <= a /\ busy <= a + 1 => Ahead(busy) <= a
  <2>1. split \in Splitters /\ split.col = 0
    BY DEF PonInv, Passing
  <2>2. split'.col = split.col /\ split'.busy = Ahead(split.busy)
    BY <1>1, <2>1 DEF SplitterTick, Splitters
  <2>3. busy \in Nat
    BY <1>b, <2>1 DEF Splitters
  <2> QED BY <1>b, <2>1, <2>2, <2>3 DEF Ahead
<1>3. ASSUME NEW q \in Ports
      PROVE  LET m == onu[q].mac
                 n == onu'[q].mac
             IN  /\ m \in Macs /\ n \in Macs /\ n.queue = m.queue /\ (Waits(n) <=> Waits(m))
                 /\ MacEnd(m) \in Nat /\ MacFree(m) \in Nat /\ MacFree(n) \in Nat
                 /\ m.queue # <<>> => MacEnd(n) = MacEnd(m) - 1
                 /\ Waits(m) => MacFrom(n) = MacFrom(m) - 1 /\ MacFrom(m) \in Nat /\ MacFrom(n) \in Nat
                 /\ MacFree(m) - 1 <= MacFree(n)
  <2>m. PICK m : m = onu[q].mac
    OBVIOUS
  <2>n. PICK n : n = onu'[q].mac
    OBVIOUS
  <2>1. onu[q] \in Onus /\ Timed(onu[q]) /\ ~ OnuDue(onu[q]) /\ onu'[q] = OnuTick(onu[q])
    BY <1>1, PonOnus
  <2>2. m.timer # 0 /\ n = [m EXCEPT !.timer = Elapse(@)] /\ m \in Macs
    BY <2>1, <2>m, <2>n, TickOnu, OnuTyped
  <2>3. /\ n \in Macs /\ n.queue = m.queue /\ (Waits(n) <=> Waits(m))
        /\ m.queue # <<>> => MacEnd(n) = MacEnd(m) - 1
        /\ Waits(m) => MacFrom(n) = MacFrom(m) - 1
        /\ MacFree(n) = (IF m.state = "tx" THEN MacFree(m) - 1 ELSE 0)
        /\ m.state # "tx" => MacFree(m) = 0
    BY <2>2, MacTickFacts
  <2>4. MacEnd(m) \in Nat /\ MacFree(m) \in Nat /\ MacFree(n) \in Nat
        /\ (Waits(m) => MacFrom(m) \in Nat) /\ (Waits(n) => MacFrom(n) \in Nat)
    BY <2>2, <2>3, MacTimes
  <2>5. MacFree(m) - 1 <= MacFree(n)
    BY <2>3, <2>4
  <2> QED BY <2>2, <2>3, <2>4, <2>5, <2>m, <2>n
<1>4. ASSUME NEW q \in Ports
      PROVE  /\ up[q] \in Seq(Frames) /\ up'[q] \in Seq(Frames) /\ Len(up[q]) \in Nat
             /\ Len(up'[q]) = Len(up[q])
             /\ \A k \in 1 .. Len(up[q]) :
                  /\ up'[q][k].in = up[q][k].in - 1 /\ up'[q][k].air = up[q][k].air
                  /\ up[q][k].in \in Int /\ up[q][k].in > 0 /\ up[q][k].air \in Nat
  <2>u. PICK u : u = up[q]
    OBVIOUS
  <2>1. /\ u \in Seq(Frames) /\ up'[q] = Nearer(u) /\ Len(u) \in Nat /\ ~ Arriving(u)
        /\ \A k \in 1 .. Len(u) : u[k].in \in Int /\ u[k].air \in Nat /\ u[k].air > 0
        /\ Ordered(u, onu[q].mac, Dist[q])
    BY <1>1, <2>u, OnFacts DEF Passing, LineOrdered
  <2>2. ASSUME NEW k \in 1 .. Len(u)
        PROVE  u[k].in > 0
    <3>1. u # <<>> /\ Head(u) = u[1] /\ 1 \in 1 .. Len(u)
      <4>1. Len(u) # 0 /\ 1 \in 1 .. Len(u)
        BY <2>1
      <4> QED BY <2>1, <4>1, NotEmpty, TailFacts
    <3>2. u[1].in # 0 /\ 0 <= u[1].in
      BY <2>1, <3>1 DEF Arriving, Ordered
    <3>3. CASE k = 1
      BY <2>1, <3>1, <3>2, <3>3
    <3>4. CASE k # 1
      <4>1. 1 < k
        BY <2>1, <3>4
      <4>2. u[1].in + u[1].air <= u[k].in
        BY <2>1, <3>1, <4>1 DEF Ordered
      <4> QED BY <2>1, <3>1, <3>2, <4>2
    <3> QED BY <3>3, <3>4
  <2> QED BY <2>1, <2>2, <2>u, NearerFacts
<1>5. ASSUME NEW q \in Ports, NEW a \in Int, NEW b \in Int, On(q, a, b)'
      PROVE  On(q, a + 1, b + 1) /\ 0 <= a /\ a + 1 \in Int /\ b + 1 \in Int
  <2>m. PICK m : m = onu[q].mac
    OBVIOUS
  <2>n. PICK n : n = onu'[q].mac
    OBVIOUS
  <2>u. PICK u : u = up[q]
    OBVIOUS
  <2>v. PICK v : v = up'[q]
    OBVIOUS
  <2>d. PICK d : d = Dist[q] /\ d \in Nat
    BY DistTyped
  <2>1. Occupies(v, n, d, a, b)
    BY <1>5, <2>n, <2>v, <2>d DEF On
  <2>2. Occupies(u, m, d, a + 1, b + 1) /\ 0 <= a
    <3>1. CASE \E k \in 1 .. Len(v) : a = v[k].in /\ b = v[k].in + v[k].air
      <4>1. PICK k \in 1 .. Len(v) : a = v[k].in /\ b = v[k].in + v[k].air
        BY <3>1
      <4>2. /\ k \in 1 .. Len(u) /\ v[k].in = u[k].in - 1 /\ v[k].air = u[k].air
            /\ u[k].in \in Int /\ u[k].in > 0 /\ u[k].air \in Nat
        BY <1>4, <2>u, <2>v
      <4>3. a + 1 = u[k].in /\ b + 1 = u[k].in + u[k].air /\ 0 <= a
        <5>1. \A x, y \in Int : a = x - 1 /\ b = (x - 1) + y /\ x > 0 =>
                a + 1 = x /\ b + 1 = x + y /\ 0 <= a
          OBVIOUS
        <5>2. u[k].air \in Int /\ a = u[k].in - 1 /\ b = (u[k].in - 1) + u[k].air
          BY <4>1, <4>2
        <5> QED BY <4>2, <5>1, <5>2
      <4> QED BY <4>2, <4>3 DEF Occupies
    <3>2. CASE Waits(n) /\ a = d + MacFrom(n) /\ b = d + MacEnd(n)
      <4>1. /\ Waits(m) /\ MacEnd(n) = MacEnd(m) - 1 /\ MacFrom(n) = MacFrom(m) - 1
            /\ MacFrom(m) \in Nat /\ MacFrom(n) \in Nat /\ MacEnd(m) \in Nat
        BY <1>3, <2>m, <2>n, <3>2 DEF Waits
      <4>2. a + 1 = d + MacFrom(m) /\ b + 1 = d + MacEnd(m) /\ 0 <= a
        BY <2>d, <3>2, <4>1
      <4> QED BY <4>1, <4>2 DEF Occupies
    <3> QED BY <2>1, <3>1, <3>2 DEF Occupies
  <2> QED BY <2>2, <2>m, <2>u, <2>d DEF On
<1>6. LineOrdered'
  <2> SUFFICES ASSUME NEW q \in Ports PROVE Ordered(up'[q], onu'[q].mac, Dist[q])
    BY DEF LineOrdered
  <2>m. PICK m : m = onu[q].mac
    OBVIOUS
  <2>n. PICK n : n = onu'[q].mac
    OBVIOUS
  <2>u. PICK u : u = up[q]
    OBVIOUS
  <2>v. PICK v : v = up'[q]
    OBVIOUS
  <2>d. PICK d : d = Dist[q] /\ d \in Nat
    BY DistTyped
  <2>1. Ordered(u, m, d) /\ MacFree(m) \in Nat /\ MacFree(n) \in Nat /\ MacFree(m) - 1 <= MacFree(n)
    BY <1>3, <2>m, <2>n, <2>u, <2>d DEF Passing, LineOrdered
  <2>2. /\ Len(v) = Len(u) /\ Len(u) \in Nat
        /\ \A k \in 1 .. Len(u) : /\ v[k].in = u[k].in - 1 /\ v[k].air = u[k].air
                                  /\ u[k].in \in Int /\ u[k].in > 0 /\ u[k].air \in Nat
    BY <1>4, <2>u, <2>v
  <2>3. ASSUME NEW k \in 1 .. Len(v)
        PROVE  0 <= v[k].in /\ v[k].in + v[k].air <= d + MacFree(n)
    <3>1. u[k].in + u[k].air <= d + MacFree(m)
      BY <2>1, <2>2 DEF Ordered
    <3>2. \A x, y, z, e, f \in Int :
            x > 0 /\ x + y <= z + e /\ e - 1 <= f => 0 <= x - 1 /\ (x - 1) + y <= z + f
      OBVIOUS
    <3>3. /\ u[k].in \in Int /\ u[k].in > 0 /\ u[k].air \in Int
          /\ v[k].in = u[k].in - 1 /\ v[k].air = u[k].air
      BY <2>2
    <3>4. d \in Int /\ MacFree(m) \in Int /\ MacFree(n) \in Int /\ MacFree(m) - 1 <= MacFree(n)
      BY <2>d, <2>1
    <3>5. 0 <= u[k].in - 1 /\ (u[k].in - 1) + u[k].air <= d + MacFree(n)
      BY <3>1, <3>2, <3>3, <3>4
    <3> QED BY <3>3, <3>5
  <2>4. ASSUME NEW k \in 1 .. Len(v), NEW j \in 1 .. Len(v), j < k
        PROVE  v[j].in + v[j].air <= v[k].in
    <3>1. u[j].in + u[j].air <= u[k].in
      BY <2>1, <2>2, <2>4 DEF Ordered
    <3>2. \A i \in 1 .. Len(v) : /\ u[i].in \in Int /\ u[i].air \in Int
                                /\ v[i].in = u[i].in - 1 /\ v[i].air = u[i].air
      BY <2>2
    <3>3. \A x, y, z \in Int : x + y <= z => (x - 1) + y <= z - 1
      OBVIOUS
    <3>4. (u[j].in - 1) + u[j].air <= u[k].in - 1
      BY <3>1, <3>2, <3>3
    <3> QED BY <3>2, <3>4
  <2>5. Ordered(v, n, d)
    BY <2>3, <2>4 DEF Ordered
  <2> QED BY <2>5, <2>n, <2>v, <2>d
<1>7. LineClear(near)'
  <2> SUFFICES ASSUME NEW q \in Ports, NEW a \in Int, NEW b \in Int, On(q, a, b)'
               PROVE  Clear(gateIn', slot', q, b, near) /\ split'.busy <= a
    BY DEF LineClear
  <2>1. On(q, a + 1, b + 1) /\ 0 <= a /\ a + 1 \in Int /\ b + 1 \in Int
    BY <1>5
  <2>2. Clear(gateIn, slot, q, b + 1, near) /\ busy <= a + 1
    BY <1>b, <2>1 DEF Passing, LineClear
  <2> QED BY <1>1, <1>2, <2>1, <2>2, ClearLater
<1>8. MacClear(near)'
  <2> SUFFICES ASSUME NEW q \in Ports, onu'[q].mac.queue # <<>>
               PROVE  Clear(gateIn', slot', q, Dist[q] + MacEnd(onu'[q].mac), near)
    BY DEF MacClear
  <2>b. PICK b : b = Dist[q] + MacEnd(onu'[q].mac)
    OBVIOUS
  <2>1. onu[q].mac.queue # <<>> /\ MacEnd(onu'[q].mac) = MacEnd(onu[q].mac) - 1
        /\ MacEnd(onu[q].mac) \in Nat
    BY <1>3
  <2>2. b \in Int /\ b + 1 = Dist[q] + MacEnd(onu[q].mac)
    BY <2>b, <2>1, DistTyped
  <2>3. Clear(gateIn, slot, q, b + 1, near)
    BY <2>1, <2>2 DEF Passing, MacClear
  <2> QED BY <1>1, <2>b, <2>2, <2>3, ClearLater
<1>9. LineApart'
  <2> SUFFICES ASSUME NEW p \in Ports, NEW q \in Ports, p # q,
                      NEW a \in Int, NEW b \in Int, NEW c \in Int, NEW d \in Int,
                      On(p, a, b)', On(q, c, d)'
               PROVE  b <= c \/ d <= a
    BY DEF LineApart
  <2>1. /\ On(p, a + 1, b + 1) /\ On(q, c + 1, d + 1)
        /\ a + 1 \in Int /\ b + 1 \in Int /\ c + 1 \in Int /\ d + 1 \in Int
    BY <1>5
  <2>2. b + 1 <= c + 1 \/ d + 1 <= a + 1
    BY <2>1 DEF Passing, LineApart
  <2> QED BY <2>2
<1>10. BusyClear(near)'
  <2> SUFFICES ASSUME split'.busy > 0
               PROVE  \E q \in Ports : /\ Clear(gateIn', slot', q, split'.busy, near)
                                       /\ split'.busy <= Dist[q] + MacFree(onu'[q].mac)
    BY DEF BusyClear
  <2>c. PICK c : c = split'.busy
    OBVIOUS
  <2>1. c \in Int /\ busy > 0 /\ c + 1 = busy
    BY <1>2, <2>c
  <2>2. PICK q \in Ports : /\ Clear(gateIn, slot, q, c + 1, near)
                           /\ c + 1 <= Dist[q] + MacFree(onu[q].mac)
    BY <1>b, <2>1 DEF Passing, BusyClear
  <2>3. Clear(gateIn', slot', q, c, near)
    BY <1>1, <2>1, <2>2, ClearLater
  <2>4. /\ MacFree(onu[q].mac) \in Nat /\ MacFree(onu'[q].mac) \in Nat
        /\ MacFree(onu[q].mac) - 1 <= MacFree(onu'[q].mac) /\ Dist[q] \in Nat
    BY <1>3, DistTyped
  <2>5. c <= Dist[q] + MacFree(onu'[q].mac)
    BY <2>1, <2>2, <2>4
  <2> QED BY <2>3, <2>5, <2>c
<1> QED BY <1>2, <1>6, <1>7, <1>8, <1>9, <1>10 DEF Passing

-----------------------------------------------------------------------------
(* Frames never meet *)

\* A GATE is on its way to the ONU.
Pending(p) == down[p] # <<>> \/ (trunk # <<>> /\ trunk[1].to = p)

\* What the transmitter still has is through when the slot begins.
PendingClear(near) ==
  \A p \in Ports : Pending(p) /\ onu[p].mac.queue # <<>> =>
    Dist[p] + MacEnd(onu[p].mac) <= slot[p] + near

SafeInv(near, late) ==
  /\ PonInv /\ Passing(near) /\ PendingClear(near)
  /\ \A p \in Ports : LagBounded(onu[p], late)

\* An ONU to which a GATE is on its way has no slot.
LEMMA PendingFacts ==
  ASSUME PonInv, PollingTimes, NEW p \in Ports, Pending(p)
  PROVE  ~ Live(onu[p]) /\ slot[p] \in Int /\ slot[p] + Window > 0
<1>0. Carried /\ slot[p] \in Int
  BY PollerTyped DEF PonInv
<1>1. CASE down[p] # <<>>
  <2>1. /\ down[p][1].start \in Int /\ down[p][1].in \in Nat
        /\ Coming(down[p][1].start, down[p][1].in, slot[p], onu[p])
    BY <1>0, <1>1, FibreTyped DEF Carried, GatesOnFibres
  <2> QED BY <1>0, <2>1, ComingFacts
<1>2. CASE trunk # <<>> /\ trunk[1].to = p
  <2>1. /\ trunk[1].start \in Int /\ trunk[1].in \in Nat
        /\ Coming(trunk[1].start, trunk[1].in + Dist[p], slot[p], onu[p])
    BY <1>0, <1>2, TrunkTyped DEF Carried, GatesOnTrunk
  <2>2. trunk[1].in + Dist[p] \in Nat
    BY <2>1, DistTyped
  <2> QED BY <1>0, <2>1, <2>2, ComingFacts
<1> QED BY <1>1, <1>2 DEF Pending

\* No GATE is sent, and the transmitters have no more than they had.
LEMMA PendingKept ==
  ASSUME NEW near, PendingClear(near), slot' = slot,
         \A p \in Ports : Pending(p)' => Pending(p) \/ onu'[p].mac.queue = <<>>,
         \A p \in Ports : Pending(p) /\ onu'[p].mac.queue # <<>> =>
           onu[p].mac.queue # <<>> /\ MacEnd(onu'[p].mac) = MacEnd(onu[p].mac)
  PROVE  PendingClear(near)'
BY DEF PendingClear

LEMMA SafeStarts ==
  ASSUME NEW near, NEW late, Covers(near, late), Init
  PROVE  SafeInv(near, late)
<1>1. PonInv
  BY PonStarts
<1>2. /\ \A p \in Ports : onu[p] = OnuInit(NumQueues) /\ up[p] = <<>> /\ down[p] = <<>>
      /\ trunk = <<>> /\ split.col = 0 /\ split.busy = 0
  BY DEF Init, SplitterInit
<1>3. \A p \in Ports : onu[p].mac.queue = <<>> /\ onu[p].polled = FALSE /\ ~ Waits(onu[p].mac)
  BY <1>2 DEF OnuInit, MacInit, Waits
<1>4. \A p \in Ports : Len(up[p]) = 0
  BY <1>2, EmptySeq
<1>5. \A p \in Ports : \A a, b : ~ On(p, a, b)
  BY <1>3, <1>4 DEF On, Occupies
<1>6. LineOrdered
  BY <1>4 DEF LineOrdered, Ordered
<1>7. Passing(near)
  BY <1>2, <1>3, <1>5, <1>6 DEF Passing, LineClear, MacClear, LineApart, BusyClear
<1>8. PendingClear(near)
  BY <1>3 DEF PendingClear
<1>9. \A p \in Ports : LagBounded(onu[p], late)
  BY <1>3 DEF LagBounded, Live
<1> QED BY <1>1, <1>7, <1>8, <1>9 DEF SafeInv

\* The ONUs act in their slots.
LEMMA SafeAfterOnu ==
  ASSUME NEW near, NEW late, Covers(near, late), PollingTimes, SafeInv(near, late),
         NEW p \in Ports, OnuActs(p)
  PROVE  SafeInv(near, late)'
<1>0. /\ PonInv /\ Passing(near) /\ PendingClear(near) /\ \A q \in Ports : LagBounded(onu[q], late)
      /\ near \in Nat
  BY CoversFacts DEF SafeInv
<1>1. PonInv'
  BY <1>0, OnuActsKeeps
<1>2. /\ OnuStep(onu[p], onu'[p]) /\ onu \in [Ports -> Onus]
      /\ onu' = [onu EXCEPT ![p] = onu'[p]] /\ onu[p] \in Onus /\ Timed(onu[p])
      /\ slot' = slot /\ gateIn' = gateIn /\ trunk' = trunk /\ down' = down /\ up' = up /\ split' = split
  BY <1>0, PonOnus DEF OnuActs, pollerVars
<1>3. \A q \in Ports : q # p => onu'[q] = onu[q]
  BY <1>2
<1>4. Passing(near)'
  <2>1. CASE Stays(onu[p], onu'[p])
    <3>1. \A q \in Ports : onu'[q].mac = onu[q].mac
      <4> SUFFICES ASSUME NEW q \in Ports PROVE onu'[q].mac = onu[q].mac
        OBVIOUS
      <4>1. CASE q = p
        BY <2>1, <4>1 DEF Stays
      <4>2. CASE q # p
        BY <1>3, <4>2
      <4> QED BY <4>1, <4>2
    <3>2. \A q \in Ports : \A b \in Int :
            Clear(gateIn, slot, q, b, near) => Clear(gateIn', slot', q, b, near)
      BY <1>2
    <3> QED BY <1>0, <1>1, <1>2, <3>1, <3>2, PassingStays
  <2>2. CASE Reports(onu[p], onu'[p]) \/ Transmits(onu[p], onu'[p])
    BY <1>0, <2>2, PassingAfterHandOver
  <2> QED BY <1>2, <2>1, <2>2 DEF OnuStep
<1>5. PendingClear(near)'
  <2>1. \A q \in Ports : Pending(q)' <=> Pending(q)
    BY <1>2 DEF Pending
  <2>2. ASSUME NEW q \in Ports, Pending(q)
        PROVE  onu'[q].mac = onu[q].mac
    <3>1. CASE q = p
      <4>1. ~ Live(onu[p])
        BY <1>0, <2>2, <3>1, PendingFacts
      <4>2. Stays(onu[p], onu'[p])
        BY <1>2, <4>1 DEF OnuStep, Reports, Transmits, Sending
      <4> QED BY <3>1, <4>2 DEF Stays
    <3>2. CASE q # p
      BY <1>3, <3>2
    <3> QED BY <3>1, <3>2
  <2> QED BY <1>0, <1>2, <2>1, <2>2, PendingKept
<1>6. ASSUME NEW q \in Ports
      PROVE  LagBounded(onu'[q], late)
  <2>1. CASE q = p
    BY <1>0, <1>2, <2>1, LagKept
  <2>2. CASE q # p
    BY <1>0, <1>3, <2>2
  <2> QED BY <2>1, <2>2
<1> QED BY <1>1, <1>4, <1>5, <1>6 DEF SafeInv

LEMMA SafeAfterTimer ==
  ASSUME NEW near, NEW late, Covers(near, late), SafeInv(near, late), NEW p \in Ports, MacTimer(p)
  PROVE  SafeInv(near, late)'
<1>0. /\ PonInv /\ Passing(near) /\ PendingClear(near) /\ \A q \in Ports : LagBounded(onu[q], late)
      /\ near \in Nat
  BY CoversFacts DEF SafeInv
<1>1. PonInv' /\ Passing(near)'
  BY <1>0, MacTimerKeeps, PassingAfterTimer
<1>m. PICK m : m = onu[p].mac
  OBVIOUS
<1>2. /\ onu' = [onu EXCEPT ![p] = onu'[p]] /\ onu'[p] \in Onus
      /\ Same(onu[p], onu'[p]) /\ At(onu'[p]) = At(onu[p])
      /\ m \in Macs /\ m.timer = 0 /\ onu'[p].mac = AfterTimer(m)
  BY <1>0, <1>m, MacTimerSteps
<1>3. /\ onu \in [Ports -> Onus] /\ onu[p] \in Onus /\ Timed(onu[p])
      /\ slot' = slot /\ trunk' = trunk /\ down' = down
  BY <1>0, PonOnus DEF MacTimer, pollerVars
<1>4. \A q \in Ports : q # p => onu'[q] = onu[q]
  BY <1>2, <1>3
<1>5. PendingClear(near)'
  <2>1. \A q \in Ports : Pending(q)' <=> Pending(q)
    BY <1>3 DEF Pending
  <2>n. PICK n : n = AfterTimer(m)
    OBVIOUS
  <2>2. MacEnd(n) = MacEnd(m) /\ (n.queue # <<>> => m.queue # <<>>)
    BY <1>2, <2>n, DepartsFacts, RestsFacts
  <2>3. ASSUME NEW q \in Ports, onu'[q].mac.queue # <<>>
        PROVE  onu[q].mac.queue # <<>> /\ MacEnd(onu'[q].mac) = MacEnd(onu[q].mac)
    <3>1. CASE q = p
      BY <1>m, <1>2, <2>n, <2>2, <2>3, <3>1
    <3>2. CASE q # p
      BY <1>4, <2>3, <3>2
    <3> QED BY <3>1, <3>2
  <2> QED BY <1>0, <1>3, <2>1, <2>3, PendingKept
<1>6. ASSUME NEW q \in Ports
      PROVE  LagBounded(onu'[q], late)
  <2>1. CASE q = p
    BY <1>0, <1>m, <1>2, <1>3, <2>1, LagAfterTimer
  <2>2. CASE q # p
    BY <1>0, <1>4, <2>2
  <2> QED BY <2>1, <2>2
<1> QED BY <1>1, <1>5, <1>6 DEF SafeInv

\* When a GATE is sent, what its ONU still has is through a guard later.
LEMMA SafeAfterGate ==
  ASSUME NEW near, NEW late, Covers(near, late), PollingTimes, SafeInv(near, late), SendGate
  PROVE  SafeInv(near, late)'
<1>0. /\ PonInv /\ PollerInv /\ Passing(near) /\ \A q \in Ports : LagBounded(onu[q], late)
      /\ near \in Nat
  BY CoversFacts DEF SafeInv, PonInv
<1>1. Poller!SendSingleGate /\ UNCHANGED <<onu, down, up, split>>
  BY DEF SendGate
<1>2. /\ gateIn = 0 /\ next \in Ports /\ \A q \in Ports : slot[q] + Window <= 0
      /\ slot' = [slot EXCEPT ![next] = Guard]
  BY <1>0, <1>1, PollerSends
<1>3. trunk = <<>> /\ \A q \in Ports : down[q] = <<>>
  BY <1>0, <1>2, NothingComes
<1>4. PonInv'
  BY <1>0, SendGateKeeps
<1>5. Passing(near)'
  <2>1. \A q \in Ports : \A b \in Int :
          Clear(gateIn, slot, q, b, near) => Clear(gateIn', slot', q, b, near)
    BY <1>0, <1>1, PollerClears
  <2> QED BY <1>0, <1>1, <1>4, <2>1, PassingStays
<1>6. PendingClear(near)'
  <2> SUFFICES ASSUME NEW q \in Ports, Pending(q)', onu[q].mac.queue # <<>>
               PROVE  Dist[q] + MacEnd(onu[q].mac) <= slot'[q] + near
    BY <1>1 DEF PendingClear
  <2>1. PICK d \in GateDelays :
          trunk' = Append(trunk, [to |-> next, start |-> comTime[next], in |-> d])
    BY DEF SendGate
  <2>2. trunk' = <<[to |-> next, start |-> comTime[next], in |-> d]>>
    BY <1>3, <2>1
  <2>3. trunk'[1].to = next
    BY <2>2
  <2>4. q = next
    BY <1>1, <1>3, <2>3 DEF Pending
  <2>5. slot'[q] = Guard
    <3>1. slot \in [Ports -> Past .. Guard]
      BY <1>0, PollerTyped
    <3> QED BY <1>2, <2>4, <3>1
  <2>6. Dist[q] + MacEnd(onu[q].mac) <= gateIn + Guard + near
    BY <1>0 DEF Passing, MacClear, Clear
  <2>7. 0 + Guard + near = Guard + near
    BY <1>0, Parameters
  <2> QED BY <1>2, <2>5, <2>6, <2>7
<1> QED BY <1>0, <1>1, <1>4, <1>5, <1>6 DEF SafeInv

LEMMA SafeAtSplitter ==
  ASSUME NEW near, NEW late, Covers(near, late), PollingTimes, SafeInv(near, late), GateAtSplitter
  PROVE  SafeInv(near, late)'
<1>0. /\ PonInv /\ Carried /\ Passing(near) /\ PendingClear(near)
      /\ near \in Nat /\ \A q \in Ports : LagBounded(onu[q], late)
  BY CoversFacts DEF SafeInv, PonInv
<1>1. PonInv'
  BY <1>0, GateAtSplitterKeeps
<1>2. UNCHANGED <<pollerVars, onu, up>> /\ trunk # <<>> /\ split' = Downstream(split, 1)
  BY DEF GateAtSplitter
<1>3. slot' = slot /\ gateIn' = gateIn
  BY <1>2 DEF pollerVars
<1>4. Passing(near)'
  <2>1. split'.busy = split.busy /\ split'.col = split.col
    BY <1>0, <1>2 DEF Downstream, PonInv, Splitters
  <2>2. \A q \in Ports : \A b \in Int :
          Clear(gateIn, slot, q, b, near) => Clear(gateIn', slot', q, b, near)
    BY <1>3
  <2>3. up' = up /\ \A q \in Ports : onu'[q].mac = onu[q].mac
    BY <1>2
  <2> QED BY <1>0, <1>1, <2>1, <2>2, <2>3, PassingStays
<1>5. PendingClear(near)'
  <2>1. Head(trunk) = trunk[1] /\ Tail(trunk) = <<>> /\ trunk[1].to \in Ports
    BY <1>0, <1>2, TrunkTyped
  <2>2. trunk' = <<>> /\ \A q \in Ports : q # trunk[1].to => down'[q] = down[q]
    BY <1>0, <2>1 DEF GateAtSplitter, Carried
  <2>3. \A q \in Ports : Pending(q)' => Pending(q)
    BY <1>2, <2>2 DEF Pending
  <2> QED BY <1>0, <1>2, <1>3, <2>3, PendingKept
<1> QED BY <1>0, <1>1, <1>2, <1>4, <1>5 DEF SafeInv

\* The slot that a GATE brings begins when the transmitter is done.
LEMMA SafeAtOnu ==
  ASSUME NEW near, NEW late, Covers(near, late), PollingTimes, SafeInv(near, late),
         NEW p \in Ports, GateAtOnu(p)
  PROVE  SafeInv(near, late)'
<1>0. /\ PonInv /\ Carried /\ Passing(near) /\ PendingClear(near)
      /\ near \in Nat /\ \A q \in Ports : LagBounded(onu[q], late)
  BY CoversFacts DEF SafeInv, PonInv
<1>1. PonInv'
  BY <1>0, GateAtOnuKeeps
<1>2. /\ onu' = [onu EXCEPT ![p] = onu'[p]] /\ onu'[p] \in Onus /\ Timed(onu'[p])
      /\ Live(onu'[p]) /\ onu'[p].start = slot[p] /\ onu'[p].mac = onu[p].mac
      /\ slot[p] <= At(onu'[p])
      /\ down' = [down EXCEPT ![p] = <<>>] /\ down[p] # <<>>
  BY <1>0, GateAtOnuFacts
<1>3. /\ onu \in [Ports -> Onus] /\ trunk' = trunk /\ up' = up /\ split' = split
      /\ slot' = slot /\ gateIn' = gateIn
  BY <1>0, PonOnus DEF GateAtOnu, pollerVars
<1>4. \A q \in Ports : onu'[q].mac = onu[q].mac /\ (q # p => onu'[q] = onu[q])
  <2>1. \A q \in Ports : q # p => onu'[q] = onu[q]
    BY <1>2, <1>3
  <2> QED BY <1>2, <2>1
<1>5. Passing(near)'
  <2>1. \A q \in Ports : \A b \in Int :
          Clear(gateIn, slot, q, b, near) => Clear(gateIn', slot', q, b, near)
    BY <1>3
  <2> QED BY <1>0, <1>1, <1>3, <1>4, <2>1, PassingStays
<1>6. PendingClear(near)'
  <2>1. \A q \in Ports : Pending(q)' => Pending(q)
    <3>1. \A q \in Ports : down'[q] = IF q = p THEN <<>> ELSE down[q]
      BY <1>0, <1>2 DEF Carried
    <3> QED BY <1>3, <3>1 DEF Pending
  <2> QED BY <1>0, <1>3, <1>4, <2>1, PendingKept
<1>7. LagBounded(onu'[p], late)
  <2>m. PICK m : m = onu[p].mac
    OBVIOUS
  <2>t. PICK t : t = onu'[p]
    OBVIOUS
  <2>n. PICK n : n = late[At(t) - t.start]
    OBVIOUS
  <2>1. t \in Onus /\ t.mac = m /\ At(t) \in Nat /\ slot[p] <= At(t) /\ m \in Macs /\ slot[p] \in Int
    BY <1>0, <1>2, <2>m, <2>t, OnuTyped, PollerTyped DEF PonInv
  <2>2. n \in Nat
    <3>1. At(t) - t.start \in 0 .. Window - 1
      BY <1>2, <2>t, LiveFacts
    <3>2. \A i \in 0 .. Window - 1 : i \in 0 .. Window
      BY Parameters
    <3> QED BY <2>n, <3>1, <3>2, CoversFacts
  <2>3. MacEnd(m) <= At(t)
    <3>1. CASE m.queue = <<>>
      <4>1. MacEnd(m) = 0
        BY <2>1, <3>1, MacTimes
      <4> QED BY <2>1, <4>1
    <3>2. CASE m.queue # <<>>
      <4>1. Dist[p] + MacEnd(m) <= slot[p] + near
        BY <1>0, <1>2, <2>m, <3>2 DEF PendingClear, Pending
      <4>2. Dist[p] \in Nat /\ near <= Dist[p] /\ MacEnd(m) \in Nat
        BY <2>1, DistTyped, CoversFacts, MacTimes
      <4> QED BY <1>0, <2>1, <4>1, <4>2
    <3> QED BY <3>1, <3>2
  <2>4. MacEnd(t.mac) <= At(t) + n
    <3>1. MacEnd(m) \in Nat
      BY <2>1, MacTimes
    <3> QED BY <2>1, <2>2, <2>3, <3>1
  <2> QED BY <2>n, <2>t, <2>4 DEF LagBounded, Behind
<1>8. \A q \in Ports : LagBounded(onu'[q], late)
  <2> SUFFICES ASSUME NEW q \in Ports PROVE LagBounded(onu'[q], late)
    OBVIOUS
  <2>1. CASE q = p
    BY <1>7, <2>1
  <2>2. CASE q # p
    BY <1>0, <1>4, <2>2
  <2> QED BY <2>1, <2>2
<1> QED BY <1>1, <1>5, <1>6, <1>8 DEF SafeInv

LEMMA SafeAfterTick ==
  ASSUME NEW near, NEW late, Covers(near, late), PollingTimes, SafeInv(near, late), Tick
  PROVE  SafeInv(near, late)'
<1>0. /\ PonInv /\ PollerInv /\ Carried /\ Passing(near) /\ PendingClear(near)
      /\ near \in Nat /\ \A q \in Ports : LagBounded(onu[q], late)
  BY CoversFacts DEF SafeInv, PonInv
<1>1. PonInv' /\ Passing(near)'
  <2>1. PonInv'
    BY <1>0, TickKeeps
  <2>2. Passing(near)'
    BY <1>0, PassingAfterTick
  <2> QED BY <2>1, <2>2
<1>2. Poller!Tick /\ \A q \in Ports : ~ OnuDue(onu[q]) /\ onu'[q] = OnuTick(onu[q])
  BY DEF Tick
<1>3. ASSUME NEW q \in Ports
      PROVE  LagBounded(onu'[q], late)
  <2>1. onu[q] \in Onus /\ Timed(onu[q])
    BY <1>0, PonOnus
  <2> QED BY <1>0, <1>2, <2>1, LagAfterTick
<1>4. \A q \in Ports : Pending(q)' => Pending(q)
  <2> SUFFICES ASSUME NEW q \in Ports, Pending(q)' PROVE Pending(q)
    OBVIOUS
  <2>1. CASE down'[q] # <<>>
    <3>1. down'[q] = Sooner(down[q])
      BY DEF Tick
    <3>2. down[q] = <<>> => Sooner(down[q]) = <<>>
      BY DEF Sooner
    <3> QED BY <2>1, <3>1, <3>2 DEF Pending
  <2>2. CASE trunk' # <<>> /\ trunk'[1].to = q
    <3>1. trunk' = Sooner(trunk) /\ trunk \in Seq(TrunkGates) /\ Len(trunk) \in {0, 1}
      BY <1>0, TrunkTyped DEF Tick, Carried
    <3>2. trunk # <<>> /\ Len(trunk) = 1
      <4>1. trunk = <<>> => Sooner(trunk) = <<>>
        BY DEF Sooner
      <4> QED BY <1>0, <2>2, <3>1, <4>1, TrunkTyped
    <3>3. \A k \in 1 .. Len(trunk) : trunk[k].in # 0
      <4> SUFFICES ASSUME NEW k \in 1 .. Len(trunk) PROVE trunk[k].in # 0
        OBVIOUS
      <4>1. k = 1
        BY <3>1, OnlyFirst
      <4> QED BY <1>0, <3>2, <4>1, TickOnFibres
    <3>4. trunk'[1].to = trunk[1].to
      <4>1. 1 \in 1 .. Len(trunk)
        BY <3>2
      <4> QED BY <3>1, <3>3, <4>1, SoonerOnTrunk
    <3> QED BY <2>2, <3>2, <3>4 DEF Pending
  <2> QED BY <2>1, <2>2 DEF Pending
<1>5. PendingClear(near)'
  <2> SUFFICES ASSUME NEW q \in Ports, Pending(q)', onu'[q].mac.queue # <<>>
               PROVE  Dist[q] + MacEnd(onu'[q].mac) <= slot'[q] + near
    BY DEF PendingClear
  <2>m. PICK m : m = onu[q].mac
    OBVIOUS
  <2>n. PICK n : n = onu'[q].mac
    OBVIOUS
  <2>1. onu[q] \in Onus /\ Timed(onu[q]) /\ ~ OnuDue(onu[q]) /\ onu'[q] = OnuTick(onu[q])
    BY <1>0, <1>2, PonOnus
  <2>2. m.timer # 0 /\ n = [m EXCEPT !.timer = Elapse(@)] /\ m \in Macs
    BY <2>1, <2>m, <2>n, TickOnu, OnuTyped
  <2>3. m.queue # <<>> /\ MacEnd(n) = MacEnd(m) - 1 /\ MacEnd(m) \in Nat
    BY <2>2, <2>n, MacTickFacts, MacTimes
  <2>4. Pending(q)
    BY <1>4
  <2>5. slot[q] \in Int /\ slot[q] + Window > 0
    BY <1>0, <2>4, PendingFacts
  <2>6. slot'[q] = slot[q] - 1
    <3>1. slot[q] > Past
      BY <2>5, PollerPorts, Parameters
    <3> QED BY <1>0, <1>2, <3>1, PollerTick
  <2>7. Dist[q] + MacEnd(m) <= slot[q] + near /\ Dist[q] \in Nat
    BY <1>0, <2>m, <2>3, <2>4, DistTyped DEF PendingClear
  <2> QED BY <1>0, <2>n, <2>3, <2>5, <2>6, <2>7
<1> QED BY <1>1, <1>3, <1>5 DEF SafeInv

LEMMA SafeStep ==
  ASSUME NEW near, NEW late, Covers(near, late), PollingTimes, SafeInv(near, late), [Next]_vars
  PROVE  SafeInv(near, late)'
<1>0. /\ PonInv /\ Passing(near) /\ PendingClear(near)
      /\ near \in Nat /\ \A q \in Ports : LagBounded(onu[q], late)
  BY CoversFacts DEF SafeInv
<1>1. PonInv'
  BY <1>0, StepKeeps
<1>2. CASE UNCHANGED vars
  <2>1. /\ slot' = slot /\ gateIn' = gateIn /\ onu' = onu /\ trunk' = trunk /\ down' = down
        /\ up' = up /\ split' = split
    BY <1>2 DEF vars, pollerVars
  <2>2. Passing(near)'
    BY <1>0, <1>1, <2>1, PassingStays
  <2>3. PendingClear(near)'
    BY <1>0, <2>1 DEF PendingClear, Pending
  <2> QED BY <1>0, <1>1, <2>1, <2>2, <2>3 DEF SafeInv
<1>3. CASE Register
  <2>1. Poller!Register /\ UNCHANGED <<onu, trunk, down, up, split>> /\ PollerInv
    BY <1>0, <1>3 DEF Register, PonInv
  <2>2. slot' = slot
    BY <2>1, PollerRegister
  <2>3. Passing(near)'
    <3>1. \A q \in Ports : \A b \in Int :
            Clear(gateIn, slot, q, b, near) => Clear(gateIn', slot', q, b, near)
      BY <1>0, <2>1, PollerClears
    <3>2. /\ split'.busy = split.busy /\ split'.col = split.col /\ up' = up
          /\ \A q \in Ports : onu'[q].mac = onu[q].mac
      BY <2>1
    <3> QED BY <1>0, <1>1, <3>1, <3>2, PassingStays
  <2>4. PendingClear(near)'
    BY <1>0, <2>1, <2>2 DEF PendingClear, Pending
  <2> QED BY <1>0, <1>1, <2>1, <2>3, <2>4 DEF SafeInv
<1>4. ASSUME NEW p \in Ports, FrameAtSplitter(p)
      PROVE  SafeInv(near, late)'
  <2>1. slot' = slot /\ onu' = onu /\ trunk' = trunk /\ down' = down
    BY <1>4 DEF FrameAtSplitter, pollerVars
  <2>2. Passing(near)'
    BY <1>0, <1>4, PassingAfterArrival
  <2>3. PendingClear(near)'
    BY <1>0, <2>1 DEF PendingClear, Pending
  <2> QED BY <1>0, <1>1, <2>1, <2>2, <2>3 DEF SafeInv
<1>5. ASSUME NEW p \in Ports, FrameArrives(p) \/ LinkDelivers(p) \/ StartTx(p) \/ ReportTime(p)
      PROVE  SafeInv(near, late)'
  BY <1>0, <1>5, OnuActions, SafeAfterOnu
<1>6. CASE Event
  <2>1. CASE SendGate
    BY <2>1, SafeAfterGate
  <2>2. CASE GateAtSplitter
    BY <2>2, SafeAtSplitter
  <2>3. ASSUME NEW p \in Ports, GateAtOnu(p) PROVE SafeInv(near, late)'
    BY <2>3, SafeAtOnu
  <2>4. ASSUME NEW p \in Ports, MacTimer(p) PROVE SafeInv(near, late)'
    BY <2>4, SafeAfterTimer
  <2> QED BY <1>4, <1>5, <1>6, <2>1, <2>2, <2>3, <2>4 DEF Event
<1>7. CASE Tick
  BY <1>7, SafeAfterTick
<1> QED BY <1>2, <1>3, <1>5, <1>6, <1>7 DEF Next

(***************************************************************************)
(* Collisions "should actually never happen" (PON_Splitter.h), and with a  *)
(* guard that covers what an ONU sends past the end of its slot and the    *)
(* differences of the fibres they do not: whatever the number of ONUs, the *)
(* order of the events and the delays of the GATEs, no frame reaches the   *)
(* splitter while another one passes it (PON_Splitter::handleMessage).     *)
(***************************************************************************)
THEOREM FramesNeverCollide ==
  ASSUME PollingTimes, GuardCovers
  PROVE  Spec => []NoCollision
<1>1. PICK near, late : Covers(near, late)
  BY DEF GuardCovers
<1>2. Init => SafeInv(near, late)
  BY <1>1, SafeStarts
<1>3. SafeInv(near, late) /\ [Next]_vars => SafeInv(near, late)'
  BY <1>1, SafeStep
<1>4. SafeInv(near, late) => NoCollision
  BY DEF SafeInv, Passing, NoCollision
<1> QED BY <1>2, <1>3, <1>4, PTL DEF Spec
-----------------------------------------------------------------------------
(* The frames that an ONU holds *)

Count(m) == IF m # WakeUp /\ m.data THEN 1 ELSE 0

\* The sequences of an ONU are short.
LEMMA DataFacts ==
  ASSUME NEW T, NEW s \in Seq(T)
  PROVE  /\ Len(s) = 0 => Data(s) = 0
         /\ Len(s) = 1 => Data(s) = Count(s[1])
         /\ Len(s) = 2 => Data(s) = Count(s[1]) + Count(s[2])
<1> DEFINE A == IF Len(s) > 0 /\ s[1] # WakeUp /\ s[1].data THEN {1} ELSE {}
           B == IF Len(s) > 1 /\ s[2] # WakeUp /\ s[2].data THEN {2} ELSE {}
           D == {k \in DOMAIN s : s[k] # WakeUp /\ s[k].data}
<1>1. Len(s) \in Nat /\ DOMAIN s = 1 .. Len(s)
  BY LenProperties
<1>2. Len(s) <= 2 => D = A \union B
  <2> HAVE Len(s) <= 2
  <2>1. \A k \in Int : k \in 1 .. Len(s) <=> (k = 1 /\ Len(s) > 0) \/ (k = 2 /\ Len(s) > 1)
    BY <1>1
  <2>2. \A k : k \in D <=> k \in A \/ k \in B
    BY <1>1, <2>1
  <2> QED BY <2>2
<1>3. /\ Cardinality({}) = 0 /\ Cardinality({1}) = 1 /\ Cardinality({2}) = 1
      /\ Cardinality({1} \union {2}) = 2
  <2>1. IsFiniteSet({1}) /\ Cardinality({}) = 0 /\ Cardinality({1}) = 1 /\ Cardinality({2}) = 1
    BY FS_EmptySet, FS_Singleton
  <2>2. 2 \notin {1}
    OBVIOUS
  <2>3. \A x : Cardinality({1} \union {x}) =
                IF x \in {1} THEN Cardinality({1}) ELSE Cardinality({1}) + 1
    BY <2>1, FS_AddElement, ZenonT(60)
  <2>4. 1 + 1 = 2
    OBVIOUS
  <2> QED BY <2>1, <2>2, <2>3, <2>4, ZenonT(60)
<1>4. Cardinality(A \union B) = (IF A = {1} THEN 1 ELSE 0) + (IF B = {2} THEN 1 ELSE 0)
  <2>1. A = {1} \/ A = {}
    OBVIOUS
  <2>2. B = {2} \/ B = {}
    OBVIOUS
  <2>3. {1} # {} /\ {2} # {}
    OBVIOUS
  <2> HIDE DEF A, B
  <2>4. CASE A = {1} /\ B = {2}
    <3>1. A \union B = {1} \union {2}
      BY <2>4
    <3>2. Cardinality(A \union B) = 2
      BY <1>3, <3>1
    <3> QED BY <2>4, <3>2
  <2>5. CASE A = {1} /\ B = {}
    <3>1. A \union B = {1}
      BY <2>5
    <3> QED BY <1>3, <2>3, <2>5, <3>1
  <2>6. CASE A = {} /\ B = {2}
    <3>1. A \union B = {2}
      BY <2>6
    <3> QED BY <1>3, <2>3, <2>6, <3>1
  <2>7. CASE A = {} /\ B = {}
    <3>1. A \union B = {}
      BY <2>7
    <3> QED BY <1>3, <2>3, <2>7, <3>1
  <2> QED BY <2>1, <2>2, <2>4, <2>5, <2>6, <2>7
<1>5. Len(s) <= 2 => Data(s) = Cardinality(A \union B)
  <2>1. Data(s) = Cardinality(D)
    BY DEF Data
  <2> QED BY <1>2, <2>1
<1>6. (A = {1} <=> Len(s) > 0 /\ s[1] # WakeUp /\ s[1].data) /\ (B = {2} <=> Len(s) > 1 /\ s[2] # WakeUp /\ s[2].data)
  OBVIOUS
<1> HIDE DEF A, B, D
<1>7. /\ Len(s) = 0 => Data(s) = 0
      /\ Len(s) = 1 => Data(s) = Count(s[1])
      /\ Len(s) = 2 => Data(s) = Count(s[1]) + Count(s[2])
  <2>a. PICK a : a = IF A = {1} THEN 1 ELSE 0
    OBVIOUS
  <2>b. PICK b : b = IF B = {2} THEN 1 ELSE 0
    OBVIOUS
  <2>1. a = (IF Len(s) > 0 THEN Count(s[1]) ELSE 0) /\ a \in {0, 1}
    BY <1>6, <2>a DEF Count
  <2>2. b = (IF Len(s) > 1 THEN Count(s[2]) ELSE 0) /\ b \in {0, 1}
    BY <1>6, <2>b DEF Count
  <2>3. Len(s) <= 2 => Data(s) = a + b
    BY <1>4, <1>5, <2>a, <2>b
  <2> QED BY <1>1, <2>1, <2>2, <2>3
<1> QED BY <1>7

LEMMA CountFacts ==
  /\ Count(WakeUp) = 0 /\ Count(Report) = 0
  /\ \A f \in HostFrame : Count(f) = 1 /\ f # WakeUp
  /\ \A m : Count(m) \in Nat
<1>1. ASSUME NEW f \in HostFrame PROVE f # WakeUp /\ f.data
  <2>1. f \in [air : Nat, data : BOOLEAN]
    BY PonParameters DEF HostFrame
  <2> QED BY <2>1, PollingOnuParameters DEF HostFrame
<1>2. ~ Report.data
  BY DEF Report
<1> QED BY <1>1, <1>2 DEF Count

LEMMA DataShort ==
  /\ Data(<<>>) = 0
  /\ \A m : Data(<<m>>) = Count(m)
  /\ \A a, b : Data(<<a, b>>) = Count(a) + Count(b)
<1>1. Data(<<>>) = 0
  <2>e. PICK e : e = <<>>
    OBVIOUS
  <2>1. e \in Seq({}) /\ Len(e) = 0
    BY <2>e, EmptySeq
  <2> QED BY <2>e, <2>1, DataFacts
<1>2. ASSUME NEW m PROVE Data(<<m>>) = Count(m)
  <2>e. PICK e : e = <<m>>
    OBVIOUS
  <2>1. e \in Seq({m}) /\ Len(e) = 1 /\ e[1] = m
    BY <2>e
  <2> QED BY <2>e, <2>1, DataFacts
<1>3. ASSUME NEW a, NEW b PROVE Data(<<a, b>>) = Count(a) + Count(b)
  <2>e. PICK e : e = <<a, b>>
    OBVIOUS
  <2>1. e \in Seq({a, b}) /\ Len(e) = 2 /\ e[1] = a /\ e[2] = b
    BY <2>e
  <2> QED BY <2>e, <2>1, DataFacts
<1> QED BY <1>1, <1>2, <1>3

\* At most one frame is on its way from the queues.
LEMMA DataOnLink ==
  ASSUME NEW link \in Links
  PROVE  Data(link) = IF FrameOn(link) THEN 1 ELSE 0
<1>1. CASE link = <<>> \/ link = <<WakeUp>>
  BY <1>1, OnLink, DataShort, CountFacts
<1>2. CASE \E f \in HostFrame : link = <<f>> \/ link = <<WakeUp, f>> \/ link = <<f, WakeUp>>
  <2>1. PICK f \in HostFrame : link = <<f>> \/ link = <<WakeUp, f>> \/ link = <<f, WakeUp>>
    BY <1>2
  <2>2. FrameOn(link)
    BY <2>1, OnLink
  <2>3. Count(f) = 1 /\ Count(WakeUp) = 0
    BY CountFacts
  <2>4. Data(link) = 1
    BY <2>1, <2>3, DataShort
  <2> QED BY <2>2, <2>4
<1> QED BY <1>1, <1>2, Shapes

LEMMA DataTaken ==
  ASSUME NEW link \in Links, link # <<>>
  PROVE  Data(link) = Count(Head(link)) + Data(Tail(link)) /\ Data(Tail(link)) \in Nat
<1>1. /\ Head(link) \in HostFrame \union {WakeUp} /\ Tail(link) \in Links
      /\ Head(link) = WakeUp => (FrameOn(Tail(link)) <=> FrameOn(link))
      /\ Head(link) # WakeUp => FrameOn(link) /\ ~ FrameOn(Tail(link))
  BY TakenFacts
<1>2. /\ Data(link) = IF FrameOn(link) THEN 1 ELSE 0
      /\ Data(Tail(link)) = IF FrameOn(Tail(link)) THEN 1 ELSE 0
  BY <1>1, DataOnLink
<1> QED BY <1>1, <1>2, CountFacts

\* A frame is handed to a transmitter that has one at most.
LEMMA DataSent ==
  ASSUME NEW m \in Macs, NEW f \in Frame, MacBacklog(m) = 0
  PROVE  Data(MacSend(m, f).queue) = Data(m.queue) + Count(f) /\ Data(m.queue) \in Nat
<1>q. PICK q : q = Append(m.queue, f)
  OBVIOUS
<1>1. MacSend(m, f).queue = q
  BY <1>q DEF MacSend, Macs
<1>2. m.queue \in Seq(Frame) /\ Len(m.queue) \in {0, 1}
  <2>1. m.queue \in Seq(Frame) /\ Len(m.queue) \in 0 .. 2 /\ (m.queue = <<>> <=> Len(m.queue) = 0)
    BY MacTyped
  <2> QED BY <2>1 DEF MacBacklog
<1>3. /\ q \in Seq(Frame) /\ Len(q) = Len(m.queue) + 1
      /\ Len(m.queue) = 0 => q[1] = f
      /\ Len(m.queue) = 1 => q[1] = m.queue[1] /\ q[2] = f
  BY <1>q, <1>2, AppendProperties
<1>4. Count(f) \in Nat /\ Count(m.queue[1]) \in Nat
  BY CountFacts
<1>5. /\ Len(m.queue) = 0 => Data(m.queue) = 0 /\ Data(q) = Count(f)
      /\ Len(m.queue) = 1 => Data(m.queue) = Count(m.queue[1]) /\ Data(q) = Count(m.queue[1]) + Count(f)
  <2>1. CASE Len(m.queue) = 0
    BY <1>2, <1>3, <2>1, DataFacts
  <2>2. CASE Len(m.queue) = 1
    <3>1. Data(m.queue) = Count(m.queue[1])
      BY <1>2, <2>2, DataFacts
    <3>2. Len(q) = 2
      BY <1>3, <2>2
    <3>3. Data(q) = Count(q[1]) + Count(q[2])
      BY <1>3, <3>2, DataFacts
    <3> QED BY <1>3, <2>2, <3>1, <3>3
  <2> QED BY <1>2, <2>1, <2>2
<1> QED BY <1>1, <1>2, <1>3, <1>4, <1>5

\* A timer of the transmitter: only a frame that is through leaves.
LEMMA DataTimer ==
  ASSUME NEW m \in Macs, m.timer = 0
  PROVE  LET n == AfterTimer(m)
         IN  \/ Data(n.queue) = Data(m.queue)
             \/ m.state = "tx" /\ Head(m.queue).data /\ n.state # "tx"
<1>n. PICK n : n = AfterTimer(m)
  OBVIOUS
<1>1. CASE m.state = "ifg"
  <2>1. n.queue = m.queue
    <3>1. CASE m.queue = <<>>
      BY <1>n, <1>1, <3>1 DEF AfterTimer, MacEndIFG, MacInit
    <3>2. CASE m.queue # <<>>
      BY <1>n, <1>1, <3>2 DEF AfterTimer, MacEndIFG, Macs
    <3> QED BY <3>1, <3>2
  <2> QED BY <1>n, <2>1
<1>2. CASE m.state = "tx"
  <2>1. n.queue = Tail(m.queue) /\ n.state = "ifg"
    BY <1>n, <1>2 DEF AfterTimer, MacEndTx
  <2>2. m.queue \in Seq(Frame) /\ m.queue # <<>> /\ Len(m.queue) \in {1, 2}
    BY <1>2, MacTyped, MacBusy
  <2>3. /\ Tail(m.queue) \in Seq(Frame) /\ Len(Tail(m.queue)) = Len(m.queue) - 1
        /\ Len(m.queue) = 2 => Tail(m.queue)[1] = m.queue[2]
        /\ Head(m.queue) = m.queue[1]
    <3>1. /\ Tail(m.queue) \in Seq(Frame) /\ Len(Tail(m.queue)) = Len(m.queue) - 1
          /\ \A j \in 1 .. Len(m.queue) - 1 : Tail(m.queue)[j] = m.queue[j+1]
          /\ Head(m.queue) = m.queue[1]
      BY <2>2, TailFacts
    <3>2. Len(m.queue) = 2 => 1 \in 1 .. Len(m.queue) - 1
      OBVIOUS
    <3> QED BY <3>1, <3>2
  <2>4. CASE ~ Head(m.queue).data
    <3>1. Count(m.queue[1]) = 0 /\ Count(m.queue[2]) \in Nat
      BY <2>3, <2>4, CountFacts DEF Count
    <3>2. n.queue \in Seq(Frame) /\ Len(n.queue) = Len(m.queue) - 1
      BY <2>1, <2>3
    <3>3. CASE Len(m.queue) = 1
      <4>1. Data(m.queue) = Count(m.queue[1]) /\ Data(n.queue) = 0
        BY <2>2, <3>2, <3>3, DataFacts
      <4> QED BY <1>n, <3>1, <4>1
    <3>4. CASE Len(m.queue) = 2
      <4>1. Data(m.queue) = Count(m.queue[1]) + Count(m.queue[2]) /\ Data(n.queue) = Count(n.queue[1])
        BY <2>2, <3>2, <3>4, DataFacts
      <4>2. n.queue[1] = m.queue[2]
        BY <2>1, <2>3, <3>4
      <4> QED BY <1>n, <3>1, <4>1, <4>2
    <3> QED BY <2>2, <3>3, <3>4
  <2> QED BY <1>n, <1>2, <2>1, <2>4
<1>3. m.state # "idle"
  BY Parameters, MacTyped
<1> QED BY <1>1, <1>2, <1>3, MacTyped

\* The places of the frames in the queues.
Places(pon) == {x \in (1 .. NumQueues) \X (1 .. QueueLimit) : x[2] <= Len(pon[x[1]])}
Pons == [1 .. NumQueues -> Seq(HostFrame)]

LEMMA PlacesFacts ==
  ASSUME NEW pon
  PROVE  IsFiniteSet(Places(pon)) /\ Cardinality(Places(pon)) \in Nat
<1>1. IsFiniteSet(1 .. NumQueues) /\ IsFiniteSet(1 .. QueueLimit)
  BY FS_Interval, Parameters
<1>2. IsFiniteSet((1 .. NumQueues) \X (1 .. QueueLimit))
  BY <1>1, FS_Product
<1>3. Places(pon) \in SUBSET ((1 .. NumQueues) \X (1 .. QueueLimit))
  BY DEF Places
<1>4. IsFiniteSet(Places(pon))
  BY <1>2, <1>3, FS_Subset
<1> QED BY <1>4, FS_CardinalityType

LEMMA PlacesGrow ==
  ASSUME NEW a \in Pons, NEW b \in Pons, \A i \in 1 .. NumQueues : Len(a[i]) <= Len(b[i])
  PROVE  Cardinality(Places(a)) <= Cardinality(Places(b))
<1>1. \A i \in 1 .. NumQueues : Len(a[i]) \in Nat /\ Len(b[i]) \in Nat
  <2>1. \A i \in 1 .. NumQueues : a[i] \in Seq(HostFrame) /\ b[i] \in Seq(HostFrame)
    BY DEF Pons
  <2> QED BY <2>1, LenProperties
<1>2. Places(a) \in SUBSET Places(b)
  <2> SUFFICES ASSUME NEW x \in Places(a) PROVE x \in Places(b)
    OBVIOUS
  <2>1. x[1] \in 1 .. NumQueues /\ x[2] \in 1 .. QueueLimit /\ x[2] <= Len(a[x[1]])
        /\ x \in (1 .. NumQueues) \X (1 .. QueueLimit)
    BY DEF Places
  <2>2. \A j, m, n \in Int : j <= m /\ m <= n => j <= n
    OBVIOUS
  <2>3. x[2] \in Int /\ Len(a[x[1]]) \in Int /\ Len(b[x[1]]) \in Int
    BY <1>1, <2>1
  <2>4. x[2] <= Len(b[x[1]])
    BY <2>1, <2>2, <2>3
  <2> QED BY <2>1, <2>4 DEF Places
<1> QED BY <1>2, PlacesFacts, FS_Subset

LEMMA PlacesTake ==
  ASSUME NEW a \in Pons, NEW i \in 1 .. NumQueues, a[i] # <<>>, Len(a[i]) <= QueueLimit
  PROVE  Cardinality(Places(a)) = Cardinality(Places([a EXCEPT ![i] = Tail(@)])) + 1
<1>b. PICK b : b = [a EXCEPT ![i] = Tail(@)]
  OBVIOUS
<1>n. PICK n : n = Len(a[i])
  OBVIOUS
<1>1. a[i] \in Seq(HostFrame)
  BY DEF Pons
<1>2. /\ n \in 1 .. QueueLimit /\ Len(b[i]) = n - 1
      /\ \A j \in 1 .. NumQueues : j # i => b[j] = a[j]
  <2>1. Len(Tail(a[i])) = n - 1 /\ n \in Nat \ {0}
    BY <1>1, <1>n, TailFacts
  <2>2. n \in 1 .. QueueLimit
    BY <1>n, <2>1, Parameters
  <2>3. b[i] = Tail(a[i]) /\ \A j \in 1 .. NumQueues : j # i => b[j] = a[j]
    BY <1>b DEF Pons
  <2> QED BY <2>1, <2>2, <2>3
<1>3. <<i, n>> \notin Places(b)
  <2>1. ~ (n <= n - 1)
    BY <1>2
  <2> QED BY <1>2, <2>1 DEF Places
<1>4. \A x : x \in Places(a) <=> x \in Places(b) \union {<<i, n>>}
  <2> SUFFICES ASSUME NEW x PROVE x \in Places(a) <=> x \in Places(b) \/ x = <<i, n>>
    OBVIOUS
  <2>1. CASE x \in (1 .. NumQueues) \X (1 .. QueueLimit)
    <3>1. PICK j \in 1 .. NumQueues, k \in 1 .. QueueLimit : x = <<j, k>>
      BY <2>1
    <3>2. x[1] = j /\ x[2] = k /\ (x = <<i, n>> <=> j = i /\ k = n)
      BY <3>1
    <3>3. (x \in Places(a) <=> k <= Len(a[j])) /\ (x \in Places(b) <=> k <= Len(b[j]))
      BY <2>1, <3>2 DEF Places
    <3>4. CASE j = i
      <4>1. k <= n <=> k <= n - 1 \/ k = n
        BY <1>2
      <4> QED BY <1>2, <1>n, <3>2, <3>3, <3>4, <4>1
    <3>5. CASE j # i
      BY <1>2, <3>2, <3>3, <3>5
    <3> QED BY <3>4, <3>5
  <2>2. CASE x \notin (1 .. NumQueues) \X (1 .. QueueLimit)
    <3>1. x # <<i, n>>
      BY <1>2, <2>2
    <3> QED BY <2>2, <3>1 DEF Places
  <2> QED BY <2>1, <2>2
<1>5. Places(a) = Places(b) \union {<<i, n>>}
  BY <1>4
<1> QED BY <1>b, <1>3, <1>5, PlacesFacts, FS_AddElement

\* What a request takes from the queues is what it sends.
LEMMA RequestHeld ==
  ASSUME NEW q \in Queues
  PROVE  Cardinality(Places(q.pon)) =
           Cardinality(Places(RequestPacket(q).pon)) + Data(PacketFor(q))
<1>1. /\ q.pon \in Pons /\ NumQueues \in Nat \ {0} /\ q \in RoundRobins(NumQueues, HostFrame)
      /\ \A i \in 1 .. NumQueues : Len(q.pon[i]) <= QueueLimit
  BY Parameters DEF Queues, RoundRobins, Pons
<1>2. CASE NoFrame(q.pon)
  <2>1. RequestPacket(q) = [q EXCEPT !.allEmpty = TRUE] /\ PacketFor(q) = <<>>
    BY <1>2 DEF RequestPacket, PacketFor
  <2>2. RequestPacket(q).pon = q.pon
    BY <1>1, <2>1 DEF RoundRobins
  <2>3. Cardinality(Places(q.pon)) \in Nat
    BY PlacesFacts
  <2> QED BY <2>1, <2>2, <2>3, DataShort
<1>3. CASE ~ NoFrame(q.pon)
  <2>i. PICK i : i = Served(q)
    OBVIOUS
  <2>p. PICK pon : pon = [q.pon EXCEPT ![i] = Tail(@)]
    OBVIOUS
  <2>1. i \in 1 .. NumQueues /\ q.pon[i] # <<>>
    BY <1>1, <1>3, <2>i, ServedFacts
  <2>2. RequestPacket(q) = [q EXCEPT !.pon = pon, !.next = (i % Len(pon)) + 1, !.allEmpty = NoFrame(pon)]
    BY <1>3, <2>i, <2>p DEF RequestPacket
  <2>3. RequestPacket(q).pon = pon
    BY <1>1, <2>2 DEF RoundRobins
  <2>4. PacketFor(q) = <<Head(q.pon[i])>>
    BY <1>3, <2>i DEF PacketFor
  <2>5. Head(q.pon[i]) \in HostFrame
    BY <1>1, <2>1, TailFacts DEF Pons
  <2>6. Data(PacketFor(q)) = 1
    BY <2>4, <2>5, DataShort, CountFacts
  <2>7. Cardinality(Places(q.pon)) = Cardinality(Places(pon)) + 1
    BY <1>1, <2>1, <2>p, PlacesTake
  <2> QED BY <2>3, <2>6, <2>7
<1> QED BY <1>2, <1>3

-----------------------------------------------------------------------------
(* No frame is lost *)

(***************************************************************************)
(* A frame that waits in tmp_queue is there for good once the REPORT of    *)
(* the slot is not scheduled any more; before that, startTxMsg is, and     *)
(* finds the transmitter free.  (Linked says what a frame that was asked   *)
(* for finds.)                                                             *)
(***************************************************************************)
Orderly(s) ==
  /\ Len(s.tmp) <= 1
  /\ s.tmp # <<>> /\ s.report # None => s.startTx # None /\ MacEnd(s.mac) <= s.startTx

Keeps(s, t) == Orderly(t) /\ HeldBy(s) <= HeldBy(t)

LEMMA TmpFacts ==
  ASSUME NEW tmp \in Seq(HostFrame), Len(tmp) <= 1
  PROVE  /\ Len(tmp) \in Nat /\ Data(tmp) \in Nat /\ (tmp = <<>> => Data(tmp) = 0)
         /\ tmp # <<>> => Data(tmp) = 1 /\ Head(tmp) \in HostFrame /\ Tail(tmp) = <<>> /\ Len(tmp) = 1
<1>1. /\ Len(tmp) \in {0, 1} /\ (tmp = <<>> <=> Len(tmp) = 0)
      /\ tmp # <<>> => Len(tmp) = 1 /\ tmp[1] \in HostFrame /\ Head(tmp) = tmp[1] /\ Tail(tmp) = <<>>
  BY FirstOnly
<1>2. CASE tmp = <<>>
  BY <1>1, <1>2, DataShort
<1>3. CASE tmp # <<>>
  <2>1. Data(tmp) = Count(tmp[1])
    BY <1>1, <1>3, DataFacts
  <2> QED BY <1>1, <1>3, <2>1, CountFacts
<1> QED BY <1>2, <1>3

\* The four places where the frames of an ONU are.
LEMMA HeldFacts ==
  ASSUME NEW s \in Onus, Len(s.tmp) <= 1
  PROVE  /\ HeldBy(s) = Cardinality(Places(s.q.pon)) + Data(s.link) + Data(s.tmp) + Data(s.mac.queue)
         /\ Cardinality(Places(s.q.pon)) \in Nat /\ Data(s.link) \in Nat
         /\ Data(s.tmp) \in Nat /\ Data(s.mac.queue) \in Nat /\ HeldBy(s) \in Nat
<1>1. HeldBy(s) = Cardinality(Places(s.q.pon)) + Data(s.link) + Data(s.tmp) + Data(s.mac.queue)
  BY DEF HeldBy, QueuedBy, Places
<1>2. Cardinality(Places(s.q.pon)) \in Nat
  BY PlacesFacts
<1>3. Data(s.link) \in Nat
  <2>1. s.link \in Links
    BY OnuTyped
  <2> QED BY <2>1, DataOnLink
<1>4. Data(s.tmp) \in Nat
  <2>1. s.tmp \in Seq(HostFrame)
    BY OnuTyped
  <2> QED BY <2>1, TmpFacts
<1>5. Data(s.mac.queue) \in Nat
  <2>1. s.mac.queue \in Seq(Frame) /\ Len(s.mac.queue) \in 0 .. 2
    BY OnuTyped, MacTyped
  <2>2. Count(s.mac.queue[1]) \in Nat /\ Count(s.mac.queue[2]) \in Nat
    BY CountFacts
  <2> QED BY <2>1, <2>2, DataFacts
<1> QED BY <1>1, <1>2, <1>3, <1>4, <1>5

LEMMA HeldSame ==
  ASSUME NEW s, NEW t, t.q = s.q, t.link = s.link, t.tmp = s.tmp, t.mac.queue = s.mac.queue
  PROVE  HeldBy(t) = HeldBy(s)
BY DEF HeldBy, QueuedBy

\* startTxOnPON moves frames, and leaves none in tmp_queue with a REPORT to come.
LEMMA StartTxKeeps ==
  ASSUME NEW s, Ready(s), PollingTimes, Len(s.tmp) <= 1, FrameOn(s.link) => NoFrame(s.q.pon),
         s.tmp # <<>> /\ s.report # None => MacBacklog(s.mac) = 0
  PROVE  Keeps(s, StartTxOnPON(s))
<1>t. PICK t : t = StartTxOnPON(s)
  OBVIOUS
<1>1. /\ ~ (s.polled /\ End(s) < 0) /\ Remaining(s) = End(s) /\ End(s) \in 1 .. Window
      /\ MacBacklog(s.mac) \in Nat /\ s \in Onus /\ s.link \in Links
      /\ s.mac \in Macs /\ s.tmp \in Seq(HostFrame) /\ s.q \in Queues
  BY ReadyFacts, OnuTyped DEF Ready
<1>2. t \in Onus
  BY <1>t, StartTxFacts DEF OnuStep
<1>3. /\ HeldBy(s) = Cardinality(Places(s.q.pon)) + Data(s.link) + Data(s.tmp) + Data(s.mac.queue)
      /\ Cardinality(Places(s.q.pon)) \in Nat /\ Data(s.link) \in Nat
      /\ Data(s.tmp) \in Nat /\ Data(s.mac.queue) \in Nat /\ HeldBy(s) \in Nat
  BY <1>1, HeldFacts
<1>4. CASE MacBacklog(s.mac) > 0
  <2>v. PICK v : v = IF Remaining(s) > Delay THEN Delay ELSE None
    OBVIOUS
  <2>1. t = [s EXCEPT !.startTx = v]
    BY <1>1, <1>4, <1>t, <2>v DEF StartTxOnPON
  <2>2. t.q = s.q /\ t.link = s.link /\ t.tmp = s.tmp /\ t.mac = s.mac /\ t.report = s.report
    BY <1>1, <2>1 DEF Onus
  <2>3. HeldBy(t) = HeldBy(s)
    BY <2>2, HeldSame
  <2>4. Orderly(t)
    BY <1>1, <1>4, <2>2 DEF Orderly
  <2> QED BY <1>3, <1>t, <2>3, <2>4 DEF Keeps
<1>5. CASE ~ (MacBacklog(s.mac) > 0) /\ s.tmp = <<>>
  <2>q. PICK q : q = RequestPacket(s.q)
    OBVIOUS
  <2>l. PICK link : link = s.link \o PacketFor(s.q)
    OBVIOUS
  <2>1. t = [s EXCEPT !.q = q, !.link = link]
    BY <1>1, <1>5, <1>t, <2>q, <2>l DEF StartTxOnPON
  <2>2. t.q = q /\ t.link = link /\ t.tmp = <<>> /\ t.mac = s.mac
    BY <1>1, <1>5, <2>1 DEF Onus
  <2>3. Orderly(t)
    BY <2>2, EmptySeq DEF Orderly
  <2>4. Data(link) = Data(s.link) + Data(PacketFor(s.q)) /\ Data(PacketFor(s.q)) \in Nat
    <3>1. PacketFor(s.q) = <<>> \/ \E f \in HostFrame : PacketFor(s.q) = <<f>>
      <4>1. s.q \in RoundRobins(NumQueues, HostFrame) /\ NumQueues \in Nat \ {0}
        BY <1>1, Parameters DEF Queues
      <4> QED BY <4>1, RequestFacts
    <3>2. CASE PacketFor(s.q) = <<>>
      <4>1. link = s.link
        BY <1>1, <2>l, <3>2, JoinedFacts
      <4> QED BY <1>3, <3>2, <4>1, DataShort
    <3>3. CASE PacketFor(s.q) # <<>>
      <4>1. PICK f \in HostFrame : PacketFor(s.q) = <<f>>
        BY <3>1, <3>3
      <4>2. ~ FrameOn(s.link)
        BY <3>3 DEF PacketFor
      <4>3. link \in Links /\ FrameOn(link)
        BY <1>1, <2>l, <4>1, <4>2, JoinedFacts
      <4>4. Data(<<f>>) = 1
        BY DataShort, CountFacts
      <4> QED BY <1>1, <4>1, <4>2, <4>3, <4>4, DataOnLink
    <3> QED BY <3>2, <3>3
  <2>5. HeldBy(t) = HeldBy(s)
    <3>1. Cardinality(Places(s.q.pon)) = Cardinality(Places(q.pon)) + Data(PacketFor(s.q))
      BY <1>1, <2>q, RequestHeld
    <3>2. Len(t.tmp) <= 1
      BY <2>3 DEF Orderly
    <3>3. /\ HeldBy(t) = Cardinality(Places(q.pon)) + Data(link) + Data(<<>>) + Data(s.mac.queue)
          /\ Cardinality(Places(q.pon)) \in Nat
      BY <1>2, <2>2, <3>2, HeldFacts
    <3> QED BY <1>3, <1>5, <2>4, <3>1, <3>3, DataShort
  <2> QED BY <1>3, <1>t, <2>3, <2>5 DEF Keeps
<1>6. CASE /\ ~ (MacBacklog(s.mac) > 0) /\ s.tmp # <<>>
           /\ RepTime + Needed(Head(s.tmp)) >= Remaining(s)
  <2>m. PICK mac : mac = MacSend(s.mac, Report)
    OBVIOUS
  <2>1. t = [s EXCEPT !.mac = mac, !.report = None]
    <3>1. t = [SendReportFrame(s) EXCEPT !.report = None]
      BY <1>1, <1>6, <1>t DEF StartTxOnPON
    <3> QED BY <1>1, <2>m, <3>1 DEF SendReportFrame, Onus
  <2>2. t.q = s.q /\ t.link = s.link /\ t.tmp = s.tmp /\ t.mac = mac /\ t.report = None
    BY <1>1, <2>1 DEF Onus
  <2>3. Orderly(t)
    BY <2>2 DEF Orderly
  <2>4. Data(mac.queue) = Data(s.mac.queue)
    <3>1. MacBacklog(s.mac) = 0
      BY <1>1, <1>6
    <3>2. Data(mac.queue) = Data(s.mac.queue) + Count(Report)
      BY <1>1, <2>m, <3>1, DataSent, FrameFacts
    <3> QED BY <1>3, <3>2, CountFacts
  <2>5. HeldBy(t) = HeldBy(s)
    BY <1>1, <2>2, <2>4 DEF HeldBy, QueuedBy
  <2> QED BY <1>3, <1>t, <2>3, <2>5 DEF Keeps
<1>7. CASE /\ ~ (MacBacklog(s.mac) > 0) /\ s.tmp # <<>>
           /\ ~ (RepTime + Needed(Head(s.tmp)) >= Remaining(s))
  <2>f. PICK f : f = Head(s.tmp)
    OBVIOUS
  <2>m. PICK mac : mac = MacSend(s.mac, f)
    OBVIOUS
  <2>1. /\ f \in HostFrame /\ Tail(s.tmp) = <<>> /\ Data(s.tmp) = 1
    BY <1>1, <1>7, <2>f, TmpFacts
  <2>2. t = [s EXCEPT !.tmp = Tail(@), !.mac = mac, !.startTx = Needed(f)]
    <3>1. t = SendFrame(s)
      BY <1>1, <1>7, <1>t DEF StartTxOnPON
    <3> QED BY <2>f, <2>m, <3>1 DEF SendFrame
  <2>3. t.q = s.q /\ t.link = s.link /\ t.tmp = <<>> /\ t.mac = mac
    BY <1>1, <2>1, <2>2 DEF Onus
  <2>4. Orderly(t)
    BY <2>3, EmptySeq DEF Orderly
  <2>5. Data(mac.queue) = Data(s.mac.queue) + 1
    <3>1. MacBacklog(s.mac) = 0
      BY <1>1, <1>7
    <3>2. Data(mac.queue) = Data(s.mac.queue) + Count(f)
      BY <1>1, <2>m, <2>1, <3>1, DataSent, FrameFacts
    <3> QED BY <2>1, <3>2, CountFacts
  <2>6. HeldBy(t) = HeldBy(s)
    <3>1. Len(t.tmp) <= 1
      BY <2>4 DEF Orderly
    <3>2. HeldBy(t) = Cardinality(Places(s.q.pon)) + Data(s.link) + Data(<<>>) + Data(mac.queue)
      BY <1>2, <2>3, <3>1, HeldFacts
    <3> QED BY <1>3, <2>1, <2>5, <3>2, DataShort
  <2> QED BY <1>3, <1>t, <2>4, <2>6 DEF Keeps
<1> QED BY <1>4, <1>5, <1>6, <1>7

\* A transmitter that is done has nothing.
LEMMA MacDone ==
  ASSUME NEW m \in Macs, MacEnd(m) <= 0
  PROVE  MacBacklog(m) = 0
<1>1. CASE m.queue = <<>>
  BY <1>1 DEF MacBacklog
<1>2. CASE m.queue # <<>>
  <2>1. CASE Len(m.queue) = 1
    BY <1>2, <2>1 DEF MacBacklog
  <2>2. CASE Len(m.queue) = 2
    <3>1. Waits(m)
      BY <1>2, <2>2 DEF Waits
    <3>2. MacEnd(m) > 0 /\ MacEnd(m) \in Nat
      BY <3>1, MacTimes
    <3> QED BY <3>2
  <2> QED BY <1>2, <2>1, <2>2, MacBusy
<1> QED BY <1>1, <1>2

LEMMA StartTxFiresKeeps ==
  ASSUME NEW s \in Onus, Timed(s), Orderly(s), s.startTx = 0, PollingTimes
  PROVE  Keeps(s, StartTxFires(s))
<1>u. PICK u : u = [s EXCEPT !.startTx = None]
  OBVIOUS
<1>0. Live(s) /\ s.start <= 0 /\ 0 < End(s) /\ s.polled /\ 0 # None /\ s.mac \in Macs
  BY Parameters, OnuTyped DEF Timed, Live
<1>f. Linked(s) /\ ~ FrameOn(s.link)
  BY <1>0, Parameters DEF Timed, Linked, Expected, Overtaken
<1>1. u \in Onus
  BY <1>u DEF Onus, Timer
<1>2. /\ u.mac = s.mac /\ u.startTx = None /\ u.link = s.link /\ u.report = s.report /\ u.tmp = s.tmp
      /\ u.polled = s.polled /\ u.start = s.start /\ u.len = s.len /\ u.q = s.q
  BY <1>u DEF Onus
<1>3. Timed(u) /\ End(u) = End(s)
  <2>1. Linked(u)
    BY <1>f, <1>2, LinkedKept
  <2> QED BY <1>0, <1>2, <2>1 DEF Timed, Live, End
<1>4. Ready(u)
  BY <1>0, <1>1, <1>2, <1>3 DEF Ready
<1>5. Len(u.tmp) <= 1 /\ (u.tmp # <<>> /\ u.report # None => MacBacklog(u.mac) = 0)
  BY <1>0, <1>2, MacDone DEF Orderly
<1>6. Keeps(u, StartTxOnPON(u))
  BY <1>f, <1>2, <1>4, <1>5, StartTxKeeps
<1>7. HeldBy(u) = HeldBy(s)
  BY <1>2, HeldSame
<1> QED BY <1>u, <1>6, <1>7 DEF StartTxFires, Keeps

\* What comes from the queues is the head of tmp_queue, or nothing is done.
LEMMA DeliveredKeeps ==
  ASSUME NEW s \in Onus, Timed(s), Orderly(s), s.link # <<>>, PollingTimes
  PROVE  Keeps(s, FromHigherLayer([s EXCEPT !.link = Tail(@)], Head(s.link)))
<1>m. PICK m : m = Head(s.link)
  OBVIOUS
<1>u. PICK u : u = [s EXCEPT !.link = Tail(@)]
  OBVIOUS
<1>1. /\ u \in Onus /\ u.mac = s.mac /\ u.startTx = s.startTx /\ u.link = Tail(s.link)
      /\ u.report = s.report /\ u.tmp = s.tmp /\ u.q = s.q
      /\ FrameOn(u.link) => NoFrame(u.q.pon) \/ FromHigherLayer(u, m) = u
  BY <1>m, <1>u, DeliveredReady
<1>2. Len(s.tmp) <= 1 /\ Orderly(u)
  BY <1>1 DEF Orderly
<1>3. /\ HeldBy(s) = Cardinality(Places(s.q.pon)) + Data(s.link) + Data(s.tmp) + Data(s.mac.queue)
      /\ Cardinality(Places(s.q.pon)) \in Nat /\ Data(s.link) \in Nat
      /\ Data(s.tmp) \in Nat /\ Data(s.mac.queue) \in Nat /\ HeldBy(s) \in Nat
  BY <1>2, HeldFacts
<1>4. Data(s.link) = Count(m) + Data(u.link) /\ Data(u.link) \in Nat
  BY <1>m, <1>1, OnuTyped, DataTaken
<1>5. m = WakeUp => HeldBy(u) = HeldBy(s)
  <2> HAVE m = WakeUp
  <2>1. HeldBy(u) = Cardinality(Places(s.q.pon)) + Data(u.link) + Data(s.tmp) + Data(s.mac.queue)
    BY <1>1, <1>2, HeldFacts
  <2>2. Count(m) = 0
    BY CountFacts
  <2> QED BY <1>3, <1>4, <2>1, <2>2
<1>6. CASE m = WakeUp /\ FromHigherLayer(u, m) = u
  <2>1. HeldBy(s) <= HeldBy(u)
    BY <1>3, <1>5, <1>6
  <2> QED BY <1>m, <1>u, <1>2, <1>6, <2>1 DEF Keeps
<1>7. CASE /\ m = WakeUp /\ FromHigherLayer(u, m) # u
           /\ FromHigherLayer(u, m) = StartTxOnPON(u) /\ Ready(u) /\ s.startTx = None
  <2>1. Len(u.tmp) <= 1 /\ (u.tmp # <<>> /\ u.report # None => MacBacklog(u.mac) = 0)
    BY <1>1, <1>2, <1>7 DEF Orderly
  <2>2. Keeps(u, StartTxOnPON(u))
    BY <1>1, <1>7, <2>1, StartTxKeeps
  <2> QED BY <1>m, <1>u, <1>5, <1>7, <2>2 DEF Keeps
<1>8. CASE /\ m \in HostFrame /\ Expected(s) /\ ~ FrameOn(u.link)
           /\ FromHigherLayer(u, m) = StartTxOnPON(WithFrame(u, m)) /\ Ready(WithFrame(u, m))
  <2>n. PICK new : new = WithFrame(u, m)
    OBVIOUS
  <2>1. /\ new \in Onus /\ new.tmp = <<m>> /\ new.mac = s.mac /\ new.link = u.link
        /\ new.report = s.report /\ new.q = s.q
    <3>1. new \in Onus
      BY <1>8, <2>n DEF Ready
    <3> QED BY <1>1, <2>n, <3>1 DEF WithFrame, Onus
  <2>2. Len(new.tmp) <= 1 /\ (new.report # None => MacBacklog(new.mac) = 0)
    <3>1. Len(<<m>>) = 1
      OBVIOUS
    <3> QED BY <1>8, <2>1, <3>1 DEF Expected, Overtaken
  <2>3. Keeps(new, StartTxOnPON(new))
    BY <1>8, <2>n, <2>1, <2>2, StartTxKeeps
  <2>4. HeldBy(new) = HeldBy(s)
    <3>1. HeldBy(new) = Cardinality(Places(s.q.pon)) + Data(u.link) + Data(<<m>>) + Data(s.mac.queue)
      BY <2>1, <2>2, HeldFacts
    <3>2. Data(s.tmp) = 0
      <4>1. s.tmp = <<>>
        BY <1>8 DEF Expected
      <4> QED BY <4>1, DataShort
    <3>3. Count(m) = 1
      BY <1>8, CountFacts
    <3>4. Data(<<m>>) = Count(m) /\ Data(<<m>>) = 1
      BY <3>3, DataShort
    <3> QED BY <1>3, <1>4, <3>1, <3>2, <3>4
  <2> QED BY <1>m, <1>u, <1>8, <2>n, <2>3, <2>4 DEF Keeps
<1> QED BY <1>m, <1>u, <1>6, <1>7, <1>8, DeliveredReady

\* A frame from a host is added, or dropped by a queue that is full.
LEMMA EnqueuedKeeps ==
  ASSUME NEW s \in Onus, Timed(s), Orderly(s), ~ WakeOn(s.link),
         NEW i \in 1 .. NumQueues, NEW f \in HostFrame
  PROVE  Keeps(s, [s EXCEPT !.q = EnqueueFrame(@, i, f), !.link = @ \o WakeUpFor(s.q)])
<1>q. PICK q : q = EnqueueFrame(s.q, i, f)
  OBVIOUS
<1>l. PICK link : link = s.link \o WakeUpFor(s.q)
  OBVIOUS
<1>t. PICK t : t = [s EXCEPT !.q = q, !.link = link]
  OBVIOUS
<1>1. t \in Onus
  <2>1. OnuStep(s, [s EXCEPT !.q = EnqueueFrame(@, i, f), !.link = @ \o WakeUpFor(s.q)])
    BY EnqueuedFacts
  <2> QED BY <1>q, <1>l, <1>t, <2>1 DEF OnuStep
<1>2. Data(link) = Data(s.link)
  <2>0. s.link \in Links
    BY OnuTyped
  <2>1. CASE link = s.link \o <<WakeUp>>
    <3>1. link \in Links /\ (FrameOn(link) <=> FrameOn(s.link))
      BY <2>0, <2>1, JoinedFacts
    <3> QED BY <2>0, <3>1, DataOnLink
  <2>2. CASE link = s.link \o <<>>
    BY <2>0, <2>2, JoinedFacts
  <2> QED BY <1>l, <2>1, <2>2 DEF WakeUpFor
<1>3. /\ t.q = q /\ t.link = link /\ t.tmp = s.tmp /\ t.mac = s.mac /\ t.report = s.report
      /\ t.startTx = s.startTx
  BY <1>t DEF Onus
<1>4. Orderly(t)
  BY <1>3 DEF Orderly
<1>5. s.q.pon \in Pons /\ q.pon \in Pons /\ \A j \in 1 .. NumQueues : Len(s.q.pon[j]) <= Len(q.pon[j])
  <2>1. s.q \in Queues /\ q \in Queues
    BY <1>1, <1>3, OnuTyped
  <2>2. s.q.pon \in Pons /\ q.pon \in Pons
    BY <2>1 DEF Queues, RoundRobins, Pons
  <2>3. \A j \in 1 .. NumQueues : s.q.pon[j] \in Seq(HostFrame)
    BY <2>2 DEF Pons
  <2>4. \A j \in 1 .. NumQueues : Len(s.q.pon[j]) \in Nat
    BY <2>3, LenProperties
  <2>5. q.pon = [s.q.pon EXCEPT ![i] = IF Len(@) >= QueueLimit THEN @ ELSE Append(@, f)]
    BY <1>q, <2>1 DEF EnqueueFrame, Queues, RoundRobins
  <2>6. Len(Append(s.q.pon[i], f)) = Len(s.q.pon[i]) + 1
    BY <2>3, AppendProperties
  <2>n. PICK new : new = IF Len(s.q.pon[i]) >= QueueLimit THEN s.q.pon[i] ELSE Append(s.q.pon[i], f)
    OBVIOUS
  <2>7. Len(s.q.pon[i]) <= Len(new)
    BY <2>4, <2>6, <2>n
  <2>8. \A j \in 1 .. NumQueues : q.pon[j] = IF j = i THEN new ELSE s.q.pon[j]
    BY <2>2, <2>5, <2>n DEF Pons
  <2>9. \A n \in Nat : n <= n
    OBVIOUS
  <2>10. ASSUME NEW j \in 1 .. NumQueues PROVE Len(s.q.pon[j]) <= Len(q.pon[j])
    <3>1. CASE j = i
      BY <2>7, <2>8, <3>1
    <3>2. CASE j # i
      BY <2>4, <2>8, <2>9, <3>2
    <3> QED BY <3>1, <3>2
  <2> QED BY <2>2, <2>10
<1>6. Cardinality(Places(s.q.pon)) <= Cardinality(Places(q.pon))
  BY <1>5, PlacesGrow
<1>7. Len(s.tmp) <= 1
  BY DEF Orderly
<1>8. /\ HeldBy(s) = Cardinality(Places(s.q.pon)) + Data(s.link) + Data(s.tmp) + Data(s.mac.queue)
      /\ Cardinality(Places(s.q.pon)) \in Nat /\ Data(s.link) \in Nat
      /\ Data(s.tmp) \in Nat /\ Data(s.mac.queue) \in Nat
  BY <1>7, HeldFacts
<1>9. /\ HeldBy(t) = Cardinality(Places(q.pon)) + Data(link) + Data(s.tmp) + Data(s.mac.queue)
      /\ Cardinality(Places(q.pon)) \in Nat
  BY <1>1, <1>3, <1>7, HeldFacts
<1>10. HeldBy(s) <= HeldBy(t)
  BY <1>2, <1>6, <1>8, <1>9
<1> QED BY <1>q, <1>l, <1>t, <1>4, <1>10 DEF Keeps

\* sendReportMsg fires: what it removes from tmp_queue it has put there.
LEMMA ReportFiresKeeps ==
  ASSUME NEW s \in Onus, Timed(s), Orderly(s), s.report = 0, PollingTimes
  PROVE  Keeps(s, ReportFires(s))
<1>u. PICK u : u = [s EXCEPT !.report = None]
  OBVIOUS
<1>0. Live(s) /\ End(s) = RepLead /\ 0 # None /\ s.polled /\ RepLead \in 1 .. Window /\ s.mac \in Macs
  <2>1. Live(s) /\ 0 = End(s) - RepLead /\ 0 # None
    BY Parameters DEF Timed
  <2>2. End(s) \in Int
    BY OnuTyped
  <2>5. RepLead \in Int
    BY Parameters
  <2>3. \A a, b \in Int : 0 = a - b => a = b
    OBVIOUS
  <2>4. End(s) = RepLead
    BY <2>1, <2>2, <2>3, <2>5
  <2> QED BY <2>1, <2>4, OnuTyped DEF Live, PollingTimes
<1>1. u \in Onus
  BY <1>u DEF Onus, Timer
<1>2. /\ u.mac = s.mac /\ u.startTx = s.startTx /\ u.link = s.link /\ u.report = None /\ u.q = s.q
      /\ u.polled = s.polled /\ u.start = s.start /\ u.len = s.len /\ u.tmp = s.tmp
  BY <1>u DEF Onus
<1>3. HeldBy(u) = HeldBy(s) /\ HeldBy(s) \in Nat /\ Data(s.mac.queue) \in Nat
  <2>1. Len(s.tmp) <= 1
    BY DEF Orderly
  <2> QED BY <1>2, <2>1, HeldSame, HeldFacts
<1>4. CASE s.startTx # None
  <2>1. ReportFires(s) = u
    BY <1>u, <1>2, <1>4 DEF ReportFires, SendReport
  <2>2. Orderly(u)
    BY <1>2 DEF Orderly
  <2> QED BY <1>3, <2>1, <2>2 DEF Keeps
<1>5. CASE s.startTx = None
  <2>r. PICK r : r = [u EXCEPT !.tmp = <<Report>>]
    OBVIOUS
  <2>1. s.tmp = <<>>
    BY <1>0, <1>5 DEF Orderly
  <2>2. ReportFires(s) = [StartTxOnPON(r) EXCEPT !.tmp = IF Len(@) = 1 THEN <<>> ELSE @]
    BY <1>u, <1>2, <1>5, <2>1, <2>r DEF ReportFires, SendReport
  <2>3. /\ r.mac = s.mac /\ r.startTx = None /\ r.polled /\ r.start = s.start /\ r.len = s.len
        /\ r.tmp = <<Report>>
    BY <1>0, <1>1, <1>2, <1>5, <2>r DEF Onus
  <2>4. End(r) = RepLead /\ ~ (r.polled /\ End(r) < 0)
    BY <1>0, <2>3 DEF End
  <2>5. Remaining(r) = RepLead
    <3>1. RepLead \in 0 .. Period - 1
      BY <1>0, Parameters DEF PollingTimes
    <3> QED BY <2>4, <3>1, Around, Parameters DEF Remaining
  <2>6. MacBacklog(s.mac) \in Nat
    BY <1>0, MacTyped DEF MacBacklog
  <2>7. CASE MacBacklog(s.mac) > 0
    <3>v. PICK v : v = IF Remaining(r) > Delay THEN Delay ELSE None
      OBVIOUS
    <3>1. StartTxOnPON(r) = [r EXCEPT !.startTx = v]
      BY <2>3, <2>4, <2>7, <3>v DEF StartTxOnPON
    <3>t. PICK t : t = [u EXCEPT !.startTx = v]
      OBVIOUS
    <3>2. ReportFires(s) = t
      <4>x. PICK x : x = [r EXCEPT !.startTx = v]
        OBVIOUS
      <4>1. x.tmp = <<Report>> /\ Len(<<Report>>) = 1
        BY <1>1, <2>r, <4>x DEF Onus
      <4>2. ReportFires(s) = [x EXCEPT !.tmp = <<>>]
        BY <2>2, <3>1, <4>x, <4>1
      <4>3. [x EXCEPT !.tmp = <<>>] = t
        BY <1>1, <1>2, <2>1, <2>r, <3>t, <4>x DEF Onus
      <4> QED BY <4>2, <4>3
    <3>3. /\ t.mac = s.mac /\ t.link = s.link /\ t.report = None /\ t.q = s.q /\ t.tmp = s.tmp
      BY <1>1, <1>2, <3>t DEF Onus
    <3>4. Orderly(t)
      BY <3>3 DEF Orderly
    <3>5. HeldBy(t) = HeldBy(s)
      BY <3>3, HeldSame
    <3> QED BY <1>3, <3>2, <3>4, <3>5 DEF Keeps
  <2>8. CASE ~ (MacBacklog(s.mac) > 0)
    <3>1. RepTime + Needed(Head(r.tmp)) >= Remaining(r)
      <4>1. RepTime + Ifg >= RepLead
        BY Parameters DEF PollingTimes
      <4>2. Head(r.tmp) = Report
        BY <2>3
      <4>3. Needed(Report) \in Nat /\ Needed(Report) >= Ifg
        BY FrameFacts, Parameters
      <4> QED BY <2>5, <4>1, <4>2, <4>3, Parameters
    <3>m. PICK mac : mac = MacSend(s.mac, Report)
      OBVIOUS
    <3>t. PICK t : t = [u EXCEPT !.mac = mac]
      OBVIOUS
    <3>2. StartTxOnPON(r) = [r EXCEPT !.mac = mac, !.report = None]
      <4>1. r.tmp # <<>>
        BY <2>3
      <4>2. StartTxOnPON(r) = [SendReportFrame(r) EXCEPT !.report = None]
        BY <2>3, <2>4, <2>8, <3>1, <4>1 DEF StartTxOnPON
      <4> QED BY <2>3, <3>m, <4>2 DEF SendReportFrame
    <3>3. ReportFires(s) = t
      <4>x. PICK x : x = [r EXCEPT !.mac = mac, !.report = None]
        OBVIOUS
      <4>1. x.tmp = <<Report>> /\ Len(<<Report>>) = 1
        BY <1>1, <2>r, <4>x DEF Onus
      <4>2. ReportFires(s) = [x EXCEPT !.tmp = <<>>]
        BY <2>2, <3>2, <4>x, <4>1
      <4>3. [x EXCEPT !.tmp = <<>>] = t
        BY <1>1, <1>2, <2>1, <2>r, <3>t, <4>x DEF Onus
      <4> QED BY <4>2, <4>3
    <3>4. t.mac = mac /\ t.link = s.link /\ t.tmp = s.tmp /\ t.q = s.q /\ t.report = None
      BY <1>1, <1>2, <3>t DEF Onus
    <3>5. Data(mac.queue) = Data(s.mac.queue)
      <4>1. MacBacklog(s.mac) = 0
        BY <2>6, <2>8
      <4>2. Data(mac.queue) = Data(s.mac.queue) + Count(Report)
        BY <1>0, <3>m, <4>1, DataSent, FrameFacts
      <4> QED BY <1>3, <4>2, CountFacts
    <3>6. HeldBy(t) = HeldBy(s)
      BY <3>4, <3>5 DEF HeldBy, QueuedBy
    <3>7. Orderly(t)
      BY <3>4 DEF Orderly
    <3> QED BY <1>3, <3>3, <3>6, <3>7 DEF Keeps
  <2> QED BY <2>7, <2>8
<1> QED BY <1>4, <1>5

\* A GATE comes when the transmitter will be done at the start of the slot.
LEMMA GateKeeps ==
  ASSUME NEW s \in Onus, Timed(s), Orderly(s), ~ Live(s), PollingTimes,
         NEW start \in Int, start <= Guard, RepLead <= start + Window,
         MacEnd(s.mac) <= 0 \/ MacEnd(s.mac) <= start
  PROVE  Keeps(s, ProcessGate(s, start, Window))
<1>t. PICK t : t = ProcessGate(s, start, Window)
  OBVIOUS
<1>1. t \in Onus /\ t.mac = s.mac /\ At(t) >= start /\ Timed(t) /\ Live(t) /\ t.start = start
  BY <1>t, GateFacts
<1>2. t.q = s.q /\ t.link = s.link /\ t.tmp = s.tmp /\ t.startTx # None
  <2>u. PICK u : u = [s EXCEPT !.polled = TRUE, !.start = start, !.len = Window]
    OBVIOUS
  <2>w. PICK w : w = ScheduleStart(u)
    OBVIOUS
  <2>1. t = ScheduleReport(w)
    BY <1>t, <2>u, <2>w DEF ProcessGate
  <2>2. u.q = s.q /\ u.link = s.link /\ u.tmp = s.tmp /\ u \in Onus /\ u.start = start /\ u.len = Window
    BY <2>u, Parameters DEF Onus
  <2>v. PICK v : v = IF 0 > u.start /\ 0 < End(u) THEN 0 ELSE IF 0 > End(u) THEN None ELSE u.start % Period
    OBVIOUS
  <2>3. w = [u EXCEPT !.startTx = v]
    BY <2>v, <2>w DEF ScheduleStart
  <2>4. v \in Nat /\ v # None
    <3>1. End(u) > 0
      BY <2>2, Parameters DEF End, PollingTimes
    <3>2. start % Period \in Nat
      BY Parameters
    <3> QED BY <2>2, <2>v, <3>1, <3>2, Parameters
  <2>5. w.q = s.q /\ w.link = s.link /\ w.tmp = s.tmp /\ w.startTx = v /\ w \in Onus
    BY <2>2, <2>3, <2>4 DEF Onus, Timer
  <2>x. PICK x : x = Remaining(w) - RepLead
    OBVIOUS
  <2>6. t = [w EXCEPT !.error = TRUE] \/ t = [w EXCEPT !.report = x]
    BY <2>1, <2>x DEF ScheduleReport
  <2>7. t.q = w.q /\ t.link = w.link /\ t.tmp = w.tmp /\ t.startTx = w.startTx
    BY <2>5, <2>6 DEF Onus
  <2> QED BY <2>4, <2>5, <2>7
<1>3. t.startTx = At(t) /\ At(t) \in Nat
  BY <1>1, <1>2, OnuTyped DEF At
<1>4. MacEnd(s.mac) <= t.startTx
  <2>1. MacEnd(s.mac) \in Nat
    BY OnuTyped, MacTimes
  <2> QED BY <1>1, <1>3, <2>1
<1>5. Orderly(t)
  BY <1>1, <1>2, <1>4 DEF Orderly
<1>6. HeldBy(t) = HeldBy(s)
  BY <1>1, <1>2, HeldSame
<1>7. HeldBy(s) \in Nat
  BY HeldFacts DEF Orderly
<1> QED BY <1>t, <1>5, <1>6, <1>7 DEF Keeps

\* A timer of the transmitter: a frame is through, or nothing is gone.
LEMMA TimerKeeps ==
  ASSUME NEW s \in Onus, Timed(s), Orderly(s), s.mac.timer = 0
  PROVE  LET t == MacTimerFires(s)
         IN  Orderly(t) /\ (HeldBy(s) <= HeldBy(t) \/ (OnTheLine(s) /\ ~ OnTheLine(t)))
<1>t. PICK t : t = MacTimerFires(s)
  OBVIOUS
<1>m. PICK mac : mac = AfterTimer(s.mac)
  OBVIOUS
<1>1. s.mac \in Macs /\ t = [s EXCEPT !.mac = mac]
  BY <1>t, <1>m, OnuTyped DEF MacTimerFires, AfterTimer
<1>2. /\ t.mac = mac /\ t.q = s.q /\ t.tmp = s.tmp /\ t.link = s.link /\ t.report = s.report
      /\ t.startTx = s.startTx
  BY <1>1 DEF Onus
<1>3. MacEnd(mac) = MacEnd(s.mac)
  BY <1>1, <1>m, DepartsFacts, RestsFacts
<1>4. Orderly(t)
  BY <1>2, <1>3 DEF Orderly
<1>5. HeldBy(s) \in Nat
  BY HeldFacts DEF Orderly
<1>6. CASE Data(mac.queue) = Data(s.mac.queue)
  <2>1. HeldBy(t) = HeldBy(s)
    BY <1>2, <1>6 DEF HeldBy, QueuedBy
  <2> QED BY <1>t, <1>4, <1>5, <2>1
<1>7. CASE s.mac.state = "tx" /\ Head(s.mac.queue).data /\ mac.state # "tx"
  BY <1>t, <1>2, <1>4, <1>7 DEF OnTheLine
<1> QED BY <1>1, <1>m, <1>6, <1>7, DataTimer

\* Time passes for startTxMsg and for the transmitter.
LEMMA TickKeepsFrames ==
  ASSUME NEW s \in Onus, Timed(s), Orderly(s), ~ OnuDue(s), PollingTimes
  PROVE  Keeps(s, OnuTick(s))
<1>t. PICK t : t = OnuTick(s)
  OBVIOUS
<1>1. t \in Onus /\ s.mac.timer # 0 /\ t.mac = [s.mac EXCEPT !.timer = Elapse(@)] /\ s.mac \in Macs
  BY <1>t, TickOnu, OnuTyped
<1>2. s.startTx # 0
  BY DEF OnuDue
<1>3. /\ t.q = s.q /\ t.tmp = s.tmp /\ t.link = s.link /\ t.report = Elapse(s.report)
      /\ t.startTx = Elapse(s.startTx)
  BY <1>t DEF OnuTick, Onus
<1>4. /\ t.mac.queue = s.mac.queue /\ t.mac \in Macs
      /\ s.mac.queue # <<>> => MacEnd(t.mac) = MacEnd(s.mac) - 1
  BY <1>1, MacTickFacts
<1>5. HeldBy(t) = HeldBy(s) /\ HeldBy(s) \in Nat
  BY <1>3, <1>4, HeldSame, HeldFacts DEF Orderly
<1>6. ASSUME s.tmp # <<>>, t.report # None
      PROVE  t.startTx # None /\ MacEnd(t.mac) <= t.startTx
  <2>1. s.report # None
    BY <1>3, <1>6 DEF Elapse
  <2>2. s.startTx # None /\ MacEnd(s.mac) <= s.startTx /\ s.startTx \in Nat
    BY <1>6, <2>1, OnuTyped DEF Orderly
  <2>3. t.startTx = s.startTx - 1 /\ t.startTx \in Nat /\ t.startTx # None
    BY <1>2, <1>3, <2>2, Parameters DEF Elapse
  <2>4. MacEnd(s.mac) \in Nat /\ MacEnd(t.mac) \in Nat
    BY <1>1, <1>4, MacTimes
  <2>5. CASE s.mac.queue = <<>>
    BY <1>4, <2>3, <2>5, MacTimes
  <2>6. CASE s.mac.queue # <<>>
    BY <1>4, <2>2, <2>3, <2>4, <2>6
  <2> QED BY <2>5, <2>6
<1>7. Orderly(t)
  BY <1>2, <1>3, <1>6 DEF Orderly
<1> QED BY <1>t, <1>5, <1>7 DEF Keeps

AllOrderly == \A p \in Ports : Orderly(onu[p])

\* What an ONU holds leaves it over the line or not at all.
Careful(s, t) == Orderly(t) /\ (HeldBy(s) <= HeldBy(t) \/ (OnTheLine(s) /\ ~ OnTheLine(t)))

LEMMA OrderlyStarts == Init => AllOrderly
<1> SUFFICES ASSUME Init, NEW p \in Ports PROVE Orderly(onu[p])
  BY DEF AllOrderly
<1>1. onu[p] = OnuInit(NumQueues)
  BY DEF Init
<1>2. onu[p].tmp = <<>>
  BY <1>1 DEF OnuInit
<1> QED BY <1>2, EmptySeq DEF Orderly

\* One ONU changes.
LEMMA OneCareful ==
  ASSUME PonInv, AllOrderly, NEW p \in Ports, NEW t, onu' = [onu EXCEPT ![p] = t], Careful(onu[p], t)
  PROVE  \A q \in Ports : Careful(onu[q], onu'[q])
<1>1. \A q \in Ports : onu'[q] = IF q = p THEN t ELSE onu[q]
  BY PonOnus
<1>2. ASSUME NEW q \in Ports PROVE HeldBy(onu[q]) <= HeldBy(onu[q]) /\ Orderly(onu[q])
  <2>1. onu[q] \in Onus /\ Orderly(onu[q])
    BY PonOnus DEF AllOrderly
  <2>2. HeldBy(onu[q]) \in Nat
    BY <2>1, HeldFacts DEF Orderly
  <2> QED BY <2>1, <2>2
<1> QED BY <1>1, <1>2 DEF Careful

\* The GATE that reaches an ONU finds its transmitter done when the slot begins.
LEMMA GateAtOnuCareful ==
  ASSUME NEW near, NEW late, Covers(near, late), PollingTimes, SafeInv(near, late), AllOrderly,
         NEW p \in Ports, GateAtOnu(p)
  PROVE  \A q \in Ports : Careful(onu[q], onu'[q])
<1>s. PICK s : s = onu[p]
  OBVIOUS
<1>g. PICK g : g = down[p][1]
  OBVIOUS
<1>0. /\ PonInv /\ Carried /\ PollerInv /\ PendingClear(near) /\ near \in Nat
      /\ down[p] # <<>> /\ Orderly(s)
  BY <1>s, CoversFacts DEF SafeInv, PonInv, GateAtOnu, AllOrderly
<1>1. Head(down[p]) = g /\ g.start \in Int /\ g.in \in Nat
  BY <1>0, <1>g, FibreTyped
<1>2. Coming(g.start, g.in, slot[p], s)
  BY <1>0, <1>g, <1>s DEF Carried, GatesOnFibres
<1>3. slot[p] \in Int /\ slot[p] <= Guard
  BY <1>0, PollerTyped
<1>4. g.start = slot[p] /\ ~ Live(s) /\ RepLead <= slot[p] + Window
  BY <1>1, <1>2, <1>3, ComingFacts
<1>5. s \in Onus /\ Timed(s) /\ s.mac \in Macs
  BY <1>0, <1>s, PonOnus, OnuTyped
<1>6. MacEnd(s.mac) <= 0 \/ MacEnd(s.mac) <= slot[p]
  <2>1. CASE s.mac.queue = <<>>
    <3>1. MacEnd(s.mac) = 0
      BY <1>5, <2>1, MacTimes
    <3> QED BY <3>1
  <2>2. CASE s.mac.queue # <<>>
    <3>1. Dist[p] + MacEnd(s.mac) <= slot[p] + near
      BY <1>0, <1>s, <2>2 DEF PendingClear, Pending
    <3>2. Dist[p] \in Nat /\ near <= Dist[p] /\ MacEnd(s.mac) \in Nat
      BY <1>5, DistTyped, CoversFacts, MacTimes
    <3> QED BY <1>0, <1>3, <3>1, <3>2
  <2> QED BY <2>1, <2>2
<1>t. PICK t : t = ProcessGate(s, slot[p], Window)
  OBVIOUS
<1>7. Keeps(s, t)
  BY <1>0, <1>3, <1>4, <1>5, <1>6, <1>t, GateKeeps
<1>8. onu' = [onu EXCEPT ![p] = t]
  BY <1>1, <1>4, <1>s, <1>t DEF GateAtOnu
<1> QED BY <1>0, <1>7, <1>8, <1>s, OneCareful DEF Keeps, Careful, SafeInv

\* No step takes a frame from an ONU, except the end of its time on the line.
LEMMA StepCareful ==
  ASSUME NEW near, NEW late, Covers(near, late), PollingTimes, SafeInv(near, late), AllOrderly,
         [Next]_vars
  PROVE  \A q \in Ports : Careful(onu[q], onu'[q])
<1> DEFINE Goal == \A q \in Ports : Careful(onu[q], onu'[q])
<1>0. PonInv /\ \A p \in Ports : onu[p] \in Onus /\ Timed(onu[p]) /\ Orderly(onu[p])
  BY PonOnus DEF SafeInv, AllOrderly
<1>1. ASSUME onu' = onu PROVE Goal
  <2>1. ASSUME NEW q \in Ports PROVE Careful(onu[q], onu[q])
    <3>1. HeldBy(onu[q]) \in Nat
      BY <1>0, HeldFacts DEF Orderly
    <3> QED BY <1>0, <3>1 DEF Careful
  <2> QED BY <1>1, <2>1
<1>2. ASSUME NEW p \in Ports, NEW t, onu' = [onu EXCEPT ![p] = t], Keeps(onu[p], t)
      PROVE  Goal
  BY <1>0, <1>2, OneCareful DEF Keeps, Careful
<1>3. ASSUME NEW p \in Ports, FrameArrives(p) PROVE Goal
  <2>1. ~ WakeOn(onu[p].link)
    BY <1>3 DEF FrameArrives, WakeOn
  <2>2. PICK i \in 1 .. NumQueues, air \in Airs :
          onu' = [onu EXCEPT ![p].q = EnqueueFrame(@, i, [air |-> air, data |-> TRUE]),
                             ![p].link = @ \o WakeUpFor(onu[p].q)]
    BY <1>3 DEF FrameArrives
  <2>3. [air |-> air, data |-> TRUE] \in HostFrame
    BY DEF HostFrame
  <2>4. onu' = [onu EXCEPT ![p] = [onu[p] EXCEPT
                  !.q = EnqueueFrame(@, i, [air |-> air, data |-> TRUE]),
                  !.link = @ \o WakeUpFor(onu[p].q)]]
    BY <1>0, <2>2, PonOnus DEF Onus
  <2> QED BY <1>0, <1>2, <2>1, <2>3, <2>4, EnqueuedKeeps
<1>4. ASSUME NEW p \in Ports, LinkDelivers(p) PROVE Goal
  <2>1. onu[p].link # <<>>
        /\ onu' = [onu EXCEPT ![p] = FromHigherLayer([onu[p] EXCEPT !.link = Tail(@)], Head(onu[p].link))]
    BY <1>4 DEF LinkDelivers
  <2> QED BY <1>0, <1>2, <2>1, DeliveredKeeps
<1>5. ASSUME NEW p \in Ports, StartTx(p) PROVE Goal
  <2>1. onu[p].startTx = 0 /\ onu' = [onu EXCEPT ![p] = StartTxFires(onu[p])]
    BY <1>5 DEF StartTx
  <2> QED BY <1>0, <1>2, <2>1, StartTxFiresKeeps
<1>6. ASSUME NEW p \in Ports, ReportTime(p) PROVE Goal
  <2>1. onu[p].report = 0 /\ onu' = [onu EXCEPT ![p] = ReportFires(onu[p])]
    BY <1>6 DEF ReportTime
  <2> QED BY <1>0, <1>2, <2>1, ReportFiresKeeps
<1>7. ASSUME NEW p \in Ports, MacTimer(p) PROVE Goal
  <2>1. /\ onu[p].mac.timer = 0
        /\ onu' = [onu EXCEPT ![p] = MacTimerFires(onu[p])]
    BY <1>7 DEF MacTimer
  <2>2. Careful(onu[p], MacTimerFires(onu[p]))
    BY <1>0, <2>1, TimerKeeps DEF Careful
  <2> QED BY <1>0, <2>1, <2>2, OneCareful
<1>8. ASSUME NEW p \in Ports, GateAtOnu(p) PROVE Goal
  BY <1>8, GateAtOnuCareful
<1>9. ASSUME Tick PROVE Goal
  <2>1. \A q \in Ports : onu'[q] = OnuTick(onu[q]) /\ ~ OnuDue(onu[q])
    BY <1>9 DEF Tick
  <2> QED BY <1>0, <2>1, TickKeepsFrames DEF Keeps, Careful
<1>10. (UNCHANGED vars) \/ Register \/ SendGate \/ GateAtSplitter \/ (\E p \in Ports : FrameAtSplitter(p))
         => onu' = onu
  BY DEF vars, Register, SendGate, GateAtSplitter, FrameAtSplitter
<1> HIDE DEF Goal
<1>11. Goal
  BY <1>1, <1>3, <1>4, <1>5, <1>6, <1>7, <1>8, <1>9, <1>10 DEF Next, Event
<1> QED BY <1>11 DEF Goal

(***************************************************************************)
(* With the times of PollingTimes, a guard that covers what runs past a    *)
(* slot, and frames of hosts that reach the queues of an ONU one at a time *)
(* (FrameArrives), an ONU loses no frame.  A frame that was asked for may  *)
(* come before or after any timer of the same instant, also after the      *)
(* REPORT; it never finds another one in tmp_queue, sendReport never finds *)
(* it there with startTxMsg not scheduled, and a GATE leaves what waits    *)
(* where it is (sendReport, startTxOnPON).  The guard matters: with a      *)
(* transmitter still busy with the last slot at the start of the next, a   *)
(* frame may be taken.                                                     *)
(***************************************************************************)
THEOREM FramesNeverLost ==
  ASSUME PollingTimes, GuardCovers
  PROVE  Spec => NoFrameLost
<1> DEFINE Lost == \A p \in Ports :
             (onu[p].polled /\ HeldBy(onu'[p]) < HeldBy(onu[p])) =>
               OnTheLine(onu[p]) /\ ~ OnTheLine(onu'[p])
<1>1. PICK near, late : Covers(near, late)
  BY DEF GuardCovers
<1> DEFINE Inv == SafeInv(near, late) /\ AllOrderly
<1>2. Init => Inv
  BY <1>1, SafeStarts, OrderlyStarts
<1>3. Inv /\ [Next]_vars => Inv'
  <2> SUFFICES ASSUME Inv, [Next]_vars PROVE Inv'
    OBVIOUS
  <2>1. SafeInv(near, late)'
    BY <1>1, SafeStep
  <2>2. \A q \in Ports : Careful(onu[q], onu'[q])
    BY <1>1, StepCareful
  <2>3. AllOrderly'
    BY <2>2 DEF Careful, AllOrderly
  <2> QED BY <2>1, <2>3
<1>4. Inv /\ [Next]_vars => [Lost]_vars
  <2> SUFFICES ASSUME Inv, [Next]_vars PROVE Lost
    OBVIOUS
  <2>1. \A q \in Ports : Careful(onu[q], onu'[q])
    BY <1>1, StepCareful
  <2>2. SafeInv(near, late)' /\ PonInv /\ PonInv'
    BY <1>1, SafeStep DEF SafeInv
  <2>3. ASSUME NEW q \in Ports PROVE HeldBy(onu[q]) \in Nat /\ HeldBy(onu'[q]) \in Nat
    <3>1. onu[q] \in Onus /\ Orderly(onu[q])
      BY <2>2, PonOnus DEF AllOrderly
    <3>2. onu'[q] \in Onus /\ Orderly(onu'[q])
      BY <2>1, <2>2 DEF PonInv, Careful
    <3> QED BY <3>1, <3>2, HeldFacts DEF Orderly
  <2>4. \A a, b \in Nat : a <= b => ~ (b < a)
    OBVIOUS
  <2> QED BY <2>1, <2>3, <2>4 DEF Careful
<1> HIDE DEF Inv
<1> QED BY <1>2, <1>3, <1>4, PTL DEF Spec, NoFrameLost
=============================================================================
