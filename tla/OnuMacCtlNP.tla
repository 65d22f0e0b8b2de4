---------------------------- MODULE OnuMacCtlNP ----------------------------
(***************************************************************************)
(* The transmitting side of an ONU without polling: the MAC control        *)
(* ONUMacCtl_NP between the queues of OnuQueues and the transmitter of     *)
(* EponMac, as operators on a record.  It keeps to the slot of the last    *)
(* GATE, repeated every super slot, with two timers and a start register   *)
(* that it shifts.  OnuMacCtl runs one ONU, NonPollingPon several.         *)
(*                                                                         *)
(* Time advances in ticks of one ns16 unit.  Registers are uint32_t values *)
(* modulo ClockMax + 1; timers hold the ticks left.                        *)
(***************************************************************************)
EXTENDS OnuQueues, EponMac

CONSTANTS
  ClockMax,    \* MPCP_CLOCK_MAX = 2^32 - 1
  SlotTime,   \* slotTime16ns, the length of the super slot
  Delay,       \* transmission time of 64 bytes, the wait for a busy MAC
  NumQueues    \* LLIDs of the ONU

ASSUME OnuParameters ==
  /\ ClockMax \in Nat \ {0} /\ SlotTime \in Nat \ {0} /\ Delay \in Nat
  /\ Ifg \in Nat \ {0} /\ Extra \in Nat /\ None \notin Nat
  /\ NumQueues \in Nat \ {0} /\ QueueLimit \in Nat

(***************************************************************************)
(* clock, start, len, state, gates, startTx and stopTx are the members of  *)
(* the MAC control, tmp is its tmp_queue; q and mac are the states of the  *)
(* other two modules, and link holds what the queues have sent, which is   *)
(* delivered without delay.                                                *)
(***************************************************************************)
OnuInit ==
  [clock |-> 0, start |-> 0, len |-> 0, state |-> "init", gates |-> 0,
   startTx |-> None, stopTx |-> None, tmp |-> <<>>, link |-> <<>>, mac |-> MacInit,
   q |-> [pon |-> [i \in 1 .. NumQueues |-> <<>>], next |-> 1, allEmpty |-> TRUE]]

-----------------------------------------------------------------------------
(* Registers *)

U32(x) == x % (ClockMax + 1)
End(s) == U32(s.start + s.len)
Remaining(s) == U32(s.start + s.len - s.clock)
InSlot(s) == s.clock >= s.start /\ s.clock < End(s)
Needed(f) == f.air + Ifg                       \* timereq, as the control counts it

\* ceil((double)(clock_reg - start_reg) / slotTime16ns)
LostSlots(s) == (U32(s.clock - s.start) + SlotTime - 1) \div SlotTime

-----------------------------------------------------------------------------
(* The functions of ONUMacCtl_NP, as functions of the state *)

(***************************************************************************)
(* scheduleStartTxPeriod.  A start that lies more than a slot behind the   *)
(* clock is taken for one that has wrapped while the clock has not.        *)
(***************************************************************************)
ScheduleStart(s) ==
  [s EXCEPT !.state = "off",
            !.startTx = IF s.start # 0 /\ s.start + s.len < s.clock
                        THEN ClockMax - s.clock + s.start
                        ELSE IF s.start >= s.clock THEN s.start - s.clock ELSE 0]

ScheduleStop(s) == [s EXCEPT !.stopTx = Remaining(s)]

\* Mutant: the start register moves by the ONU's own slot.
ShiftStartOwn(s, n) ==
  ScheduleStart([s EXCEPT !.start = (@ + n * s.len) % ClockMax])

\* shiftStart1Slot and shiftStartXSlots
ShiftStart(s, n) ==
  ScheduleStart([s EXCEPT !.start = (@ + n * SlotTime) % ClockMax])

\* Call requestPacket of the queue module.
Request(s) == [s EXCEPT !.q = RequestPacket(@), !.link = @ \o PacketFor(s.q)]

\* Mutant: startTxMsg is not cancelled.
GoToIdleKeepsStart(s) == ScheduleStop([s EXCEPT !.state = "idle"])

GoToIdle(s) == ScheduleStop([s EXCEPT !.state = "idle", !.startTx = None])
GoToSleep(s) == [Request(s) EXCEPT !.state = "sleep"]

(***************************************************************************)
(* clockSync, the first thing every event does: the clock register follows *)
(* the simulation time simT, which simTimeToNS16 returns modulo ClockMax.  *)
(* When that has wrapped, a start register behind it is shifted; otherwise *)
(* the transmission is switched off.                                       *)
(***************************************************************************)
ClockSync(s, simT) ==
  LET synced == [s EXCEPT !.clock = simT]
  IN  IF simT >= s.clock THEN synced
      ELSE IF s.start < simT THEN ShiftStart(synced, LostSlots(synced))
      ELSE [synced EXCEPT !.state = "off", !.startTx = None, !.stopTx = None]

\* The head of tmp_queue fits in what is left of the slot: pass it to the
\* transmitter and come back when it is out.
SendFrame(s) ==
  LET f == Head(s.tmp)
  IN  [s EXCEPT !.state = "on", !.tmp = Tail(@), !.startTx = Needed(f),
                !.mac = MacSend(@, f)]

\* It does not fit: wait for the next slot, and discard it if it would not
\* fit in a whole one.
Fragmented(s) ==
  [ShiftStart(s, 1) EXCEPT
     !.stopTx = None,
     !.tmp = IF s.len < Needed(Head(@)) THEN Tail(@) ELSE @]

(***************************************************************************)
(* startTxOnPON: nothing is sent after the slot, while the transmitter has *)
(* a queue (wait for 64 byte times, in whatever state), or without a frame *)
(* (ask for one, and idle until the slot ends; before the first grant      *)
(* start_reg is 0 and there is no slot).                                   *)
(***************************************************************************)
StartTxOnPON(s) ==
  IF s.start # 0 /\ s.clock > End(s) THEN ShiftStart(s, 1)
  ELSE IF MacBacklog(s.mac) > 0
  THEN IF Remaining(s) > Delay THEN [s EXCEPT !.startTx = Delay] ELSE ShiftStart(s, 1)
  ELSE IF s.tmp = <<>>
  THEN IF s.start = 0 THEN [Request(s) EXCEPT !.state = "off"] ELSE GoToIdle(Request(s))
  ELSE IF Remaining(s) < Needed(Head(s.tmp)) THEN Fragmented(s) ELSE SendFrame(s)

\* handleStopTxPeriod
StopTxPeriod(s) ==
  LET off == [s EXCEPT !.state = "off"]
  IN  IF s.tmp = <<>> THEN GoToSleep(off) ELSE ShiftStart(off, 1)

\* Mutant: a wake-up starts the transmission whatever the time.
RescheduleNow(s) ==
  IF s.state \in {"idle", "sleep"} THEN StartTxOnPON([s EXCEPT !.stopTx = None]) ELSE s

\* Mutant: a sleeping ONU that has missed its slot does not look for the next.
RescheduleNever(s) ==
  IF s.state = "idle" THEN StartTxOnPON([s EXCEPT !.stopTx = None])
  ELSE IF s.state # "sleep" THEN s
  ELSE IF s.clock < s.start THEN ScheduleStart(s)
  ELSE IF InSlot(s) THEN StartTxOnPON([s EXCEPT !.stopTx = None])
  ELSE s

(***************************************************************************)
(* processFrameFromHigherLayer, after the frame has been put in tmp_queue  *)
(* (or the WAKE UP discarded): transmit at once when idle; when asleep,    *)
(* find the next slot.                                                     *)
(***************************************************************************)
Reschedule(s) ==
  IF s.state = "idle" THEN StartTxOnPON([s EXCEPT !.stopTx = None])
  ELSE IF s.state # "sleep" THEN s
  ELSE IF s.clock < s.start THEN ScheduleStart(s)
  ELSE IF InSlot(s) THEN StartTxOnPON([s EXCEPT !.stopTx = None])
  ELSE ShiftStart(s, LostSlots(s))

FromHigherLayer(s, m) ==
  IF s.start = 0 THEN s             \* pre-conf stage: dropped
  ELSE Reschedule(IF m = WakeUp THEN s ELSE [s EXCEPT !.tmp = Append(@, m)])

\* processMPCP for a GATE.
ProcessGate(s, g) ==
  LET new == [s EXCEPT !.start = g.start, !.len = g.length, !.gates = @ + 1]
  IN  IF s.gates = 0 THEN ScheduleStart([new EXCEPT !.stopTx = None])
      ELSE IF s.clock > End(new) THEN ShiftStart(new, LostSlots(new))
      ELSE IF InSlot(new) THEN StartTxOnPON(ScheduleStop(new))
      ELSE ScheduleStart(new)

-----------------------------------------------------------------------------
(* The events of an ONU at the time simT *)

\* What the queues have sent reaches the MAC control.
Delivered(s, simT) ==
  FromHigherLayer(ClockSync([s EXCEPT !.link = Tail(@)], simT), Head(s.link))

GateReceived(s, simT, g) == ProcessGate(ClockSync(s, simT), g)

\* startTxMsg.  In TX_IDLE this is an error that ends the simulation.
StartTxFires(s, simT) ==
  LET now == ClockSync([s EXCEPT !.startTx = None], simT)
  IN  IF now.state = "idle" THEN [now EXCEPT !.state = "error"] ELSE StartTxOnPON(now)

StopTxFires(s, simT) == StopTxPeriod(ClockSync([s EXCEPT !.stopTx = None], simT))

\* endIFGMsg or endTxMsg of the transmitter.
MacTimerFires(s) ==
  [s EXCEPT !.mac = IF @.state = "ifg" THEN MacEndIFG(@) ELSE MacEndTx(@)]

\* Time passes when no event is due.
OnuDue(s) == s.link # <<>> \/ s.startTx = 0 \/ s.stopTx = 0 \/ s.mac.timer = 0
Elapse(t) == IF t = None THEN None ELSE t - 1
OnuTick(s) ==
  [s EXCEPT !.startTx = Elapse(@), !.stopTx = Elapse(@), !.mac.timer = Elapse(@)]
=============================================================================
