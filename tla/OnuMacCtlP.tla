----------------------------- MODULE OnuMacCtlP -----------------------------
(***************************************************************************)
(* The MAC control of an ONU under polling, ONUMacCtl_P, between the       *)
(* queues of OnuQueues and the transmitter of EponMac: operators on a      *)
(* record, composed with the poller and the splitter in PollingPon.        *)
(*                                                                         *)
(* Every GATE sets the slot and schedules startTxMsg for its beginning     *)
(* and sendReportMsg for its end.  Times are relative to now (clock_reg    *)
(* follows the simulation time on every event, so it is always 0 here);    *)
(* a difference of registers is unsigned, i.e. modulo Period.              *)
(***************************************************************************)
EXTENDS OnuQueues, EponMac

CONSTANTS
  Period,    \* the range of the 32-bit registers
  Delay,     \* transmission time of 64 bytes, the wait for a busy MAC
  RepTime,   \* time of a REPORT as the MAC control counts it
  RepLead,   \* the REPORT is scheduled this long before the end: 12 bytes more
  RepAir,    \* time of a REPORT on the line, where it is padded to 64 bytes
  Missed     \* the end of a slot longer ago than this is forgotten

ASSUME PollingOnuParameters ==
  /\ Ifg \in Nat \ {0} /\ Extra \in Nat /\ None \notin Int
  /\ WakeUp \notin [air : Nat, data : BOOLEAN]
  /\ RepTime \in Nat /\ RepLead \in Nat /\ RepAir \in Nat \ {0}
  /\ Delay \in Nat \ {0} /\ Missed \in Nat \ {0} /\ QueueLimit \in Nat /\ Period \in Nat \ {0}

(***************************************************************************)
(* polled is start_reg # 0; start and len are the registers; startTx and   *)
(* report are the two self-messages; tmp is tmp_queue; link is what the    *)
(* queue module has sent; error is set by an error of the kernel.          *)
(***************************************************************************)
OnuInit(queues) ==
  [polled |-> FALSE, start |-> 0, len |-> 0, startTx |-> None, report |-> None,
   tmp |-> <<>>, link |-> <<>>, mac |-> MacInit, error |-> FALSE,
   q |-> [pon |-> [i \in 1 .. queues |-> <<>>], next |-> 1, allEmpty |-> TRUE]]

Report == [air |-> RepAir, data |-> FALSE]

-----------------------------------------------------------------------------
(* Registers *)

End(s) == s.start + s.len
InSlot(s) == 0 >= s.start /\ 0 < End(s)
Remaining(s) == End(s) % Period
Needed(f) == f.air + Ifg

\* Time passes: slots, timers and transmitter.
Elapse(t) == IF t = None THEN None ELSE t - 1
OnuTick(s) ==
  [s EXCEPT !.start = IF End(s) >= -Missed THEN @ - 1 ELSE @,
            !.startTx = Elapse(@), !.report = Elapse(@), !.mac.timer = Elapse(@)]
OnuDue(s) == s.link # <<>> \/ s.startTx = 0 \/ s.report = 0 \/ s.mac.timer = 0

-----------------------------------------------------------------------------
(* The functions of ONUMacCtl_P *)

\* requestMPCP_REPORT, and what it is asked for handed to the transmitter.
SendReportFrame(s) == [s EXCEPT !.mac = MacSend(@, Report)]

\* The head of tmp_queue goes to the transmitter; come back when it is out.
SendFrame(s) ==
  LET f == Head(s.tmp)
  IN  [s EXCEPT !.tmp = Tail(@), !.mac = MacSend(@, f), !.startTx = Needed(f)]

\* Mutant: the REPORT is not counted when a frame is tried for size.
StartTxOnPONFull(s) ==
  IF s.polled /\ End(s) < 0 THEN s
  ELSE IF MacBacklog(s.mac) > 0
  THEN [s EXCEPT !.startTx = IF Remaining(s) > Delay THEN Delay ELSE None]
  ELSE IF s.tmp = <<>>
  THEN [s EXCEPT !.q = RequestPacket(@), !.link = @ \o PacketFor(s.q)]
  ELSE SendFrame(s)

\* Mutant: sendReportMsg is not cancelled when the REPORT goes out early.
StartTxOnPONTwice(s) ==
  IF s.polled /\ End(s) < 0 THEN s
  ELSE IF MacBacklog(s.mac) > 0
  THEN [s EXCEPT !.startTx = IF Remaining(s) > Delay THEN Delay ELSE None]
  ELSE IF s.tmp = <<>>
  THEN [s EXCEPT !.q = RequestPacket(@), !.link = @ \o PacketFor(s.q)]
  ELSE IF RepTime + Needed(Head(s.tmp)) >= Remaining(s)
  THEN SendReportFrame(s)
  ELSE SendFrame(s)

(***************************************************************************)
(* startTxOnPON: nothing is sent after the slot; a transmitter with a      *)
(* queue is waited for (while the slot is long enough); without a frame    *)
(* one is requested.  The next frame must leave room for the REPORT, which *)
(* is otherwise sent in its place, as the last thing of the slot.  (With a *)
(* queue module that can report, what follows this test in the code, which *)
(* discards a frame that is too long, is never reached.)                   *)
(***************************************************************************)
StartTxOnPON(s) ==
  IF s.polled /\ End(s) < 0 THEN s
  ELSE IF MacBacklog(s.mac) > 0
  THEN [s EXCEPT !.startTx = IF Remaining(s) > Delay THEN Delay ELSE None]
  ELSE IF s.tmp = <<>>
  THEN [s EXCEPT !.q = RequestPacket(@), !.link = @ \o PacketFor(s.q)]
  ELSE IF RepTime + Needed(Head(s.tmp)) >= Remaining(s)
  THEN [SendReportFrame(s) EXCEPT !.report = None]
  ELSE SendFrame(s)

(***************************************************************************)
(* processFrameFromHigherLayer: a frame waits in tmp_queue, a WAKE UP is   *)
(* ignored while startTxMsg is scheduled; in the slot, transmit.           *)
(***************************************************************************)
FromHigherLayer(s, m) ==
  IF ~ s.polled \/ (m = WakeUp /\ s.startTx # None) THEN s
  ELSE LET new == IF m = WakeUp THEN s ELSE [s EXCEPT !.tmp = Append(@, m)]
       IN  IF InSlot(new) THEN StartTxOnPON(new) ELSE new

(***************************************************************************)
(* scheduleStartTxMsgFromRegister: at the start of the slot, or now if     *)
(* that has passed; not at all if the slot has been missed.                *)
(***************************************************************************)
ScheduleStart(s) ==
  [s EXCEPT !.startTx =
     IF 0 > s.start /\ 0 < End(s) THEN 0
     ELSE IF 0 > End(s) THEN None
     ELSE s.start % Period]

(***************************************************************************)
(* scheduleReport: RepLead before the end of the slot.  It is an error of  *)
(* the kernel to schedule an event in the past, or one that is scheduled.  *)
(***************************************************************************)
ScheduleReport(s) ==
  IF s.report # None \/ Remaining(s) < RepLead
  THEN [s EXCEPT !.error = TRUE]
  ELSE [s EXCEPT !.report = Remaining(s) - RepLead]

\* Mutant: the GATE only schedules the REPORT.
ProcessGateReport(s, start, len) ==
  ScheduleReport([s EXCEPT !.polled = TRUE, !.start = start, !.len = len])

\* processMPCP for a GATE with one allocation.
ProcessGate(s, start, len) ==
  ScheduleReport(ScheduleStart([s EXCEPT !.polled = TRUE, !.start = start, !.len = len]))

(***************************************************************************)
(* sendReport, when sendReportMsg fires: left to startTxOnPON if that is   *)
(* going to run; otherwise make sure there is a frame, so that             *)
(* startTxOnPON runs to the REPORT, and remove it again.                   *)
(***************************************************************************)
SendReport(s) ==
  IF s.startTx # None THEN s
  ELSE LET sent == StartTxOnPON([s EXCEPT !.tmp = IF @ = <<>> THEN <<Report>> ELSE @])
       IN  [sent EXCEPT !.tmp = IF Len(@) = 1 THEN <<>> ELSE @]

\* The self-messages, as handleMessage receives them.
StartTxFires(s) == StartTxOnPON([s EXCEPT !.startTx = None])
ReportFires(s) == SendReport([s EXCEPT !.report = None])

\* endIFGMsg or endTxMsg of the transmitter.
MacTimerFires(s) ==
  [s EXCEPT !.mac = IF @.state = "ifg" THEN MacEndIFG(@) ELSE MacEndTx(@)]
=============================================================================
