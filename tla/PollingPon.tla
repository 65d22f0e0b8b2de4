----------------------------- MODULE PollingPon -----------------------------
(***************************************************************************)
(* A PON under polling: the poller of OltPolling, one OnuMacCtlP with its  *)
(* queues and transmitter for every ONU, and the PonSplitter between them. *)
(* ONUs register, GATEs wait at the OLT behind other frames, fibres have   *)
(* different lengths, and frames arrive from the hosts at any time.        *)
(***************************************************************************)
EXTENDS OnuMacCtlP, PonSplitter

CONSTANTS
  MaxOnus, Guard, Window,   \* as in OltPolling
  Dist,        \* Dist[p]: ticks from the splitter to the ONU p
  GateDelays,  \* ticks that a GATE may take from the poller to the splitter
  Airs,        \* times on the line of the frames of the hosts
  NumQueues    \* LLIDs of an ONU

ASSUME PonParameters ==
  /\ MaxOnus \in Nat \ {0} /\ Guard \in Nat \ {0} /\ Window \in Nat \ {0} /\ HaltOn \in Nat
  /\ Ports = 0 .. MaxOnus - 1 /\ Dist \in [Ports -> Nat]
  /\ GateDelays \subseteq Nat /\ Airs \subseteq Nat \ {0} /\ NumQueues \in Nat \ {0}

VARIABLES
  size, comTime, next, running, expTx, gateIn, slot, since,   \* the poller
  onu,     \* the state of each ONU (OnuMacCtlP)
  trunk,   \* the GATEs between the poller and the splitter
  down,    \* the GATEs between the splitter and each ONU
  up,      \* the frames between each ONU and the splitter
  split    \* the state of the splitter

Poller == INSTANCE OltPolling

pollerVars == <<size, comTime, next, running, expTx, gateIn, slot, since>>
vars == <<pollerVars, onu, trunk, down, up, split>>

Init ==
  /\ Poller!Init
  /\ onu = [p \in Ports |-> OnuInit(NumQueues)]
  /\ trunk = <<>>
  /\ down = [p \in Ports |-> <<>>]
  /\ up = [p \in Ports |-> <<>>]
  /\ split = SplitterInit

\* An error of the kernel, or the one of the splitter, ends the simulation.
Stopped == Halted(split) \/ \E p \in Ports : onu[p].error

-----------------------------------------------------------------------------
(* The OLT and the downstream direction                                    *)

Register ==
  /\ Poller!Register
  /\ UNCHANGED <<onu, trunk, down, up, split>>

\* A GATE leaves the poller; what is sent before it is sent first.
SendGate ==
  /\ Poller!SendSingleGate
  /\ \E d \in GateDelays :
       /\ trunk # <<>> => trunk[Len(trunk)].in <= d
       /\ trunk' = Append(trunk, [to |-> next, start |-> comTime[next], in |-> d])
  /\ UNCHANGED <<onu, down, up, split>>

\* It reaches the splitter, and goes on to its ONU; the copies for the other
\* ONUs are dropped by them (processFrameFromMAC).
GateAtSplitter ==
  /\ trunk # <<>> /\ Head(trunk).in = 0
  /\ LET g == Head(trunk)
     IN  down' = IF g.to \in Reached(split)
                 THEN [down EXCEPT ![g.to] = Append(@, [start |-> g.start, in |-> Dist[g.to]])]
                 ELSE down
  /\ trunk' = Tail(trunk)
  /\ split' = Downstream(split, 1)
  /\ UNCHANGED <<pollerVars, onu, up>>

GateAtOnu(p) ==
  /\ down[p] # <<>> /\ Head(down[p]).in = 0
  /\ onu' = [onu EXCEPT ![p] = ProcessGate(@, Head(down[p]).start, Window)]
  /\ down' = [down EXCEPT ![p] = Tail(@)]
  /\ UNCHANGED <<pollerVars, trunk, up, split>>

-----------------------------------------------------------------------------
(* The ONUs and the upstream direction.  What is on the link of an ONU is  *)
(* delivered at the same instant, before or after anything else that       *)
(* happens at the ONU in it: a timer, a GATE, the end of a transmission.   *)

\* A frame arrives from a host.  They come one by one: none arrives in the
\* very instant in which the WAKE UP for another one is on its way.
FrameArrives(p) ==
  /\ \A k \in DOMAIN onu[p].link : onu[p].link[k] # WakeUp
  /\ \E i \in 1 .. NumQueues, air \in Airs :
       onu' = [onu EXCEPT ![p].q = EnqueueFrame(@, i, [air |-> air, data |-> TRUE]),
                          ![p].link = @ \o WakeUpFor(onu[p].q)]
  /\ UNCHANGED <<pollerVars, trunk, down, up, split>>

LinkDelivers(p) ==
  /\ onu[p].link # <<>>
  /\ LET taken == [onu[p] EXCEPT !.link = Tail(@)]
     IN  onu' = [onu EXCEPT ![p] = FromHigherLayer(taken, Head(onu[p].link))]
  /\ UNCHANGED <<pollerVars, trunk, down, up, split>>

StartTx(p) ==
  /\ onu[p].startTx = 0
  /\ onu' = [onu EXCEPT ![p] = StartTxFires(@)]
  /\ UNCHANGED <<pollerVars, trunk, down, up, split>>

ReportTime(p) ==
  /\ onu[p].report = 0
  /\ onu' = [onu EXCEPT ![p] = ReportFires(@)]
  /\ UNCHANGED <<pollerVars, trunk, down, up, split>>

\* At the end of a gap the frame, if there is one, begins to leave the ONU.
MacTimer(p) ==
  /\ onu[p].mac.timer = 0
  /\ onu' = [onu EXCEPT ![p] = MacTimerFires(@)]
  /\ up' = IF onu[p].mac.state = "ifg" /\ onu[p].mac.queue # <<>>
           THEN [up EXCEPT ![p] = Append(@, [in |-> Dist[p],
                                             air |-> Head(onu[p].mac.queue).air + Extra])]
           ELSE up
  /\ UNCHANGED <<pollerVars, trunk, down, split>>

FrameAtSplitter(p) ==
  /\ up[p] # <<>> /\ Head(up[p]).in = 0
  /\ split' = Upstream(split, Head(up[p]).air)
  /\ up' = [up EXCEPT ![p] = Tail(@)]
  /\ UNCHANGED <<pollerVars, onu, trunk, down>>

-----------------------------------------------------------------------------
(* Time *)

Arriving(fibre) == fibre # <<>> /\ Head(fibre).in = 0
Nearer(fibre) == [k \in DOMAIN fibre |-> [fibre[k] EXCEPT !.in = @ - 1]]
\* The start of a slot is relative to now.
Sooner(fibre) == [k \in DOMAIN fibre |-> [fibre[k] EXCEPT !.in = @ - 1, !.start = @ - 1]]

Tick ==
  /\ ~ Arriving(trunk)
  /\ \A p \in Ports : ~ OnuDue(onu[p]) /\ ~ Arriving(up[p]) /\ ~ Arriving(down[p])
  /\ Poller!Tick
  /\ onu' = [p \in Ports |-> OnuTick(onu[p])]
  /\ trunk' = Sooner(trunk)
  /\ down' = [p \in Ports |-> Sooner(down[p])]
  /\ up' = [p \in Ports |-> Nearer(up[p])]
  /\ split' = SplitterTick(split)

\* What the kernel executes once it is due.
Event ==
  \/ SendGate \/ GateAtSplitter
  \/ \E p \in Ports :
       \/ GateAtOnu(p) \/ LinkDelivers(p) \/ StartTx(p) \/ ReportTime(p)
       \/ MacTimer(p) \/ FrameAtSplitter(p)

Next ==
  /\ ~ Stopped
  /\ Register \/ Event \/ Tick \/ \E p \in Ports : FrameArrives(p)

Spec == Init /\ [][Next]_vars /\ WF_vars(~ Stopped /\ Event) /\ WF_vars(~ Stopped /\ Tick)

-----------------------------------------------------------------------------
(* The times for which the properties below hold *)

(***************************************************************************)
(* A REPORT is scheduled within the slot, and so late that no frame fits   *)
(* before it any more: RepLead is RepTime and 12 bytes, as long as a gap.  *)
(* A GATE reaches its ONU while the REPORT of its slot can be scheduled    *)
(* (scheduleReport fails otherwise).  A register holds all these times.    *)
(***************************************************************************)
PollingTimes ==
  /\ RepLead \in 1 .. Window /\ RepLead <= RepTime + Ifg
  /\ \A d \in GateDelays, p \in Ports : d + Dist[p] + RepLead <= Guard + Window
  /\ Guard + Window < Period

(***************************************************************************)
(* The guard covers what runs past the end of a slot.  late[e] bounds how  *)
(* far the transmitter is behind the MAC control after e ticks of a slot:  *)
(* each frame adds Extra, but a transmitter with a single frame is behind  *)
(* by that frame at most.  At the end of the slot comes a REPORT, and the  *)
(* fibre may be longer than the nearest one.                               *)
(***************************************************************************)
Covers(near, late) ==
  /\ near \in Nat /\ \A p \in Ports : near <= Dist[p]
  /\ late \in [0 .. Window -> Nat]
  /\ \A d, e \in 0 .. Window : d <= e => late[d] <= late[e]
  /\ Ifg + RepAir + Extra <= late[0]
  /\ \A e \in 0 .. Window : \A air \in Airs : e + air + Ifg <= Window =>
       \/ late[e] + Extra <= late[e + air + Ifg]
       \/ Ifg + air + Extra <= late[e + air + Ifg]
  /\ \A p \in Ports : Dist[p] + late[Window] + Ifg + RepAir + Extra <= Guard + near + 1

GuardCovers == \E near, late : Covers(near, late)

-----------------------------------------------------------------------------
(* Properties *)

Frame == [air : Airs \union {RepAir}, data : BOOLEAN]
Timer == Nat \union {None}

\* The shape of the state.
TypeOK ==
  /\ Poller!TypeOK
  /\ split \in [busy : Nat, col : 0 .. HaltOn, down : [Ports -> Nat]]
  /\ \A p \in Ports :
       /\ onu[p].polled \in BOOLEAN /\ onu[p].error \in BOOLEAN
       /\ onu[p].start \in Int /\ onu[p].len \in {0, Window}
       /\ onu[p].startTx \in Timer /\ onu[p].report \in Timer /\ onu[p].mac.timer \in Timer
       /\ onu[p].tmp \in Seq(Frame) /\ onu[p].mac.queue \in Seq(Frame)
       /\ onu[p].link \in Seq(Frame \union {WakeUp})
       /\ onu[p].q.next \in 1 .. NumQueues
       /\ \A i \in 1 .. NumQueues : Len(onu[p].q.pon[i]) <= QueueLimit
       /\ Len(down[p]) <= 1                 \* a GATE arrives before the next is sent

(***************************************************************************)
(* Collisions "should actually never happen" (PON_Splitter.h): frames of    *)
(* different ONUs, on fibres of different lengths, with GATEs that are     *)
(* late and REPORTs that run past the end of the slot, never meet at the   *)
(* splitter (PON_Splitter::handleMessage, upstream).                       *)
(***************************************************************************)
NoCollision == split.col = 0

(***************************************************************************)
(* No GATE makes scheduleReport schedule an event in the past or one that  *)
(* is scheduled already, which ends the simulation.                        *)
(***************************************************************************)
NoSchedulingError == \A p \in Ports : ~ onu[p].error

(***************************************************************************)
(* An ONU hands a frame to its transmitter only in the slot that the OLT   *)
(* has announced to it, and a frame of a host only when it and the REPORT  *)
(* still fit: no combination of the two timers, of frames, WAKE UPs and    *)
(* GATEs moves it out of that slot (startTxOnPON and its callers).         *)
(***************************************************************************)
HandsOver(p) == Len(onu'[p].mac.queue) > Len(onu[p].mac.queue)
SendsInAnnouncedSlot ==
  [][\A p \in Ports : HandsOver(p) =>
       LET f == onu'[p].mac.queue[Len(onu'[p].mac.queue)]
       IN  /\ slot[p] <= 0 /\ 0 <= slot[p] + Window
           /\ f.data => RepTime + Needed(f) < slot[p] + Window]_vars

(***************************************************************************)
(* A frame that an ONU has accepted leaves it over the line or not at all, *)
(* once it is polled: sendReport, which empties tmp_queue of its REPORT,   *)
(* never takes a frame of a host with it.                                  *)
(***************************************************************************)
Data(frames) == Cardinality({k \in DOMAIN frames : frames[k] # WakeUp /\ frames[k].data})
QueuedBy(s) == {x \in (1 .. NumQueues) \X (1 .. QueueLimit) : x[2] <= Len(s.q.pon[x[1]])}
HeldBy(s) == Cardinality(QueuedBy(s)) + Data(s.link) + Data(s.tmp) + Data(s.mac.queue)
OnTheLine(s) == s.mac.state = "tx" /\ Head(s.mac.queue).data
NoFrameLost ==
  [][\A p \in Ports :
       (onu[p].polled /\ HeldBy(onu'[p]) < HeldBy(onu[p])) =>
         OnTheLine(onu[p]) /\ ~ OnTheLine(onu'[p])]_vars

(***************************************************************************)
(* A frame that waits at an ONU is sent, or another one is, in some slot   *)
(* to come: the two timers, the REPORT that cancels one of them and the    *)
(* requests to the queues never leave a frame behind for ever.             *)
(***************************************************************************)
Waiting(p) == HeldBy(onu[p]) > 0 /\ p < size
FramesProgress == \A p \in Ports : Waiting(p) ~> OnTheLine(onu[p])
=============================================================================
