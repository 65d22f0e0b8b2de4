----------------------------- MODULE OnuMacCtl -----------------------------
(***************************************************************************)
(* One ONU without polling, OnuMacCtlNP, with GATEs and frames at any      *)
(* time.  Events of the same tick happen in any order, as simulation time  *)
(* is a thousand times finer than a tick.                                  *)
(***************************************************************************)
EXTENDS OnuMacCtlNP

CONSTANTS
  RegWindow,   \* length of the registration GATE
  Grants,      \* the slots a GATE may bring: [start, length]
  Airs,        \* times on the line of the frames
  MaxGates,    \* bound: GATEs received, the registration GATE included
  MaxFrames,   \* bound: frames from the higher layer
  Horizon      \* bound: time stops here (ClockMax for no bound)

ASSUME OnuInputs ==
  /\ RegWindow \in 0 .. ClockMax
  /\ Grants \subseteq [start : 1 .. ClockMax - 1, length : 1 .. ClockMax]
  /\ Airs \subseteq Nat \ {0}
  /\ MaxGates \in Nat /\ MaxFrames \in Nat /\ Horizon \in Nat

VARIABLES
  simT,     \* simulation time modulo ClockMax
  onu,      \* the state of the three modules, a record (OnuInit)
  granted,  \* the slot of the last GATE (history)
  frames    \* frames from the higher layer so far (for the bound)

vars == <<simT, onu, granted, frames>>

-----------------------------------------------------------------------------
Init ==
  /\ simT = 0
  /\ onu = OnuInit
  /\ granted = [start |-> 0, length |-> 0]
  /\ frames = 0

\* A frame arrives from the higher layer for one of the queues.
FrameArrives ==
  /\ frames < MaxFrames
  /\ frames' = frames + 1
  /\ \E i \in 1 .. NumQueues, air \in Airs :
       onu' = [onu EXCEPT !.q = EnqueueFrame(@, i, [air |-> air]),
                          !.link = @ \o WakeUpFor(onu.q)]
  /\ UNCHANGED <<simT, granted>>

\* What the queues have sent reaches the MAC control.
LinkDelivers ==
  /\ onu.link # <<>>
  /\ onu' = Delivered(onu, simT)
  /\ UNCHANGED <<simT, granted, frames>>

\* A GATE arrives: the first opens the registration window, the others
\* bring a slot.
GateArrives ==
  /\ onu.gates < MaxGates
  /\ \E g \in IF onu.gates = 0 THEN {[start |-> 0, length |-> RegWindow]} ELSE Grants :
       /\ onu' = GateReceived(onu, simT, g)
       /\ granted' = g
  /\ UNCHANGED <<simT, frames>>

\* Any other frame arrives from the line and is passed on.
OtherArrives ==
  /\ onu.clock # simT
  /\ onu' = ClockSync(onu, simT)
  /\ UNCHANGED <<simT, granted, frames>>

StartTx ==
  /\ onu.startTx = 0
  /\ onu' = StartTxFires(onu, simT)
  /\ UNCHANGED <<simT, granted, frames>>

StopTx ==
  /\ onu.stopTx = 0
  /\ onu' = StopTxFires(onu, simT)
  /\ UNCHANGED <<simT, granted, frames>>

MacTimer ==
  /\ onu.mac.timer = 0
  /\ onu' = MacTimerFires(onu)
  /\ UNCHANGED <<simT, granted, frames>>

Tick ==
  /\ ~ OnuDue(onu)
  /\ simT < Horizon
  /\ simT' = (simT + 1) % ClockMax
  /\ onu' = OnuTick(onu)
  /\ UNCHANGED <<granted, frames>>

Next ==
  \/ FrameArrives \/ LinkDelivers \/ GateArrives \/ OtherArrives
  \/ StartTx \/ StopTx \/ MacTimer \/ Tick

Spec == Init /\ [][Next]_vars

-----------------------------------------------------------------------------
(* Properties *)

Frame == [air : Airs]
Timer == Nat \union {None}

\* The shape of the state.
TypeOK ==
  /\ simT \in 0 .. ClockMax - 1
  /\ onu.clock \in 0 .. ClockMax - 1
  /\ onu.start \in 0 .. ClockMax - 1
  /\ onu.len \in 0 .. ClockMax
  /\ onu.state \in {"init", "on", "off", "idle", "sleep", "error"}
  /\ onu.gates \in 0 .. MaxGates
  /\ onu.startTx \in Timer /\ onu.stopTx \in Timer /\ onu.mac.timer \in Timer
  /\ onu.tmp \in Seq(Frame) /\ onu.mac.queue \in Seq(Frame)
  /\ onu.mac.state \in {"idle", "ifg", "tx"}
  /\ onu.link \in Seq(Frame \union {WakeUp})
  /\ onu.q.pon \in [1 .. NumQueues -> Seq(Frame)]
  /\ onu.q.next \in 1 .. NumQueues
  /\ onu.q.allEmpty \in BOOLEAN
  /\ granted \in [start : 0 .. ClockMax - 1, length : 0 .. ClockMax]
  /\ frames \in 0 .. MaxFrames

(***************************************************************************)
(* A frame leaves the MAC control only at a moment from which it fits in   *)
(* the slot the last GATE granted, in that super slot or a later one: no   *)
(* sequence of shifts, delays, wake-ups and new GATEs moves the ONU out of *)
(* its slot (what startTxOnPON computes from its own registers).           *)
(***************************************************************************)
Sends == Len(onu'.mac.queue) > Len(onu.mac.queue)
SendsInGrantedSlot ==
  [][Sends =>
       LET need == onu'.mac.queue[Len(onu'.mac.queue)].air + Ifg
       IN  /\ simT >= granted'.start
           /\ ((simT - granted'.start) % SlotTime) + need <= granted'.length]_vars

(***************************************************************************)
(* Once the ONU has a slot, a waiting frame is never forgotten: the queues *)
(* have sent something that is not delivered yet, or one of the two timers *)
(* will look at it (handleStopTxPeriod goes to sleep without a timer, the  *)
(* queues send one WAKE UP only).                                          *)
(***************************************************************************)
Waiting == onu.tmp # <<>> \/ ~ NoFrame(onu.q.pon)
NoLostWakeUp ==
  (onu.start # 0 /\ Waiting) =>
    onu.link # <<>> \/ onu.startTx # None \/ onu.stopTx # None

(***************************************************************************)
(* The state and the timers agree so that startTxMsg never finds the MAC   *)
(* control in TX_IDLE, where handleMessage stops the simulation.           *)
(***************************************************************************)
IdleTimers ==
  /\ onu.state # "error"
  /\ onu.state = "idle" => onu.startTx = None /\ onu.stopTx # None
=============================================================================
