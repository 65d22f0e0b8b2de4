--------------------------- MODULE NonPollingPon ---------------------------
(***************************************************************************)
(* A PON without polling: the OLT divides the super slot with UpstreamDBA  *)
(* at every registration and announces the slots to all; each ONU is an    *)
(* OnuMacCtlNP with its queues and transmitter; the PonSplitter joins what *)
(* they send.  The fibres have no length, as in the networks of the        *)
(* repository, and the ONUs register before the first slot begins.         *)
(***************************************************************************)
EXTENDS OnuMacCtlNP, PonSplitter

CONSTANTS
  SlotNumber, SlotLength, RegTimeInt,   \* as in UpstreamDBA; SlotTime follows
  Owned,     \* Owned[p]: LLIDs of the ONU p
  Airs,      \* times on the line of the frames of the hosts
  Horizon    \* bound: time stops here

DBA == INSTANCE UpstreamDBA WITH RateBudget <- 0

ASSUME SlotParameters ==
  /\ SlotTime = DBA!SuperSlot
  /\ Owned \in [Ports -> 1 .. NumQueues]
  /\ Airs \subseteq Nat \ {0}
  /\ Horizon \in RegTimeInt .. ClockMax - 1

VARIABLES
  simT,    \* simulation time
  table,   \* the ONU table of the OLT: port, llids, start, length
  gates,   \* the GATEs on their way to each ONU
  onu,     \* the state of each ONU (OnuMacCtlNP)
  split    \* the state of the splitter

vars == <<simT, table, gates, onu, split>>

RegGate == [start |-> 0, length |-> RegTimeInt]

\* The ONUs have received the registration GATE.
Init ==
  /\ simT = 0
  /\ table = <<>>
  /\ gates = [p \in Ports |-> <<>>]
  /\ onu = [p \in Ports |-> GateReceived(OnuInit, 0, RegGate)]
  /\ split = SplitterInit

Registered == {table[i].port : i \in DOMAIN table}
LLIDs(p) == [k \in 1 .. Owned[p] |-> <<p, k>>]
Owners(tbl) ==
  LET sum[i \in 0 .. Len(tbl)] == IF i = 0 THEN 0 ELSE sum[i-1] + Len(tbl[i].llids)
  IN  sum[Len(tbl)]
GrantOf(tbl, p) ==
  LET e == tbl[CHOOSE i \in DOMAIN tbl : tbl[i].port = p]
  IN  [start |-> e.start, length |-> e.length]

\* The REGACK of an ONU arrives at the OLT.
Register ==
  /\ simT < RegTimeInt
  /\ \E p \in Ports \ Registered :
       LET tbl == Append(table, [port |-> p, llids |-> LLIDs(p), start |-> 0, length |-> 0])
       IN  table' = DBA!DoUpstreamDBA(tbl, Owners(tbl))
  /\ gates' = [p \in Ports |-> IF \E i \in DOMAIN table' : table'[i].port = p
                               THEN Append(gates[p], GrantOf(table', p))
                               ELSE gates[p]]
  /\ UNCHANGED <<simT, onu, split>>

-----------------------------------------------------------------------------
(* The events of an ONU, those of one instant in any order. *)

GateArrives(p) ==
  /\ gates[p] # <<>>
  /\ onu' = [onu EXCEPT ![p] = GateReceived(@, simT, Head(gates[p]))]
  /\ gates' = [gates EXCEPT ![p] = Tail(@)]
  /\ UNCHANGED <<simT, table, split>>

FrameArrives(p) ==
  /\ \E i \in 1 .. Owned[p], air \in Airs :
       onu' = [onu EXCEPT ![p].q = EnqueueFrame(@, i, [air |-> air]),
                          ![p].link = @ \o WakeUpFor(onu[p].q)]
  /\ UNCHANGED <<simT, table, gates, split>>

LinkDelivers(p) ==
  /\ onu[p].link # <<>>
  /\ onu' = [onu EXCEPT ![p] = Delivered(@, simT)]
  /\ UNCHANGED <<simT, table, gates, split>>

StartTx(p) ==
  /\ onu[p].startTx = 0
  /\ onu' = [onu EXCEPT ![p] = StartTxFires(@, simT)]
  /\ UNCHANGED <<simT, table, gates, split>>

StopTx(p) ==
  /\ onu[p].stopTx = 0
  /\ onu' = [onu EXCEPT ![p] = StopTxFires(@, simT)]
  /\ UNCHANGED <<simT, table, gates, split>>

\* At the end of a gap the next frame leaves for the splitter.
MacTimer(p) ==
  /\ onu[p].mac.timer = 0
  /\ onu' = [onu EXCEPT ![p] = MacTimerFires(@)]
  /\ split' = IF onu[p].mac.state = "ifg" /\ onu[p].mac.queue # <<>>
              THEN Upstream(split, Head(onu[p].mac.queue).air + Extra)
              ELSE split
  /\ UNCHANGED <<simT, table, gates>>

Tick ==
  /\ \A p \in Ports : ~ OnuDue(onu[p]) /\ gates[p] = <<>>
  /\ simT < Horizon
  /\ simT' = simT + 1
  /\ onu' = [p \in Ports |-> OnuTick(onu[p])]
  /\ split' = SplitterTick(split)
  /\ UNCHANGED <<table, gates>>

Next ==
  /\ ~ Halted(split)
  /\ \/ Register \/ Tick
     \/ \E p \in Ports :
          \/ GateArrives(p) \/ FrameArrives(p) \/ LinkDelivers(p)
          \/ StartTx(p) \/ StopTx(p) \/ MacTimer(p)

Spec == Init /\ [][Next]_vars

-----------------------------------------------------------------------------
(* Properties *)

(***************************************************************************)
(* "IF you see collisions in the Splitter module it means that something   *)
(* went wrong" (README.md): the division of the super slot, the shifts of  *)
(* the start registers and the overrun of the transmitters together never  *)
(* let frames of two ONUs meet at the splitter.                            *)
(***************************************************************************)
NoCollision == split.col = 0

(***************************************************************************)
(* A frame is handed to the transmitter only when it fits in what is left  *)
(* of the slot the OLT's table gives this ONU, in the first super slot or  *)
(* a later one: GATEs of earlier divisions leave no timer or register      *)
(* behind that still acts.                                                 *)
(***************************************************************************)
HandsOver(p) == Len(onu'[p].mac.queue) > Len(onu[p].mac.queue)
SendsInSlotOfTable ==
  [][\A p \in Ports : HandsOver(p) =>
       LET f == onu'[p].mac.queue[Len(onu'[p].mac.queue)]
           g == GrantOf(table, p)
       IN  /\ p \in Registered /\ simT >= g.start
           /\ ((simT - g.start) % SlotTime) + Needed(f) <= g.length]_vars
=============================================================================
