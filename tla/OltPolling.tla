----------------------------- MODULE OltPolling -----------------------------
(***************************************************************************)
(* The poller of OLTQPerLLiDBase_P: one GATE after the other, to each ONU  *)
(* of the table in turn, each for a window of fixed length.                *)
(*                                                                         *)
(* Every time of the model is relative to now, so that the poller can run  *)
(* for ever in finitely many states: Tick brings them all one tick closer, *)
(* and a time more than a guard in the past is forgotten.  ONUs register   *)
(* in the order of their indices, which are those of the ONU table.        *)
(***************************************************************************)
EXTENDS Integers

CONSTANTS
  MaxOnus,   \* bound: ONUs that register
  Guard,     \* the guard time, 5us in the code
  Window,    \* fixedWin
  None       \* no self-message scheduled

ASSUME PollerParameters ==
  /\ MaxOnus \in Nat \ {0} /\ Guard \in Nat \ {0} /\ Window \in Nat \ {0}
  /\ None \notin Int

Onus == 0 .. MaxOnus - 1

VARIABLES
  size,     \* onutbl->getTableSize()
  comTime,  \* the start of the slot that the table holds for each ONU
  next,     \* nextONU
  running,  \* pollerRunning
  expTx,    \* expTxTime, 0 when it has passed
  gateIn,   \* ticks until sendGateMsg, or None
  slot,     \* start of the last slot announced to each ONU (history)
  since     \* since[j][i]: GATEs to i since j registered or got one (history)

vars == <<size, comTime, next, running, expTx, gateIn, slot, since>>

Past == -(Guard + Window)     \* the start of a slot that ended a guard ago

\* The entries of the ONU table.
Registered == 0 .. size - 1

Init ==
  /\ size = 0 /\ next = 0 /\ running = FALSE /\ expTx = 0 /\ gateIn = None
  /\ comTime = [i \in Onus |-> Past]
  /\ slot = [i \in Onus |-> Past]
  /\ since = [j \in Onus |-> [i \in Onus |-> 0]]

\* Mutant: no guard time between the slots.
DoUpstreamDBAClose(n, p, r) ==
  IF r \/ n = 0
  THEN running' = r /\ next' = p /\ UNCHANGED <<comTime, expTx, gateIn>>
  ELSE /\ running' = TRUE
       /\ next' = IF p >= n THEN 0 ELSE p
       /\ comTime' = [comTime EXCEPT ![next'] = expTx]
       /\ gateIn' = expTx
       /\ expTx' = expTx + Window

\* Mutant: the DBA runs although the poller is running.
DoUpstreamDBATwice(n, p, r) ==
  IF n = 0
  THEN running' = FALSE /\ next' = p /\ UNCHANGED <<comTime, expTx, gateIn>>
  ELSE /\ running' = TRUE
       /\ next' = IF p >= n THEN 0 ELSE p
       /\ comTime' = [comTime EXCEPT ![next'] = expTx + Guard]
       /\ gateIn' = expTx
       /\ expTx' = expTx + Guard + Window

\* Mutant: the GATE is scheduled after expTxTime has been advanced.
DoUpstreamDBASlow(n, p, r) ==
  IF r \/ n = 0
  THEN running' = r /\ next' = p /\ UNCHANGED <<comTime, expTx, gateIn>>
  ELSE /\ running' = TRUE
       /\ next' = IF p >= n THEN 0 ELSE p
       /\ comTime' = [comTime EXCEPT ![next'] = expTx + Guard]
       /\ gateIn' = expTx + Guard + Window
       /\ expTx' = expTx + Guard + Window

(***************************************************************************)
(* DoUpstreamDBA with n entries in the table, nextONU = p and              *)
(* pollerRunning = r: nothing while the poller runs; otherwise give the    *)
(* next ONU a window a guard after the last one and schedule its GATE for  *)
(* the end of the last one.                                                *)
(***************************************************************************)
DoUpstreamDBA(n, p, r) ==
  IF r \/ n = 0
  THEN running' = r /\ next' = p /\ UNCHANGED <<comTime, expTx, gateIn>>
  ELSE /\ running' = TRUE
       /\ next' = IF p >= n THEN 0 ELSE p
       /\ comTime' = [comTime EXCEPT ![next'] = expTx + Guard]
       /\ gateIn' = expTx
       /\ expTx' = expTx + Guard + Window

\* Mutant: a registration makes the poller begin with the first ONU again.
RegisterFirst ==
  /\ size < MaxOnus
  /\ size' = size + 1
  /\ DoUpstreamDBA(size + 1, 0, running)
  /\ UNCHANGED <<slot, since>>

\* doOnuRegistration: the ONU is appended to the table and the DBA called.
Register ==
  /\ size < MaxOnus
  /\ size' = size + 1
  /\ DoUpstreamDBA(size + 1, next, running)
  /\ UNCHANGED <<slot, since>>

\* Mutant: pollerRunning is not reset, and the DBA returns at once.
SendSingleGateOnce ==
  /\ gateIn = 0
  /\ slot' = [slot EXCEPT ![next] = comTime[next]]
  /\ since' = [j \in Onus |->
                 IF j = next THEN [i \in Onus |-> 0]
                 ELSE [since[j] EXCEPT ![next] = IF j < size THEN @ + 1 ELSE @]]
  /\ gateIn' = None
  /\ next' = (next + 1) % size
  /\ UNCHANGED <<size, comTime, running, expTx>>

(***************************************************************************)
(* sendSingleGate, when sendGateMsg fires: the GATE carries what the table *)
(* holds for nextONU; then nextONU advances and the DBA is forced to run.  *)
(***************************************************************************)
SendSingleGate ==
  /\ gateIn = 0
  /\ slot' = [slot EXCEPT ![next] = comTime[next]]
  /\ since' = [j \in Onus |->
                 IF j = next THEN [i \in Onus |-> 0]
                 ELSE [since[j] EXCEPT ![next] = IF j < size THEN @ + 1 ELSE @]]
  /\ DoUpstreamDBA(size, (next + 1) % size, FALSE)
  /\ UNCHANGED size

\* A time that is relative to now, a tick later.
Later(t) == IF t > Past THEN t - 1 ELSE t

Tick ==
  /\ gateIn # 0
  /\ gateIn' = IF gateIn = None THEN None ELSE gateIn - 1
  /\ expTx' = IF expTx > 0 THEN expTx - 1 ELSE 0
  /\ comTime' = [i \in Onus |-> Later(comTime[i])]
  /\ slot' = [i \in Onus |-> Later(slot[i])]
  /\ UNCHANGED <<size, next, running, since>>

Next == Register \/ SendSingleGate \/ Tick

Spec == Init /\ [][Next]_vars /\ WF_vars(SendSingleGate) /\ WF_vars(Tick)

-----------------------------------------------------------------------------
(* Properties *)

\* The shape of the state; nextONU is an index of the table (or 0 before it
\* has one), which sendSingleGate relies on.
TypeOK ==
  /\ size \in 0 .. MaxOnus
  /\ next \in Onus /\ (next = 0 \/ next < size)
  /\ running \in BOOLEAN /\ (running <=> size > 0)
  /\ expTx \in 0 .. 2 * (Guard + Window)
  /\ gateIn \in (0 .. Guard + Window) \union {None}
  /\ comTime \in [Onus -> Past .. 2 * Guard + Window]
  /\ slot \in [Onus -> Past .. Guard]
  /\ since \in [Onus -> [Onus -> Nat]]

(***************************************************************************)
(* The slots announced to different ONUs are a guard apart, whatever the   *)
(* registrations in between: expTxTime, computed when a GATE is scheduled, *)
(* is still right when it is sent.                                         *)
(***************************************************************************)
GrantsDisjoint ==
  \A i, j \in Onus :
    (i # j /\ slot[i] > Past /\ slot[j] > Past) =>
      \/ slot[i] + Window + Guard <= slot[j]
      \/ slot[j] + Window + Guard <= slot[i]

(***************************************************************************)
(* Polling is fair: between two GATEs to one ONU every other gets at most  *)
(* one, and a new ONU waits for at most one to each of the others, however *)
(* the table grows while nextONU is kept.                                  *)
(***************************************************************************)
FairPolling == \A i, j \in Onus : since[j][i] <= 1

(***************************************************************************)
(* Once started the poller never stops: every registered ONU is polled     *)
(* again and again (the self-message is scheduled anew by every GATE).     *)
(***************************************************************************)
EveryOnuPolled == \A i \in Onus : i < size ~> slot[i] = Guard
=============================================================================
