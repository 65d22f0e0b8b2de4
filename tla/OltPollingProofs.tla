-------------------------- MODULE OltPollingProofs --------------------------
(***************************************************************************)
(* Proofs about the poller, for any number of ONUs, any guard and window.  *)
(***************************************************************************)
EXTENDS OltPolling, TLAPS

(***************************************************************************)
(* While the poller runs, the next slot follows the pending GATE by a      *)
(* guard, and every announced slot ends before that GATE is sent.  A       *)
(* poller that does not run has announced nothing.                         *)
(***************************************************************************)
Scheduled ==
  IF running
  THEN /\ gateIn \in Nat
       /\ expTx = gateIn + Guard + Window
       /\ comTime[next] = gateIn + Guard
       /\ \A i \in Onus : slot[i] + Window <= gateIn \/ slot[i] = Past
  ELSE /\ gateIn = None /\ expTx = 0 /\ next = 0
       /\ \A i \in Onus : slot[i] = Past

\* Polled since j: the ONUs from j to nextONU, around the table.
Since(i, j) == (j < i /\ i < next) \/ (next <= j /\ j < i) \/ (i < next /\ next <= j)

(***************************************************************************)
(* Between two GATEs to j the poller has passed exactly the ONUs that lie  *)
(* between j and nextONU.                                                  *)
(***************************************************************************)
Turns ==
  \A i, j \in Onus :
    /\ since[j][i] \in {0, 1}
    /\ since[j][i] = 1 => j < size /\ i < size /\ Since(i, j)

PInv == TypeOK /\ Scheduled /\ GrantsDisjoint /\ Turns

\* The poller starts in the invariant.
LEMMA PollerInit == Init => PInv
<1> SUFFICES ASSUME Init PROVE PInv
  OBVIOUS
<1> USE PollerParameters
<1>1. TypeOK
  <2>1. Past \in Int /\ Past <= 0 /\ 0 \in Onus
    BY DEF Past, Onus
  <2>2. comTime \in [Onus -> Past .. 2 * Guard + Window] /\ slot \in [Onus -> Past .. Guard]
    BY <2>1 DEF Init
  <2>3. since \in [Onus -> [Onus -> Nat]]
    BY DEF Init
  <2>4. size \in 0 .. MaxOnus /\ next = 0 /\ ~ (size > 0) /\ running = FALSE
    BY DEF Init
  <2>5. expTx \in 0 .. 2 * (Guard + Window) /\ gateIn = None
    BY DEF Init
  <2> QED BY <2>1, <2>2, <2>3, <2>4, <2>5 DEF TypeOK
<1>2. Scheduled /\ GrantsDisjoint
  BY DEF Init, Scheduled, GrantsDisjoint, Past
<1>3. Turns
  BY DEF Init, Turns
<1> QED BY <1>1, <1>2, <1>3 DEF PInv

\* A registration only appends to the table; the first one starts the poller.
LEMMA RegisterKeeps == PInv /\ Register => PInv'
<1> SUFFICES ASSUME PInv, Register PROVE PInv'
  OBVIOUS
<1> USE PollerParameters
<1>1. CASE running
  <2>1. next' = next /\ UNCHANGED <<comTime, expTx, gateIn, slot, since>> /\ running' = TRUE
    BY <1>1 DEF Register, DoUpstreamDBA, PInv, TypeOK
  <2>2. size' = size + 1 /\ size < MaxOnus
    BY DEF Register
  <2>3. TypeOK'
    <3>1. next \in Onus /\ (next = 0 \/ next < size) /\ size \in 0 .. MaxOnus
      BY DEF PInv, TypeOK
    <3>2. size' \in 0 .. MaxOnus /\ size' > 0 /\ (next' = 0 \/ next' < size')
      BY <2>1, <2>2, <3>1 DEF Onus
    <3> QED BY <2>1, <3>1, <3>2 DEF PInv, TypeOK
  <2>4. Scheduled' /\ GrantsDisjoint'
    BY <1>1, <2>1 DEF PInv, Scheduled, GrantsDisjoint
  <2>5. Turns'
    BY <2>1, <2>2 DEF PInv, TypeOK, Turns, Since, Onus
  <2> QED BY <2>3, <2>4, <2>5 DEF PInv
<1>2. CASE ~ running
  <2>1. size = 0 /\ next = 0 /\ expTx = 0
    BY <1>2 DEF PInv, TypeOK, Scheduled
  <2>2. /\ running' = TRUE /\ next' = 0 /\ gateIn' = 0
        /\ comTime' = [comTime EXCEPT ![0] = Guard]
        /\ expTx' = Guard + Window
        /\ UNCHANGED <<slot, since>>
    BY <1>2, <2>1 DEF Register, DoUpstreamDBA, PInv, TypeOK
  <2>3. size' = 1
    BY <2>1 DEF Register
  <2>4. TypeOK'
    <3>1. 0 \in Onus /\ Guard \in Past .. 2 * Guard + Window
      BY DEF Onus, Past
    <3>2. comTime' \in [Onus -> Past .. 2 * Guard + Window]
      BY <2>2, <3>1 DEF PInv, TypeOK
    <3>3. size' \in 0 .. MaxOnus /\ size' > 0 /\ gateIn' \in 0 .. Guard + Window
      BY <2>2, <2>3
    <3> QED BY <2>2, <3>1, <3>2, <3>3 DEF PInv, TypeOK
  <2>5. Scheduled' /\ GrantsDisjoint'
    BY <1>2, <2>2 DEF PInv, TypeOK, Scheduled, GrantsDisjoint, Onus
  <2>6. Turns'
    BY <2>1, <2>2, <2>3 DEF PInv, TypeOK, Turns, Since, Onus
  <2> QED BY <2>4, <2>5, <2>6 DEF PInv
<1> QED BY <1>1, <1>2

\* The next GATE is due when the slot just announced ends.
LEMMA SendSingleGateKeeps == PInv /\ SendSingleGate => PInv'
<1> SUFFICES ASSUME PInv, SendSingleGate PROVE PInv'
  OBVIOUS
<1> USE PollerParameters
<1>1. running /\ size \in 1 .. MaxOnus /\ next \in 0 .. size - 1 /\ gateIn = 0
  <2>1. gateIn = 0 /\ None # 0
    BY DEF SendSingleGate
  <2>2. running
    BY <2>1 DEF PInv, Scheduled
  <2>3. size \in 0 .. MaxOnus /\ size > 0 /\ next \in Onus /\ (next = 0 \/ next < size)
    BY <2>2 DEF PInv, TypeOK
  <2> QED BY <2>1, <2>2, <2>3 DEF Onus
<1>2. /\ comTime[next] = Guard /\ expTx = Guard + Window
      /\ \A i \in Onus : slot[i] + Window <= 0 \/ slot[i] = Past
  BY <1>1 DEF PInv, Scheduled
<1> DEFINE p == IF next + 1 = size THEN 0 ELSE next + 1
<1>3. (next + 1) % size = p
  BY <1>1
<1>4. p \in 0 .. size - 1 /\ p \in Onus /\ next \in Onus
  BY <1>1 DEF Onus
<1>5. /\ running' = TRUE /\ next' = p /\ gateIn' = Guard + Window
      /\ comTime' = [comTime EXCEPT ![p] = 2 * Guard + Window]
      /\ expTx' = 2 * (Guard + Window) /\ size' = size
  BY <1>1, <1>2, <1>3, <1>4 DEF SendSingleGate, DoUpstreamDBA
<1>6. slot' = [slot EXCEPT ![next] = Guard]
  BY <1>2 DEF SendSingleGate
<1>7. since' = [j \in Onus |->
                 IF j = next THEN [i \in Onus |-> 0]
                 ELSE [since[j] EXCEPT ![next] = IF j < size THEN @ + 1 ELSE @]]
  BY DEF SendSingleGate
<1> HIDE DEF p
<1>8. TypeOK'
  <2>1. since' \in [Onus -> [Onus -> Nat]]
    BY <1>7, <1>4 DEF PInv, TypeOK
  <2>2. slot' \in [Onus -> Past .. Guard]
    BY <1>6, <1>4 DEF PInv, TypeOK, Past
  <2>3. comTime' \in [Onus -> Past .. 2 * Guard + Window]
    BY <1>5, <1>4 DEF PInv, TypeOK, Past
  <2> QED BY <1>1, <1>4, <1>5, <2>1, <2>2, <2>3 DEF TypeOK, PInv
<1>9. Scheduled'
  <2>1. comTime'[p] = gateIn' + Guard
    BY <1>4, <1>5 DEF PInv, TypeOK
  <2>2. \A i \in Onus : slot'[i] + Window <= gateIn' \/ slot'[i] = Past
    BY <1>2, <1>4, <1>5, <1>6 DEF PInv, TypeOK, Past
  <2> QED BY <1>5, <2>1, <2>2 DEF Scheduled
<1>10. GrantsDisjoint'
  <2> SUFFICES ASSUME NEW i \in Onus, NEW j \in Onus, i # j,
                      slot'[i] > Past, slot'[j] > Past
               PROVE  \/ slot'[i] + Window + Guard <= slot'[j]
                      \/ slot'[j] + Window + Guard <= slot'[i]
    BY DEF GrantsDisjoint
  <2>1. \A k \in Onus : slot[k] \in Past .. Guard /\ slot'[k] = IF k = next THEN Guard ELSE slot[k]
    BY <1>4, <1>6 DEF PInv, TypeOK
  <2>2. CASE i = next
    BY <1>2, <2>1, <2>2 DEF Past
  <2>3. CASE j = next
    BY <1>2, <2>1, <2>3 DEF Past
  <2>4. CASE i # next /\ j # next
    BY <2>1, <2>4 DEF PInv, GrantsDisjoint
  <2> QED BY <2>2, <2>3, <2>4
<1>11. Turns'
  <2> SUFFICES ASSUME NEW i \in Onus, NEW j \in Onus
               PROVE  /\ since'[j][i] \in {0, 1}
                      /\ since'[j][i] = 1 => j < size' /\ i < size' /\ Since(i, j)'
    BY DEF Turns
  <2>1. since[j][i] \in {0, 1} /\ (since[j][i] = 1 => j < size /\ i < size /\ Since(i, j))
    BY DEF PInv, Turns
  <2>2. CASE j = next
    BY <1>7, <2>2
  <2>3. CASE j # next /\ i # next
    <3>1. since'[j][i] = since[j][i]
      BY <1>7, <2>3 DEF PInv, TypeOK
    <3>2. i \in Nat /\ j \in Nat
      BY DEF Onus
    <3>3. ASSUME i < size, j < size, Since(i, j) PROVE Since(i, j)'
      BY <1>1, <1>5, <2>3, <3>2, <3>3 DEF Since, p
    <3> QED BY <1>5, <2>1, <3>1, <3>3
  <2>4. CASE j # next /\ i = next
    <3>1. since'[j][i] = IF j < size THEN since[j][i] + 1 ELSE since[j][i]
      BY <1>7, <2>4 DEF PInv, TypeOK
    <3>2. i \in Nat /\ j \in Nat
      BY DEF Onus
    <3>3. since[j][i] = 0
      BY <2>1, <2>4, <3>2 DEF Since
    <3>4. j < size => Since(i, j)'
      BY <1>1, <1>5, <2>4, <3>2 DEF Since, p
    <3> QED BY <1>1, <1>5, <2>4, <3>1, <3>2, <3>3, <3>4
  <2> QED BY <2>2, <2>3, <2>4
<1> QED BY <1>8, <1>9, <1>10, <1>11 DEF PInv

\* Time brings every slot closer by the same amount, or forgets it.
LEMMA TickKeeps == PInv /\ Tick => PInv'
<1> SUFFICES ASSUME PInv, Tick PROVE PInv'
  OBVIOUS
<1> USE PollerParameters
<1>1. \A i \in Onus : /\ slot[i] \in Past .. Guard
                      /\ slot'[i] = IF slot[i] > Past THEN slot[i] - 1 ELSE slot[i]
  BY DEF Tick, Later, PInv, TypeOK
<1>2. \A i \in Onus : /\ comTime[i] \in Past .. 2 * Guard + Window
                      /\ comTime'[i] = IF comTime[i] > Past THEN comTime[i] - 1 ELSE comTime[i]
  BY DEF Tick, Later, PInv, TypeOK
<1>3. TypeOK'
  <2>1. slot' \in [Onus -> Past .. Guard]
    BY <1>1 DEF Tick, Later, Past
  <2>2. comTime' \in [Onus -> Past .. 2 * Guard + Window]
    BY <1>2 DEF Tick, Later, Past
  <2> QED BY <2>1, <2>2 DEF Tick, PInv, TypeOK
<1>4. Scheduled'
  <2>1. CASE running
    <3>1. gateIn \in Nat \ {0} /\ gateIn' = gateIn - 1 /\ expTx' = expTx - 1 /\ running' = running
          /\ next' = next /\ next \in Onus
      BY <2>1 DEF Tick, PInv, Scheduled, TypeOK
    <3>2. comTime'[next] = comTime[next] - 1
      BY <1>2, <2>1, <3>1 DEF PInv, Scheduled, Past
    <3>3. \A i \in Onus : slot'[i] + Window <= gateIn' \/ slot'[i] = Past
      BY <1>1, <2>1, <3>1 DEF PInv, Scheduled, Past
    <3> QED BY <2>1, <3>1, <3>2, <3>3 DEF PInv, Scheduled
  <2>2. CASE ~ running
    BY <1>1, <2>2 DEF Tick, PInv, Scheduled
  <2> QED BY <2>1, <2>2
<1>5. GrantsDisjoint'
  BY <1>1 DEF PInv, GrantsDisjoint, Past
<1>6. Turns'
  BY DEF Tick, PInv, Turns, Since
<1> QED BY <1>3, <1>4, <1>5, <1>6 DEF PInv

\* The invariant holds throughout.
THEOREM PollerInvariant == Spec => []PInv
<1>1. PInv /\ [Next]_vars => PInv'
  <2> SUFFICES ASSUME PInv, [Next]_vars PROVE PInv'
    OBVIOUS
  <2>1. CASE UNCHANGED vars
    BY <2>1 DEF vars, PInv, TypeOK, Scheduled, GrantsDisjoint, Turns, Since
  <2> QED BY <2>1, RegisterKeeps, SendSingleGateKeeps, TickKeeps DEF Next
<1> QED BY PollerInit, <1>1, PTL DEF Spec

(***************************************************************************)
(* The state keeps its shape; in particular nextONU is always an index of  *)
(* the ONU table when sendSingleGate uses it.                              *)
(***************************************************************************)
THEOREM PollerTypeCorrect == Spec => []TypeOK
<1>1. PInv => TypeOK
  BY DEF PInv
<1> QED BY PollerInvariant, <1>1, PTL

(***************************************************************************)
(* Announced slots of different ONUs are always at least a guard apart     *)
(* (DoUpstreamDBA and sendSingleGate of OLTQPerLLiDBase_P).                *)
(***************************************************************************)
THEOREM GrantsAlwaysDisjoint == Spec => []GrantsDisjoint
<1>1. PInv => GrantsDisjoint
  BY DEF PInv
<1> QED BY PollerInvariant, <1>1, PTL

(***************************************************************************)
(* No ONU is polled twice while another waits: nextONU survives every      *)
(* growth of the table.                                                    *)
(***************************************************************************)
THEOREM PollingAlwaysFair == Spec => []FairPolling
<1>1. PInv => FairPolling
  BY DEF PInv, Turns, FairPolling
<1> QED BY PollerInvariant, <1>1, PTL
=============================================================================
