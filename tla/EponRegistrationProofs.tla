----------------------- MODULE EponRegistrationProofs -----------------------
(***************************************************************************)
(* Proofs about EponRegistration, for every number of ONUs and LLIDs: the  *)
(* shape of the state and the tables of the OLT first, then where an ONU   *)
(* can be in its registration and what follows from it.                    *)
(***************************************************************************)
EXTENDS EponRegistration, ProofBasics

-----------------------------------------------------------------------------
(* The upstream allocation *)

\* A granted length is a natural number, with or without a rate limit.
LEMMA GrantLengthNat ==
  ASSUME NEW n \in Nat, NEW N \in Nat \ {0}
  PROVE  GrantLength(n, N) \in Nat
<1>1. 16 * N \in Nat \ {0} /\ SlotNumber * SlotLength * n \in Nat /\ RateBudget + 16 * N - 1 \in Nat
  BY DBAParameters
<1>2. \A a \in Nat, b \in Nat \ {0} : a \div b \in Nat
  OBVIOUS
<1>3. CeilDiv(RateBudget, 16 * N) \in Nat
  BY <1>1, <1>2 DEF CeilDiv
<1>4. n * CeilDiv(RateBudget, 16 * N) \in Nat
  BY <1>3
<1> QED BY <1>1, <1>2, <1>4 DEF GrantLength

\* The pointer after each entry is the one before it plus the entry's length.
LEMMA CurPointerFacts ==
  ASSUME NEW tbl \in Seq(Committed), NEW N \in Nat \ {0}
  PROVE  /\ CurPointer(tbl, N) \in [0 .. Len(tbl) -> Nat]
         /\ CurPointer(tbl, N)[0] = RegTimeInt
         /\ \A i \in 1 .. Len(tbl) :
              CurPointer(tbl, N)[i] = CurPointer(tbl, N)[i-1] + GrantLength(Len(tbl[i].llids), N)
<1> DEFINE n == Len(tbl)
           len(i) == GrantLength(Len(tbl[i].llids), N)
           step == [i \in 1 .. n |-> [v \in Nat |-> v + len(i)]]
           Rec(f) == f = [i \in 0 .. n |-> IF i = 0 THEN RegTimeInt ELSE f[i-1] + len(i)]
<1>1. \A i \in 1 .. n : len(i) \in Nat
  <2> TAKE i \in 1 .. n
  <2>1. Len(tbl[i].llids) \in Nat
    BY ElementOfSeq, LenProperties DEF Committed
  <2> QED BY <2>1, GrantLengthNat
<1>2. CurPointer(tbl, N) = CHOOSE f : Rec(f)
  BY DEF CurPointer
<1>3. \E f : Rec(f)
  <2>1. step \in Steps(n, Nat)
    BY <1>1 DEF Steps
  <2>2. n \in Nat /\ RegTimeInt \in Nat
    BY DBAParameters, LenProperties
  <2>3. PICK f \in [0 .. n -> Nat] :
          f[0] = RegTimeInt /\ \A i \in 1 .. n : f[i] = step[i][f[i-1]]
    <3> HIDE DEF step, n
    <3>1. PICK f : f \in Runs(n, Nat, RegTimeInt, step)
      BY <2>1, <2>2, IntervalRecursion
    <3> QED BY <3>1 DEF Runs
  <2>4. ASSUME NEW i \in 1 .. n PROVE f[i-1] \in Nat /\ f[i] = f[i-1] + len(i)
    <3> HIDE DEF n, len
    <3>1. i - 1 \in 0 .. n /\ f[i-1] \in Nat
      BY <2>2, <2>3
    <3>2. step[i] = [v \in Nat |-> v + len(i)]
      OBVIOUS
    <3> QED BY <2>3, <3>1, <3>2
  <2>5. f = [i \in 0 .. n |-> IF i = 0 THEN RegTimeInt ELSE f[i-1] + len(i)]
    <3> SUFFICES ASSUME NEW i \in 0 .. n
                 PROVE  f[i] = IF i = 0 THEN RegTimeInt ELSE f[i-1] + len(i)
      BY <2>3
    <3> QED BY <2>2, <2>3, <2>4
  <2> QED BY <2>5
<1> DEFINE ptr == CurPointer(tbl, N)
<1>4. Rec(ptr)
  BY <1>2, <1>3
<1>5. n \in Nat /\ RegTimeInt \in Nat
  BY DBAParameters, LenProperties
<1> HIDE DEF n, len, ptr
<1>6. /\ DOMAIN ptr = 0 .. n
      /\ ptr[0] = RegTimeInt
      /\ \A i \in 1 .. n : ptr[i] = ptr[i-1] + len(i)
  BY <1>4, <1>5
<1>7. \A i \in 0 .. n : ptr[i] \in Nat
  <2> DEFINE T == {i \in 0 .. n : ptr[i] \in Nat}
  <2>1. 0 \in T
    BY <1>5, <1>6
  <2>2. \A i \in 1 .. n : i - 1 \in T => i \in T
    BY <1>1, <1>5, <1>6
  <2> HIDE DEF T
  <2>3. \A i \in 0 .. n : i \in T
    BY <1>5, <2>1, <2>2, IntervalInduction
  <2> QED BY <2>3 DEF T
<1>8. ptr \in [0 .. n -> Nat]
  BY <1>4, <1>6, <1>7
<1> QED BY <1>6, <1>8 DEF n, len, ptr

\* A division keeps the entries and gives them consecutive slots, each of the
\* length that the LLIDs of the entry are worth.
LEMMA DoUpstreamDBAFacts ==
  ASSUME NEW tbl \in Seq(Committed), NEW N \in Nat
  PROVE  LET new == DoUpstreamDBA(tbl, N)
         IN  /\ new \in Seq(Committed)
             /\ Len(new) = Len(tbl)
             /\ \A i \in 1 .. Len(tbl) : new[i].id = tbl[i].id /\ new[i].llids = tbl[i].llids
             /\ N # 0 => \A i \in 1 .. Len(tbl) :
                  /\ new[i].start = IF i = 1 THEN RegTimeInt
                                    ELSE new[i-1].start + new[i-1].length
                  /\ new[i].length = GrantLength(Len(tbl[i].llids), N)
<1> DEFINE new == DoUpstreamDBA(tbl, N)
           n == Len(tbl)
<1>1. n \in Nat /\ \A i \in 1 .. n : tbl[i] \in Committed
  BY LenProperties, ElementOfSeq
<1>2. CASE N = 0
  BY <1>1, <1>2 DEF DoUpstreamDBA
<1>3. CASE N # 0
  <2> DEFINE ptr == CurPointer(tbl, N)
             len == [i \in 1 .. n |-> GrantLength(Len(tbl[i].llids), N)]
  <2>1. N \in Nat \ {0}
    BY <1>3
  <2>2. \A i \in 1 .. n : len[i] \in Nat
    <3> SUFFICES ASSUME NEW i \in 1 .. n PROVE GrantLength(Len(tbl[i].llids), N) \in Nat
      OBVIOUS
    <3>1. Len(tbl[i].llids) \in Nat
      BY <1>1, LenProperties DEF Committed, LLIDs
    <3> QED BY <2>1, <3>1, GrantLengthNat
  <2>3. /\ ptr \in [0 .. n -> Nat]
        /\ ptr[0] = RegTimeInt
        /\ \A i \in 1 .. n : ptr[i] = ptr[i-1] + len[i]
    BY <2>1, CurPointerFacts
  <2>4. new = [i \in 1 .. n |-> [tbl[i] EXCEPT !.start = ptr[i-1], !.length = len[i]]]
    BY <1>3 DEF DoUpstreamDBA
  <2> HIDE DEF new, n, ptr, len
  <2>5. \A i \in 1 .. n : ptr[i-1] \in Nat /\ len[i] \in Nat
    BY <1>1, <2>2, <2>3
  <2>6. ASSUME NEW i \in 1 .. n
        PROVE  /\ new[i] \in Committed /\ new[i].id = tbl[i].id /\ new[i].llids = tbl[i].llids
               /\ new[i].start = ptr[i-1] /\ new[i].length = len[i]
    BY <1>1, <2>4, <2>5 DEF Committed
  <2>7. new \in Seq(Committed) /\ Len(new) = n
    <3>1. new \in [1 .. n -> Committed]
      BY <2>4, <2>6
    <3> QED BY <1>1, <3>1, SeqDef, LenProperties
  <2>8. ASSUME NEW i \in 1 .. n
        PROVE  new[i].start = IF i = 1 THEN RegTimeInt ELSE new[i-1].start + new[i-1].length
    <3>1. CASE i = 1
      BY <2>3, <2>6, <3>1
    <3>2. CASE i # 1
      <4>1. i - 1 \in 1 .. n
        BY <1>1, <3>2
      <4>2. new[i-1].start = ptr[i-1-1] /\ new[i-1].length = len[i-1] /\ new[i].start = ptr[i-1]
        BY <2>6, <4>1
      <4>3. ptr[i-1] = ptr[i-1-1] + len[i-1]
        BY <2>3, <4>1
      <4> QED BY <3>2, <4>2, <4>3
    <3> QED BY <3>1, <3>2
  <2>9. \A i \in 1 .. n : len[i] = GrantLength(Len(tbl[i].llids), N)
    BY DEF len
  <2> QED BY <2>6, <2>7, <2>8, <2>9 DEF new, n
<1> QED BY <1>2, <1>3

-----------------------------------------------------------------------------
(* Queues *)

\* The first position in a set of positions.
LEMMA FirstOfFacts ==
  ASSUME NEW S \in SUBSET Nat, S # {}
  PROVE  FirstOf(S) \in S /\ \A j \in S : FirstOf(S) <= j
BY LeastMember DEF FirstOf

\* Inserting a queue, of the OLT or of an ONU.
LEMMA AddSortedFacts ==
  ASSUME NEW Q, NEW qs \in Seq(Q), NEW q \in Q
  PROVE  /\ AddSorted(qs, q) \in Seq(Q)
         /\ Len(AddSorted(qs, q)) = Len(qs) + 1
         /\ ToSet(AddSorted(qs, q)) = ToSet(qs) \union {q}
<1> DEFINE lower == {i \in 1 .. Len(qs) : qs[i].prior < q.prior}
<1>1. CASE lower = {}
  <2>1. AddSorted(qs, q) = Append(qs, q)
    BY <1>1 DEF AddSorted
  <2>2. ToSet(Append(qs, q)) = ToSet(qs) \union {q}
    BY ToSetFacts
  <2> QED BY <2>1, <2>2, AppendProperties
<1>2. CASE lower # {}
  <2> DEFINE k == CHOOSE i \in lower : \A j \in lower : i <= j
  <2>1. k \in lower
    <3>1. lower \in SUBSET Nat
      BY LenProperties
    <3> HIDE DEF lower
    <3> QED BY <1>2, <3>1, LeastMember
  <2>2. AddSorted(qs, q) = InsertAt(qs, k, q)
    BY <1>2 DEF AddSorted
  <2>3. k \in 1 .. Len(qs)
    BY <2>1
  <2> HIDE DEF k
  <2> QED BY <2>2, <2>3, InsertAtFacts
<1> QED BY <1>1, <1>2

(***************************************************************************)
(* The function that leads from qs, at 0, to qs with the first j of the    *)
(* given queues added, at j.                                               *)
(***************************************************************************)
IsAdding(f, n, qs, new) ==
  f = [j \in 0 .. n |-> IF j = 0 THEN qs ELSE AddSorted(f[j-1], new[j])]

\* There is such a function.
LEMMA AddingExists ==
  ASSUME NEW Q, NEW n \in Nat, NEW qs \in Seq(Q), NEW new \in [1 .. n -> Q]
  PROVE  \E f : IsAdding(f, n, qs, new)
<1> DEFINE step == [j \in 1 .. n |-> [v \in Seq(Q) |-> AddSorted(v, new[j])]]
<1>1. step \in Steps(n, Seq(Q))
  BY AddSortedFacts DEF Steps
<1>2. PICK f \in [0 .. n -> Seq(Q)] :
        f[0] = qs /\ \A j \in 1 .. n : f[j] = step[j][f[j-1]]
  <2> HIDE DEF step
  <2>1. PICK f : f \in Runs(n, Seq(Q), qs, step)
    BY <1>1, IntervalRecursion
  <2> QED BY <2>1 DEF Runs
<1>3. ASSUME NEW j \in 1 .. n PROVE f[j] = AddSorted(f[j-1], new[j])
  <2>1. j - 1 \in 0 .. n /\ f[j-1] \in Seq(Q)
    BY <1>2
  <2>2. step[j] = [v \in Seq(Q) |-> AddSorted(v, new[j])]
    OBVIOUS
  <2> HIDE DEF step
  <2> QED BY <1>2, <2>1, <2>2
<1>4. f = [j \in 0 .. n |-> IF j = 0 THEN qs ELSE AddSorted(f[j-1], new[j])]
  <2> SUFFICES ASSUME NEW j \in 0 .. n
               PROVE  f[j] = IF j = 0 THEN qs ELSE AddSorted(f[j-1], new[j])
    BY <1>2
  <2> QED BY <1>2, <1>3
<1> QED BY <1>4 DEF IsAdding

\* It ends in the queues that were there and the new ones.
LEMMA AddingResult ==
  ASSUME NEW Q, NEW n \in Nat, NEW qs \in Seq(Q), NEW new \in [1 .. n -> Q],
         NEW f, IsAdding(f, n, qs, new)
  PROVE  /\ f[n] \in Seq(Q)
         /\ Len(f[n]) = Len(qs) + n
         /\ ToSet(f[n]) = ToSet(qs) \union ToSet(new)
<1>0. \A j \in 1 .. n, v \in Seq(Q) :
        /\ AddSorted(v, new[j]) \in Seq(Q)
        /\ Len(AddSorted(v, new[j])) = Len(v) + 1
        /\ ToSet(AddSorted(v, new[j])) = ToSet(v) \union {new[j]}
  BY AddSortedFacts
<1>1. f[0] = qs /\ \A j \in 1 .. n : f[j] = AddSorted(f[j-1], new[j])
  <2>1. f = [j \in 0 .. n |-> IF j = 0 THEN qs ELSE AddSorted(f[j-1], new[j])]
    BY DEF IsAdding
  <2>2. 0 \in 0 .. n /\ \A j \in 1 .. n : j \in 0 .. n /\ j # 0
    OBVIOUS
  <2> QED BY <2>1, <2>2
<1> DEFINE Added(j) == /\ f[j] \in Seq(Q)
                       /\ Len(f[j]) = Len(qs) + j
                       /\ ToSet(f[j]) = ToSet(qs) \union {new[k] : k \in 1 .. j}
           T == {j \in 0 .. n : Added(j)}
<1>2. 0 \in T
  BY <1>1, LenProperties
<1>3. ASSUME NEW j \in 1 .. n, j - 1 \in T PROVE j \in T
  <2>1. /\ f[j-1] \in Seq(Q) /\ Len(f[j-1]) = Len(qs) + (j - 1)
        /\ ToSet(f[j-1]) = ToSet(qs) \union {new[k] : k \in 1 .. j - 1}
    BY <1>3
  <2>2. /\ f[j] \in Seq(Q) /\ Len(f[j]) = Len(f[j-1]) + 1
        /\ ToSet(f[j]) = ToSet(f[j-1]) \union {new[j]}
    <3>1. f[j] = AddSorted(f[j-1], new[j])
      BY <1>1
    <3> QED BY <1>0, <2>1, <3>1
  <2>3. {new[k] : k \in 1 .. j} = {new[k] : k \in 1 .. j - 1} \union {new[j]}
    <3>1. \A k : k \in 1 .. j <=> k \in 1 .. j - 1 \/ k = j
      OBVIOUS
    <3> QED BY <3>1
  <2>4. Len(f[j]) = Len(qs) + j
    <3>1. Len(qs) \in Nat
      BY LenProperties
    <3> QED BY <2>1, <2>2, <3>1
  <2>5. ToSet(f[j]) = ToSet(qs) \union {new[k] : k \in 1 .. j}
    BY <2>1, <2>2, <2>3
  <2> QED BY <2>2, <2>4, <2>5
<1> HIDE DEF T
<1>4. \A j \in 0 .. n : j \in T
  BY <1>2, <1>3, IntervalInduction
<1>5. n \in T
  BY <1>4
<1>6. ToSet(new) = {new[j] : j \in 1 .. n}
  BY DEF ToSet
<1> QED BY <1>5, <1>6 DEF T

\* The priority of a queue is a natural number.
LEMMA PriorOfFacts ==
  ASSUME NEW n \in Nat, NEW j \in 1 .. n
  PROVE  PriorOf(j, n) \in Priority
<1>1. \A k \in 1 .. Len(SrvPrior) : SrvPrior[k] \in Nat
  BY RegistrationParameters, ElementOfSeq
<1>2. Len(SrvPrior) \in Nat
  BY RegistrationParameters, LenProperties
<1> QED BY <1>1, <1>2 DEF PriorOf, Priority, DefaultPrior

\* The queues of the OLT after those of an entry have been added.
LEMMA CreateOltQueuesFacts ==
  ASSUME NEW qs \in Seq(OltQueue), NEW e \in Committed
  PROVE  LET n == Len(e.llids)
             result == CreateOltQueues(qs, e)
         IN  /\ result \in Seq(OltQueue)
             /\ Len(result) = Len(qs) + n
             /\ ToSet(result) = ToSet(qs) \union
                  {[mac |-> e.id, llid |-> e.llids[j], prior |-> PriorOf(j, n)] : j \in 1 .. n}
<1> DEFINE n == Len(e.llids)
           rec(j) == [mac |-> e.id, llid |-> e.llids[j], prior |-> PriorOf(j, n)]
           new == [j \in 1 .. n |-> rec(j)]
           result == CreateOltQueues(qs, e)
<1>1. n \in Nat /\ \A j \in 1 .. n : rec(j) \in OltQueue
  <2>1. e.llids \in Seq(LLID)
    BY DEF Committed, LLIDs
  <2>2. \A j \in 1 .. n : e.llids[j] \in LLID /\ PriorOf(j, n) \in Priority
    BY <2>1, ElementOfSeq, LenProperties, PriorOfFacts
  <2> QED BY <2>1, <2>2, LenProperties DEF OltQueue, Committed
<1>2. result = (CHOOSE f : f = [j \in 0 .. n |-> IF j = 0 THEN qs ELSE AddSorted(f[j-1], rec(j))])[n]
  BY DEF CreateOltQueues
<1> HIDE DEF rec, n, result
<1>3. \A f : [j \in 0 .. n |-> IF j = 0 THEN qs ELSE AddSorted(f[j-1], rec(j))]
             = [j \in 0 .. n |-> IF j = 0 THEN qs ELSE AddSorted(f[j-1], new[j])]
  BY <1>1
<1>4. result = (CHOOSE f : IsAdding(f, n, qs, new))[n]
  BY <1>2, <1>3 DEF IsAdding
<1>5. /\ \E f : IsAdding(f, n, qs, new)
      /\ \A f : IsAdding(f, n, qs, new) =>
           /\ f[n] \in Seq(OltQueue) /\ Len(f[n]) = Len(qs) + n
           /\ ToSet(f[n]) = ToSet(qs) \union ToSet(new)
  <2>1. n \in Nat /\ new \in [1 .. n -> OltQueue]
    BY <1>1
  <2> HIDE DEF new
  <2>2. \E f : IsAdding(f, n, qs, new)
    BY <2>1, AddingExists
  <2>3. ASSUME NEW f, IsAdding(f, n, qs, new)
        PROVE  /\ f[n] \in Seq(OltQueue) /\ Len(f[n]) = Len(qs) + n
               /\ ToSet(f[n]) = ToSet(qs) \union ToSet(new)
    BY <2>1, <2>3, AddingResult
  <2> QED BY <2>2, <2>3
<1>6. ToSet(new) = {rec(j) : j \in 1 .. n}
  BY DEF ToSet
<1> HIDE DEF new
<1>7. /\ result \in Seq(OltQueue) /\ Len(result) = Len(qs) + n
      /\ ToSet(result) = ToSet(qs) \union {rec(j) : j \in 1 .. n}
  BY <1>4, <1>5, <1>6
<1> QED BY <1>7 DEF n, result, rec

\* The queues of an ONU after those of a REGISTER have been added.
LEMMA CreateOnuQueuesFacts ==
  ASSUME NEW qs \in Seq(OnuQueue), NEW ids \in LLIDs
  PROVE  LET n == Len(ids)
             result == CreateOnuQueues(qs, ids)
         IN  /\ result \in Seq(OnuQueue)
             /\ Len(result) = Len(qs) + n
             /\ ToSet(result) = ToSet(qs) \union
                  {[llid |-> ids[j], prior |-> PriorOf(j, n)] : j \in 1 .. n}
<1> DEFINE n == Len(ids)
           rec(j) == [llid |-> ids[j], prior |-> PriorOf(j, n)]
           new == [j \in 1 .. n |-> rec(j)]
           result == CreateOnuQueues(qs, ids)
<1>1. n \in Nat /\ \A j \in 1 .. n : rec(j) \in OnuQueue
  <2>1. ids \in Seq(LLID)
    BY DEF LLIDs
  <2>2. \A j \in 1 .. n : ids[j] \in LLID /\ PriorOf(j, n) \in Priority
    BY <2>1, ElementOfSeq, LenProperties, PriorOfFacts
  <2> QED BY <2>1, <2>2, LenProperties DEF OnuQueue
<1>2. result = (CHOOSE f : f = [j \in 0 .. n |-> IF j = 0 THEN qs ELSE AddSorted(f[j-1], rec(j))])[n]
  BY DEF CreateOnuQueues
<1> HIDE DEF rec, n, result
<1>3. \A f : [j \in 0 .. n |-> IF j = 0 THEN qs ELSE AddSorted(f[j-1], rec(j))]
             = [j \in 0 .. n |-> IF j = 0 THEN qs ELSE AddSorted(f[j-1], new[j])]
  BY <1>1
<1>4. result = (CHOOSE f : IsAdding(f, n, qs, new))[n]
  BY <1>2, <1>3 DEF IsAdding
<1>5. /\ \E f : IsAdding(f, n, qs, new)
      /\ \A f : IsAdding(f, n, qs, new) =>
           /\ f[n] \in Seq(OnuQueue) /\ Len(f[n]) = Len(qs) + n
           /\ ToSet(f[n]) = ToSet(qs) \union ToSet(new)
  <2>1. n \in Nat /\ new \in [1 .. n -> OnuQueue]
    BY <1>1
  <2> HIDE DEF new
  <2>2. \E f : IsAdding(f, n, qs, new)
    BY <2>1, AddingExists
  <2>3. ASSUME NEW f, IsAdding(f, n, qs, new)
        PROVE  /\ f[n] \in Seq(OnuQueue) /\ Len(f[n]) = Len(qs) + n
               /\ ToSet(f[n]) = ToSet(qs) \union ToSet(new)
    BY <2>1, <2>3, AddingResult
  <2> QED BY <2>2, <2>3
<1>6. ToSet(new) = {rec(j) : j \in 1 .. n}
  BY DEF ToSet
<1> HIDE DEF new
<1>7. /\ result \in Seq(OnuQueue) /\ Len(result) = Len(qs) + n
      /\ ToSet(result) = ToSet(qs) \union {rec(j) : j \in 1 .. n}
  BY <1>4, <1>5, <1>6
<1> QED BY <1>7 DEF n, result, rec

-----------------------------------------------------------------------------
(* Frames and tables *)

\* The frames that the handlers build are frames of the model.
LEMMA FramesSent ==
  /\ RegGate \in DownFrame
  /\ \A e \in Committed : Gate(e) \in DownFrame
  /\ \A ids \in LLIDs : Register(ids) \in DownFrame
  /\ \A o \in ONU : RegReq(o) \in UpFrame /\ RegAck(o) \in UpFrame
<1>1. \A o \in ONU : NumLLIDs[o] \in Nat \ {0}
  <2>1. Cardinality(LLID) \in Nat
    BY RegistrationParameters, FS_CardinalityType
  <2> QED BY <2>1, RegistrationParameters
<1>2. RegGate \in DownFrame
  BY DBAParameters DEF RegGate, DownFrame
<1>3. \A e \in Committed : Gate(e) \in DownFrame
  BY DEF Gate, DownFrame, Committed
<1>4. \A ids \in LLIDs : Register(ids) \in DownFrame
  BY DEF Register, DownFrame
<1>5. \A o \in ONU : RegReq(o) \in UpFrame /\ RegAck(o) \in UpFrame
  BY <1>1 DEF RegReq, RegAck, UpFrame
<1> QED BY <1>2, <1>3, <1>4, <1>5

\* What a received frame carries, by its kind.
LEMMA FramesReceived ==
  /\ \A m \in DownFrame : m.op \in {"REGGATE", "GATE"} => m.start \in Nat /\ m.length \in Nat
  /\ \A m \in DownFrame : m.op = "REGISTER" => m.llids \in LLIDs
  /\ \A m \in UpFrame : m.src \in ONU /\ (m.op = "REGREQ" => m.num \in Nat \ {0})
BY DEF DownFrame, UpFrame

\* The LLIDs drawn for a new entry form a non-empty sequence of LLIDs.
LEMMA LLIDChoicesTyped ==
  ASSUME NEW n \in Nat \ {0}
  PROVE  LLIDChoices(n) \subseteq LLIDs
<1> SUFFICES ASSUME NEW ids \in [1 .. n -> LLID] PROVE ids \in LLIDs
  BY DEF LLIDChoices
<1>1. ids \in Seq(LLID)
  BY SeqDef
<1>2. Len(ids) = n
  BY <1>1, LenProperties
<1> QED BY <1>1, <1>2, EmptySeq DEF LLIDs

\* addONU appends the entry of an ONU that is not in the table yet.
LEMMA AddONUFacts ==
  ASSUME NEW tbl \in Seq(Committed), NEW e \in Committed
  PROVE  /\ AddONU(tbl, e) \in Seq(Committed)
         /\ Positions(tbl, e.id) = {} => AddONU(tbl, e) = Append(tbl, e)
<1> DEFINE pos == Positions(tbl, e.id)
<1>1. CASE pos = {}
  BY <1>1, AppendProperties DEF AddONU
<1>2. CASE pos # {}
  <2>1. FirstOf(pos) \in 1 .. Len(tbl)
    <3>1. pos \in SUBSET Nat /\ pos \subseteq 1 .. Len(tbl)
      BY LenProperties DEF Positions
    <3> HIDE DEF pos
    <3> QED BY <1>2, <3>1, FirstOfFacts
  <2>2. AddONU(tbl, e) = [tbl EXCEPT ![FirstOf(pos)] = e]
    BY <1>2 DEF AddONU
  <2> HIDE DEF pos
  <2> QED BY <1>2, <2>1, <2>2, ExceptSeq DEF pos
<1> QED BY <1>1, <1>2

\* An ONU is sent at most one frame by SendGateUpdates, and it is a GATE.
LEMMA SendGateUpdatesFacts ==
  ASSUME NEW dn \in [ONU -> Seq(DownFrame)], NEW tbl \in Seq(Committed)
  PROVE  /\ SendGateUpdates(dn, tbl) \in [ONU -> Seq(DownFrame)]
         /\ \A o \in ONU :
              \/ SendGateUpdates(dn, tbl)[o] = dn[o]
              \/ \E m \in DownFrame : /\ m.op = "GATE"
                                      /\ SendGateUpdates(dn, tbl)[o] = Append(dn[o], m)
<1> DEFINE new == SendGateUpdates(dn, tbl)
<1>1. ASSUME NEW o \in ONU
      PROVE  \/ new[o] = dn[o]
             \/ \E m \in DownFrame : m.op = "GATE" /\ new[o] = Append(dn[o], m)
  <2> DEFINE pos == Positions(tbl, o)
  <2>1. new[o] = IF pos = {} THEN dn[o] ELSE Append(dn[o], Gate(tbl[FirstOf(pos)]))
    BY DEF SendGateUpdates
  <2>2. pos \in SUBSET Nat /\ pos \subseteq 1 .. Len(tbl)
    BY LenProperties DEF Positions
  <2> HIDE DEF pos, new
  <2>3. CASE pos # {}
    <3>1. tbl[FirstOf(pos)] \in Committed
      BY <2>2, <2>3, FirstOfFacts, ElementOfSeq
    <3>2. Gate(tbl[FirstOf(pos)]) \in DownFrame /\ Gate(tbl[FirstOf(pos)]).op = "GATE"
      BY <3>1, FramesSent DEF Gate
    <3> QED BY <2>1, <2>3, <3>2
  <2> QED BY <2>1, <2>3
<1>2. \A o \in ONU : new[o] \in Seq(DownFrame)
  <2> HIDE DEF new
  <2> SUFFICES ASSUME NEW o \in ONU PROVE new[o] \in Seq(DownFrame)
    OBVIOUS
  <2>1. \A m \in DownFrame : Append(dn[o], m) \in Seq(DownFrame)
    BY AppendProperties
  <2> QED BY <1>1, <2>1
<1>3. new \in [ONU -> Seq(DownFrame)]
  BY <1>2 DEF SendGateUpdates
<1> QED BY <1>1, <1>3

-----------------------------------------------------------------------------
(* Type correctness *)

(***************************************************************************)
(* What OltRegAck computes: the entry at the first position of the sender  *)
(* is a request, and the tables and queues it produces are well formed.    *)
(***************************************************************************)
LEMMA OltRegAckFacts ==
  ASSUME TypeOK, OltRegAck
  PROVE  \E i \in 1 .. Len(temptbl), e \in Committed, tbl \in Seq(Committed) :
           /\ Head(up) \in UpFrame /\ Head(up).op = "REGACK" /\ up # <<>>
           /\ i = FirstOf(Positions(temptbl, Head(up).src))
           /\ temptbl[i].id = Head(up).src
           /\ e.id = temptbl[i].id /\ e.llids = temptbl[i].llids
           /\ oltTimers' = Cancel(oltTimers, pendingAck[i])
           /\ pendingAck' = RemoveAt(pendingAck, i)
           /\ temptbl' = RemoveAt(temptbl, i)
           /\ tbl = AddONU(onutbl, e)
           /\ oltQueues' = CreateOltQueues(oltQueues, e)
           /\ oltQueues' \in Seq(OltQueue)
           /\ Len(oltQueues') = Len(oltQueues) + Len(e.llids)
           /\ onutbl' = DoUpstreamDBA(tbl, Len(oltQueues') - 1)
           /\ Len(oltQueues') - 1 \in Nat
           /\ down' = SendGateUpdates(down, onutbl')
           /\ up' = Tail(up)
           /\ UNCHANGED onuVars
<1> DEFINE o == Head(up).src
           pos == Positions(temptbl, o)
           i == FirstOf(pos)
           e == [id |-> temptbl[i].id, llids |-> temptbl[i].llids,
                 start |-> 0, length |-> 0]
           qs == CreateOltQueues(oltQueues, e)
           tbl == AddONU(onutbl, e)
<1>1. up # <<>> /\ Head(up).op = "REGACK" /\ Head(up) \in UpFrame
  BY TailFacts DEF OltRegAck, UpArrives, TypeOK
<1>2. /\ pos # {}
      /\ oltTimers' = Cancel(oltTimers, pendingAck[i])
      /\ pendingAck' = RemoveAt(pendingAck, i)
      /\ temptbl' = RemoveAt(temptbl, i)
      /\ oltQueues' = qs
      /\ onutbl' = DoUpstreamDBA(tbl, Len(qs) - 1)
      /\ down' = SendGateUpdates(down, onutbl')
      /\ up' = Tail(up)
      /\ UNCHANGED onuVars
  BY DEF OltRegAck
<1>3. i \in 1 .. Len(temptbl) /\ temptbl[i].id = o
  <2>1. pos \in SUBSET Nat /\ pos \subseteq {k \in 1 .. Len(temptbl) : temptbl[k].id = o}
    BY LenProperties DEF Positions, TypeOK
  <2>2. FirstOf(pos) \in pos
    <3> HIDE DEF pos
    <3> QED BY <1>2, <2>1, FirstOfFacts
  <2> QED BY <2>1, <2>2
<1>4. temptbl[i] \in Request
  BY <1>3, ElementOfSeq DEF TypeOK
<1> HIDE DEF i
<1>5. e \in Committed /\ Len(e.llids) \in Nat \ {0} /\ e.id = temptbl[i].id /\ e.llids = temptbl[i].llids
  <2>1. e \in Committed /\ e.id = temptbl[i].id /\ e.llids = temptbl[i].llids
    BY <1>4 DEF Committed, Request
  <2>2. e.llids \in Seq(LLID) /\ e.llids # <<>>
    BY <2>1 DEF Committed, LLIDs
  <2>3. Len(e.llids) \in Nat \ {0}
    <3> HIDE DEF e
    <3> QED BY <2>2, EmptySeq, LenProperties
  <2> QED BY <2>1, <2>3
<1> HIDE DEF e
<1>6. /\ qs \in Seq(OltQueue) /\ Len(qs) = Len(oltQueues) + Len(e.llids)
      /\ tbl \in Seq(Committed)
  BY <1>5, CreateOltQueuesFacts, AddONUFacts DEF TypeOK
<1>7. Len(qs) - 1 \in Nat
  <2>1. Len(oltQueues) \in Nat
    BY LenProperties DEF TypeOK
  <2> QED BY <1>5, <1>6, <2>1
<1> HIDE DEF qs, tbl
<1>8. /\ i = FirstOf(Positions(temptbl, Head(up).src)) /\ tbl = AddONU(onutbl, e)
      /\ qs = CreateOltQueues(oltQueues, e)
  BY DEF i, tbl, qs
<1> QED BY <1>1, <1>2, <1>3, <1>5, <1>6, <1>7, <1>8

(***************************************************************************)
(* The timer that expires is the one at index 1 of pendingAck, so the      *)
(* entry that is dropped is the first.                                     *)
(***************************************************************************)
LEMMA OltRegTimeOutFacts ==
  ASSUME TypeOK, PendingAligned, OltRegTimeOut
  PROVE  /\ temptbl # <<>> /\ pendingAck # <<>> /\ oltTimers # <<>>
         /\ oltTimers' = Tail(oltTimers)
         /\ pendingAck' = Tail(pendingAck)
         /\ temptbl' = Tail(temptbl)
         /\ UNCHANGED <<onutbl, oltQueues, onuVars, down, up>>
<1> DEFINE pos == {i \in 1 .. Len(pendingAck) : pendingAck[i] = Head(oltTimers)}
<1>1. /\ temptbl # <<>> /\ pendingAck # <<>> /\ oltTimers # <<>>
      /\ Len(temptbl) \in Nat \ {0} /\ Len(pendingAck) = Len(temptbl)
  <2>1. oltTimers # <<>> /\ oltTimers = pendingAck /\ Len(pendingAck) = Len(temptbl)
    BY DEF OltRegTimeOut, PendingAligned
  <2>2. Len(temptbl) \in Nat \ {0}
    BY <2>1, TailFacts DEF TypeOK
  <2> QED BY <2>1, <2>2, EmptySeq
<1>2. 1 \in pos /\ pos \subseteq 1 .. Len(pendingAck) /\ pos \in SUBSET Nat
  <2>1. Head(oltTimers) = pendingAck[1]
    BY <1>1, TailFacts DEF PendingAligned, TypeOK
  <2> QED BY <1>1, <2>1
<1>3. FirstOf(pos) = 1
  <2> HIDE DEF pos
  <2>1. FirstOf(pos) \in pos /\ FirstOf(pos) <= 1
    BY <1>2, FirstOfFacts
  <2>2. FirstOf(pos) \in 1 .. Len(pendingAck)
    BY <1>2, <2>1
  <2> QED BY <1>1, <2>1, <2>2
<1>4. /\ oltTimers' = Tail(oltTimers)
      /\ pendingAck' = RemoveAt(pendingAck, FirstOf(pos))
      /\ temptbl' = RemoveAt(temptbl, FirstOf(pos))
      /\ UNCHANGED <<onutbl, oltQueues, onuVars, down, up>>
  <2>1. pos # {}
    BY <1>2
  <2> QED BY <2>1 DEF OltRegTimeOut
<1> HIDE DEF pos
<1>5. RemoveAt(pendingAck, 1) = Tail(pendingAck) /\ RemoveAt(temptbl, 1) = Tail(temptbl)
  BY <1>1, TailIsRemoveAt DEF TypeOK
<1> QED BY <1>1, <1>3, <1>4, <1>5

\* Every handler preserves the shape of the state.
LEMMA TypeStep ==
  ASSUME TypeOK, PendingAligned, [Next]_vars
  PROVE  TypeOK'
<1>1. CASE OltRegReq
  <2> DEFINE o == Head(up).src
  <2>1. up # <<>> /\ Head(up).op = "REGREQ" /\ Head(up) \in UpFrame /\ o \in ONU /\ Head(up).num \in Nat \ {0}
    BY <1>1, TailFacts, FramesReceived DEF OltRegReq, UpArrives, TypeOK
  <2>2. PICK ids \in LLIDChoices(Head(up).num) :
          /\ temptbl' = Append(temptbl, [id |-> o, llids |-> ids])
          /\ pendingAck' = Append(pendingAck, o)
          /\ oltTimers' = Append(oltTimers, o)
          /\ down' = [down EXCEPT ![o] = Append(@, Register(ids))]
    BY <1>1 DEF OltRegReq
  <2>3. ids \in LLIDs
    BY <2>1, LLIDChoicesTyped
  <2> HIDE DEF o
  <2>4. [id |-> o, llids |-> ids] \in Request
    BY <2>1, <2>3 DEF Request
  <2>5. temptbl' \in Seq(Request) /\ pendingAck' \in Seq(ONU) /\ oltTimers' \in Seq(ONU)
    BY <2>1, <2>2, <2>4, AppendProperties DEF TypeOK
  <2>6. down' \in [ONU -> Seq(DownFrame)]
    <3>1. Register(ids) \in DownFrame
      BY <2>3, FramesSent
    <3>2. Append(down[o], Register(ids)) \in Seq(DownFrame)
      BY <2>1, <3>1, AppendProperties DEF TypeOK
    <3> QED BY <2>1, <2>2, <3>2 DEF TypeOK
  <2>7. up' \in Seq(UpFrame)
    BY <1>1, <2>1, TailFacts DEF OltRegReq, TypeOK
  <2> QED BY <1>1, <2>5, <2>6, <2>7 DEF OltRegReq, TypeOK, onuVars
<1>2. CASE OltRegAck
  <2>1. PICK i \in 1 .. Len(temptbl), e \in Committed, tbl \in Seq(Committed) :
           /\ Head(up) \in UpFrame /\ up # <<>>
           /\ oltTimers' = Cancel(oltTimers, pendingAck[i])
           /\ pendingAck' = RemoveAt(pendingAck, i)
           /\ temptbl' = RemoveAt(temptbl, i)
           /\ oltQueues' \in Seq(OltQueue)
           /\ onutbl' = DoUpstreamDBA(tbl, Len(oltQueues') - 1)
           /\ Len(oltQueues') - 1 \in Nat
           /\ down' = SendGateUpdates(down, onutbl')
           /\ up' = Tail(up)
           /\ UNCHANGED onuVars
    BY <1>2, OltRegAckFacts
  <2>2. i \in 1 .. Len(pendingAck)
    BY DEF PendingAligned
  <2>3. temptbl' \in Seq(Request) /\ pendingAck' \in Seq(ONU)
    BY <2>1, <2>2, RemoveAtFacts DEF TypeOK
  <2>4. oltTimers' \in Seq(ONU)
    <3> DEFINE pos == {k \in 1 .. Len(oltTimers) : oltTimers[k] = pendingAck[i]}
    <3>1. CASE pos = {}
      BY <2>1, <3>1 DEF Cancel, TypeOK
    <3>2. CASE pos # {}
      <4>1. pos \in SUBSET Nat /\ pos \subseteq 1 .. Len(oltTimers)
        BY LenProperties DEF TypeOK
      <4>2. oltTimers' = RemoveAt(oltTimers, FirstOf(pos))
        BY <2>1, <3>2 DEF Cancel
      <4> HIDE DEF pos
      <4>3. FirstOf(pos) \in 1 .. Len(oltTimers)
        BY <3>2, <4>1, FirstOfFacts
      <4> QED BY <4>2, <4>3, RemoveAtFacts DEF TypeOK
    <3> QED BY <3>1, <3>2
  <2>5. onutbl' \in Seq(Committed)
    BY <2>1, DoUpstreamDBAFacts
  <2>6. down' \in [ONU -> Seq(DownFrame)]
    BY <2>1, <2>5, SendGateUpdatesFacts DEF TypeOK
  <2>7. up' \in Seq(UpFrame)
    BY <2>1, TailFacts DEF TypeOK
  <2> QED BY <2>1, <2>3, <2>4, <2>5, <2>6, <2>7 DEF TypeOK, onuVars
<1>3. CASE OltLateRegAck
  BY <1>3, TailFacts DEF OltLateRegAck, UpArrives, TypeOK, oltVars, onuVars
<1>4. CASE OltRegTimeOut
  <2>1. /\ temptbl # <<>> /\ pendingAck # <<>> /\ oltTimers # <<>>
        /\ oltTimers' = Tail(oltTimers) /\ pendingAck' = Tail(pendingAck) /\ temptbl' = Tail(temptbl)
        /\ UNCHANGED <<onutbl, oltQueues, onuVars, down, up>>
    BY <1>4, OltRegTimeOutFacts
  <2>2. temptbl' \in Seq(Request) /\ pendingAck' \in Seq(ONU) /\ oltTimers' \in Seq(ONU)
    BY <2>1, TailFacts DEF TypeOK
  <2> QED BY <2>1, <2>2 DEF TypeOK, onuVars
<1>5. CASE \E o \in ONU : OnuNext(o)
  <2> PICK o \in ONU : OnuNext(o)
    BY <1>5
  <2>0. ASSUME NEW op, DownArrives(o, op)
        PROVE  /\ down[o] # <<>> /\ Head(down[o]).op = op /\ Head(down[o]) \in DownFrame
               /\ Received(o) => down' \in [ONU -> Seq(DownFrame)]
    <3>1. down[o] # <<>> /\ down[o] \in Seq(DownFrame)
      BY <2>0 DEF DownArrives, TypeOK
    <3>2. Head(down[o]) \in DownFrame /\ Tail(down[o]) \in Seq(DownFrame)
      BY <3>1, TailFacts
    <3> QED BY <2>0, <3>1, <3>2 DEF DownArrives, Received, TypeOK
  <2>1. CASE OnuRegGate(o) \/ OnuGate(o)
    <3>1. /\ Head(down[o]).start \in Nat /\ Head(down[o]).length \in Nat
          /\ down' \in [ONU -> Seq(DownFrame)]
      BY <2>0, <2>1, FramesReceived DEF OnuRegGate, OnuGate
    <3>2. grant' \in [ONU -> [start : Nat, length : Nat]]
      <4> DEFINE g == [start |-> Head(down[o]).start, length |-> Head(down[o]).length]
      <4>1. g \in [start : Nat, length : Nat] /\ grant' = [grant EXCEPT ![o] = g]
        BY <2>1, <3>1 DEF OnuRegGate, OnuGate
      <4> HIDE DEF g
      <4> QED BY <4>1 DEF TypeOK
    <3>3. regSend' \in SUBSET ONU /\ regTO' \in SUBSET ONU
      BY <2>1 DEF OnuRegGate, OnuGate, TypeOK
    <3> QED BY <2>1, <3>1, <3>2, <3>3 DEF OnuRegGate, OnuGate, TypeOK, oltVars
  <2>2. CASE OnuSendRegReq(o)
    <3>1. up' \in Seq(UpFrame)
      BY <2>2, FramesSent, AppendProperties DEF OnuSendRegReq, TypeOK
    <3> QED BY <2>2, <3>1 DEF OnuSendRegReq, TypeOK, oltVars
  <2>3. CASE OnuRegister(o)
    <3>1. Head(down[o]).llids \in LLIDs /\ down' \in [ONU -> Seq(DownFrame)]
      BY <2>0, <2>3, FramesReceived DEF OnuRegister
    <3>2. onuQueues' \in [ONU -> Seq(OnuQueue)]
      <4>1. CreateOnuQueues(onuQueues[o], Head(down[o]).llids) \in Seq(OnuQueue)
        BY <3>1, CreateOnuQueuesFacts DEF TypeOK
      <4> QED BY <2>3, <4>1 DEF OnuRegister, TypeOK
    <3>3. up' \in Seq(UpFrame)
      BY <2>3, FramesSent, AppendProperties DEF OnuRegister, TypeOK
    <3> QED BY <2>3, <3>1, <3>2, <3>3 DEF OnuRegister, TypeOK, oltVars
  <2>4. CASE OnuRegTimeOut(o)
    BY <2>4 DEF OnuRegTimeOut, TypeOK, oltVars
  <2> QED BY <2>1, <2>2, <2>3, <2>4 DEF OnuNext
<1>6. CASE UNCHANGED vars
  BY <1>6 DEF vars, TypeOK
<1> QED BY <1>1, <1>2, <1>3, <1>4, <1>5, <1>6 DEF Next, OltNext

-----------------------------------------------------------------------------
(* The vectors of pending requests *)

\* Removing the same index from two aligned vectors leaves them aligned.
LEMMA RemoveAligned ==
  ASSUME NEW tbl \in Seq(Request), NEW ack \in Seq(ONU), NEW k \in 1 .. Len(tbl),
         Len(ack) = Len(tbl), \A i \in 1 .. Len(tbl) : ack[i] = tbl[i].id
  PROVE  /\ Len(RemoveAt(ack, k)) = Len(RemoveAt(tbl, k))
         /\ \A i \in 1 .. Len(RemoveAt(tbl, k)) : RemoveAt(ack, k)[i] = RemoveAt(tbl, k)[i].id
<1>1. Len(tbl) \in Nat /\ k \in 1 .. Len(ack)
  BY LenProperties
<1>2. /\ Len(RemoveAt(ack, k)) = Len(tbl) - 1
      /\ \A i \in 1 .. Len(tbl) - 1 : RemoveAt(ack, k)[i] = IF i < k THEN ack[i] ELSE ack[i+1]
  BY <1>1, RemoveAtFacts
<1>3. /\ Len(RemoveAt(tbl, k)) = Len(tbl) - 1
      /\ \A i \in 1 .. Len(tbl) - 1 : RemoveAt(tbl, k)[i] = IF i < k THEN tbl[i] ELSE tbl[i+1]
  BY RemoveAtFacts
<1>4. \A i \in 1 .. Len(tbl) - 1 : i \in 1 .. Len(tbl) /\ i + 1 \in 1 .. Len(tbl)
  BY <1>1
<1> QED BY <1>2, <1>3, <1>4

\* Every handler keeps temptbl, pendingAck and the timers aligned.
LEMMA PendingStep ==
  ASSUME TypeOK, PendingAligned, [Next]_vars
  PROVE  PendingAligned'
<1>0. /\ temptbl \in Seq(Request) /\ pendingAck \in Seq(ONU)
      /\ Len(temptbl) \in Nat
      /\ Len(pendingAck) = Len(temptbl)
      /\ \A i \in 1 .. Len(temptbl) : pendingAck[i] = temptbl[i].id
      /\ oltTimers = pendingAck
  BY LenProperties DEF TypeOK, PendingAligned
<1>1. CASE OltRegReq
  <2> DEFINE o == Head(up).src
  <2>1. o \in ONU /\ Head(up).num \in Nat \ {0}
    BY <1>1, TailFacts, FramesReceived DEF OltRegReq, UpArrives, TypeOK
  <2>2. PICK ids \in LLIDChoices(Head(up).num) :
          /\ temptbl' = Append(temptbl, [id |-> o, llids |-> ids])
          /\ pendingAck' = Append(pendingAck, o)
          /\ oltTimers' = Append(oltTimers, o)
    BY <1>1 DEF OltRegReq
  <2> HIDE DEF o
  <2> DEFINE e == [id |-> o, llids |-> ids]
  <2>3. e \in Request /\ e.id = o
    BY <2>1, LLIDChoicesTyped DEF Request
  <2> HIDE DEF e
  <2>4. temptbl' = Append(temptbl, e)
    BY <2>2 DEF e
  <2>5. /\ Len(temptbl') = Len(temptbl) + 1 /\ temptbl'[Len(temptbl) + 1] = e
        /\ \A i \in 1 .. Len(temptbl) : temptbl'[i] = temptbl[i]
    BY <1>0, <2>3, <2>4, AppendProperties
  <2>6. /\ Len(pendingAck') = Len(temptbl) + 1 /\ pendingAck'[Len(temptbl) + 1] = o
        /\ \A i \in 1 .. Len(temptbl) : pendingAck'[i] = pendingAck[i]
    BY <1>0, <2>1, <2>2, AppendProperties
  <2>7. oltTimers' = pendingAck'
    BY <1>0, <2>2
  <2>8. \A i \in 1 .. Len(temptbl) + 1 : i \in 1 .. Len(temptbl) \/ i = Len(temptbl) + 1
    BY <1>0
  <2> QED BY <1>0, <2>3, <2>5, <2>6, <2>7, <2>8 DEF PendingAligned
<1>2. CASE OltRegAck
  <2>1. PICK i \in 1 .. Len(temptbl) :
           /\ i = FirstOf(Positions(temptbl, Head(up).src))
           /\ temptbl[i].id = Head(up).src
           /\ oltTimers' = Cancel(oltTimers, pendingAck[i])
           /\ pendingAck' = RemoveAt(pendingAck, i)
           /\ temptbl' = RemoveAt(temptbl, i)
    BY <1>2, OltRegAckFacts
  <2>2. {k \in 1 .. Len(oltTimers) : oltTimers[k] = pendingAck[i]} = Positions(temptbl, Head(up).src)
    BY <1>0, <2>1 DEF Positions
  <2>3. i \in Positions(temptbl, Head(up).src)
    BY <2>1 DEF Positions
  <2>4. oltTimers' = pendingAck'
    BY <1>0, <2>1, <2>2, <2>3 DEF Cancel
  <2> QED BY <1>0, <2>1, <2>4, RemoveAligned DEF PendingAligned
<1>3. CASE OltRegTimeOut
  <2>1. /\ temptbl # <<>> /\ pendingAck # <<>>
        /\ oltTimers' = Tail(oltTimers)
        /\ pendingAck' = Tail(pendingAck) /\ temptbl' = Tail(temptbl)
    BY <1>3, OltRegTimeOutFacts
  <2>2. Tail(temptbl) = RemoveAt(temptbl, 1) /\ Tail(pendingAck) = RemoveAt(pendingAck, 1)
    BY <1>0, <2>1, TailIsRemoveAt
  <2>3. 1 \in 1 .. Len(temptbl)
    BY <1>0, <2>1, TailFacts
  <2> QED BY <1>0, <2>1, <2>2, <2>3, RemoveAligned DEF PendingAligned
<1>4. CASE UNCHANGED <<temptbl, pendingAck, oltTimers>>
  BY <1>4 DEF PendingAligned
<1>5. OltLateRegAck \/ (\E o \in ONU : OnuNext(o)) \/ UNCHANGED vars
        => UNCHANGED <<temptbl, pendingAck, oltTimers>>
  BY DEF OltLateRegAck, OnuNext, OnuRegGate, OnuSendRegReq, OnuRegister, OnuGate,
         OnuRegTimeOut, oltVars, vars
<1> QED BY <1>1, <1>2, <1>3, <1>4, <1>5 DEF Next, OltNext

-----------------------------------------------------------------------------
(* The slots *)

\* The queues of the OLT and the ONU table change together.
LEMMA TableKept == [Next]_vars => OltRegAck \/ UNCHANGED <<oltQueues, onutbl>>
BY DEF Next, OltNext, OltRegReq, OltLateRegAck, OltRegTimeOut, OnuNext, OnuRegGate,
       OnuSendRegReq, OnuRegister, OnuGate, OnuRegTimeOut, oltVars, vars

\* Every handler keeps the broadcast queue, without which the first division
\* would divide by zero, and leaves the slots contiguous.
LEMMA SlotsStep ==
  ASSUME TypeOK, Len(oltQueues) >= 1, SlotsContiguous, [Next]_vars
  PROVE  Len(oltQueues') >= 1 /\ SlotsContiguous'
<1>1. CASE OltRegAck
  <2>1. PICK e \in Committed, tbl \in Seq(Committed) :
           /\ oltQueues' \in Seq(OltQueue)
           /\ Len(oltQueues') = Len(oltQueues) + Len(e.llids)
           /\ onutbl' = DoUpstreamDBA(tbl, Len(oltQueues') - 1)
           /\ Len(oltQueues') - 1 \in Nat
    BY <1>1, OltRegAckFacts
  <2>2. Len(e.llids) \in Nat \ {0} /\ Len(oltQueues) \in Nat
    <3>1. e.llids \in Seq(LLID) /\ e.llids # <<>>
      BY DEF Committed, LLIDs
    <3> QED BY <3>1, EmptySeq, LenProperties DEF TypeOK
  <2>3. Len(oltQueues') - 1 # 0 /\ Len(oltQueues') >= 1
    BY <2>1, <2>2
  <2>4. \A i \in 1 .. Len(onutbl') :
          onutbl'[i].start = IF i = 1 THEN RegTimeInt
                             ELSE onutbl'[i-1].start + onutbl'[i-1].length
    BY <2>1, <2>3, DoUpstreamDBAFacts
  <2> QED BY <2>3, <2>4 DEF SlotsContiguous, SlotEnd
<1>2. CASE UNCHANGED <<oltQueues, onutbl>>
  BY <1>2 DEF SlotsContiguous, SlotEnd
<1> QED BY <1>1, <1>2, TableKept

-----------------------------------------------------------------------------
(* Each ONU asks once *)

RegGates == {m \in DownFrame : m.op = "REGGATE"}
RequestsOf(o) == {m \in UpFrame : m.op = "REGREQ" /\ m.src = o}
PendingOf(o) == {e \in Request : e.id = o}
CommittedOf(o) == {e \in Committed : e.id = o}

(***************************************************************************)
(* An ONU's turn to register is one token: it is the registration GATE on  *)
(* its way, then the back-off of the ONU, then the REGREQ on its way, then *)
(* the pending request, then the entry of the table.  It is in one place   *)
(* at most, and nowhere once the OLT has dropped the request.              *)
(***************************************************************************)
OneToken(o) ==
  /\ Unique(down[o], RegGates)
  /\ Unique(up, RequestsOf(o))
  /\ Unique(temptbl, PendingOf(o))
  /\ Unique(onutbl, CommittedOf(o))
  /\ \/ Absent(down[o], RegGates)
     \/ /\ o \notin regSend
        /\ Absent(up, RequestsOf(o))
        /\ Absent(temptbl, PendingOf(o))
        /\ Absent(onutbl, CommittedOf(o))
  /\ o \in regSend => /\ Absent(up, RequestsOf(o))
                      /\ Absent(temptbl, PendingOf(o))
                      /\ Absent(onutbl, CommittedOf(o))
  /\ Absent(up, RequestsOf(o)) \/ /\ Absent(temptbl, PendingOf(o))
                                  /\ Absent(onutbl, CommittedOf(o))
  /\ Absent(temptbl, PendingOf(o)) \/ Absent(onutbl, CommittedOf(o))

\* Only the identities matter to where the token is.
LEMMA SameIds ==
  ASSUME NEW s \in Seq(Committed), NEW t \in Seq(Committed), NEW o,
         Len(s) = Len(t), \A i \in 1 .. Len(s) : s[i].id = t[i].id
  PROVE  /\ Absent(s, CommittedOf(o)) => Absent(t, CommittedOf(o))
         /\ Unique(s, CommittedOf(o)) => Unique(t, CommittedOf(o))
<1>1. \A i \in 1 .. Len(s) : s[i] \in CommittedOf(o) <=> t[i] \in CommittedOf(o)
  BY ElementOfSeq DEF CommittedOf
<1> HIDE DEF CommittedOf
<1> QED BY <1>1 DEF Absent, Unique

\* An ONU has no position in a table that it is absent from.
LEMMA AbsentPosition ==
  ASSUME NEW s \in Seq(Committed), NEW o
  PROVE  Absent(s, CommittedOf(o)) <=> Positions(s, o) = {}
BY ElementOfSeq DEF Absent, CommittedOf, Positions

\* A frame of another kind moves no registration GATE.
LEMMA GatesKept ==
  ASSUME NEW s \in Seq(DownFrame), NEW m \in DownFrame, m.op # "REGGATE"
  PROVE  /\ Unique(s, RegGates) => Unique(Append(s, m), RegGates)
         /\ Absent(s, RegGates) => Absent(Append(s, m), RegGates)
BY AppendOccurs DEF RegGates

\* A handler of the OLT passes on the token of an ONU, and copies none.
LEMMA TokenStepOlt ==
  ASSUME TypeOK, PendingAligned, \A o \in ONU : OneToken(o), OltNext,
         NEW p \in ONU
  PROVE  OneToken(p)'
<1>0. /\ temptbl \in Seq(Request) /\ onutbl \in Seq(Committed) /\ up \in Seq(UpFrame)
      /\ down[p] \in Seq(DownFrame)
  BY DEF TypeOK
<1>1. CASE OltRegReq
  <2> DEFINE o == Head(up).src
  <2>1. /\ up # <<>> /\ Head(up).op = "REGREQ" /\ Head(up) \in UpFrame /\ o \in ONU
        /\ Head(up).num \in Nat \ {0}
    BY <1>1, TailFacts, FramesReceived DEF OltRegReq, UpArrives, TypeOK
  <2>2. PICK ids \in LLIDChoices(Head(up).num) :
          /\ temptbl' = Append(temptbl, [id |-> o, llids |-> ids])
          /\ down' = [down EXCEPT ![o] = Append(@, Register(ids))]
    BY <1>1 DEF OltRegReq
  <2>3. ids \in LLIDs
    BY <2>1, LLIDChoicesTyped
  <2> DEFINE e == [id |-> o, llids |-> ids]
  <2>4. e \in Request /\ e.id = o
    BY <2>1, <2>3 DEF Request
  <2>5. /\ Unique(down[p], RegGates) => Unique(down'[p], RegGates)
        /\ Absent(down[p], RegGates) => Absent(down'[p], RegGates)
    <3>1. Register(ids) \in DownFrame /\ Register(ids).op # "REGGATE"
      BY <2>3, FramesSent DEF Register
    <3>2. down'[p] = IF p = o THEN Append(down[p], Register(ids)) ELSE down[p]
      BY <2>1, <2>2 DEF TypeOK
    <3> QED BY <1>0, <3>1, <3>2, GatesKept
  <2>6. Head(up) \in RequestsOf(p) <=> p = o
    BY <2>1 DEF RequestsOf
  <2>7. up' = Tail(up) /\ UNCHANGED <<onutbl, regSend>>
    BY <1>1 DEF OltRegReq, onuVars
  <2>8. /\ Unique(up, RequestsOf(p)) => Unique(up', RequestsOf(p))
        /\ Absent(up, RequestsOf(p)) => Absent(up', RequestsOf(p))
        /\ Unique(up, RequestsOf(p)) /\ p = o => Absent(up', RequestsOf(p))
        /\ p = o => ~ Absent(up, RequestsOf(p))
    BY <1>0, <2>1, <2>6, <2>7, TailOccurs
  <2>9. e \in PendingOf(p) <=> p = o
    BY <2>4 DEF PendingOf
  <2> HIDE DEF o, e
  <2>10. temptbl' = Append(temptbl, e)
    BY <2>2 DEF e
  <2>11. /\ p # o /\ Unique(temptbl, PendingOf(p)) => Unique(temptbl', PendingOf(p))
         /\ p # o /\ Absent(temptbl, PendingOf(p)) => Absent(temptbl', PendingOf(p))
         /\ Absent(temptbl, PendingOf(p)) => Unique(temptbl', PendingOf(p))
    BY <1>0, <2>4, <2>9, <2>10, AppendOccurs
  <2> QED BY <2>5, <2>7, <2>8, <2>11 DEF OneToken
<1>2. CASE OltRegAck
  <2>1. PICK i \in 1 .. Len(temptbl), e \in Committed, tbl \in Seq(Committed) :
           /\ Head(up) \in UpFrame /\ Head(up).op = "REGACK" /\ up # <<>>
           /\ temptbl[i].id = Head(up).src
           /\ e.id = temptbl[i].id
           /\ temptbl' = RemoveAt(temptbl, i)
           /\ tbl = AddONU(onutbl, e)
           /\ onutbl' = DoUpstreamDBA(tbl, Len(oltQueues') - 1)
           /\ Len(oltQueues') - 1 \in Nat
           /\ down' = SendGateUpdates(down, onutbl')
           /\ up' = Tail(up)
           /\ UNCHANGED onuVars
    BY <1>2, OltRegAckFacts
  <2> DEFINE o == Head(up).src
  <2>2. o \in ONU /\ Head(up) \notin RequestsOf(p)
    BY <2>1, FramesReceived DEF RequestsOf
  <2>3. temptbl[i] \in Request /\ (\A q : temptbl[i] \in PendingOf(q) <=> q = o)
    BY <1>0, <2>1, ElementOfSeq DEF PendingOf
  <2>4. ~ Absent(temptbl, PendingOf(o))
    BY <2>3 DEF Absent
  <2>5. Positions(onutbl, e.id) = {}
    <3>1. OneToken(o)
      BY <2>2
    <3>2. Absent(onutbl, CommittedOf(o))
      BY <2>4, <3>1 DEF OneToken
    <3> QED BY <1>0, <2>1, <3>2, AbsentPosition
  <2>6. tbl = Append(onutbl, e)
    BY <1>0, <2>1, <2>5, AddONUFacts
  <2>7. /\ onutbl' \in Seq(Committed) /\ Len(onutbl') = Len(tbl)
        /\ \A j \in 1 .. Len(tbl) : tbl[j].id = onutbl'[j].id
    BY <2>1, DoUpstreamDBAFacts
  <2>8. e \in CommittedOf(p) <=> p = o
    BY <2>1 DEF CommittedOf
  <2>9. /\ p # o /\ Unique(onutbl, CommittedOf(p)) => Unique(onutbl', CommittedOf(p))
        /\ p # o /\ Absent(onutbl, CommittedOf(p)) => Absent(onutbl', CommittedOf(p))
        /\ Absent(onutbl, CommittedOf(p)) => Unique(onutbl', CommittedOf(p))
    <3>1. /\ p # o /\ Unique(onutbl, CommittedOf(p)) => Unique(tbl, CommittedOf(p))
          /\ p # o /\ Absent(onutbl, CommittedOf(p)) => Absent(tbl, CommittedOf(p))
          /\ Absent(onutbl, CommittedOf(p)) => Unique(tbl, CommittedOf(p))
      BY <1>0, <2>6, <2>8, AppendOccurs
    <3> QED BY <2>7, <3>1, SameIds
  <2>10. /\ Unique(temptbl, PendingOf(p)) => Unique(temptbl', PendingOf(p))
         /\ Absent(temptbl, PendingOf(p)) => Absent(temptbl', PendingOf(p))
         /\ Unique(temptbl, PendingOf(p)) /\ p = o => Absent(temptbl', PendingOf(p))
    BY <1>0, <2>1, <2>3, RemoveAtOccurs
  <2>11. /\ Unique(up, RequestsOf(p)) => Unique(up', RequestsOf(p))
         /\ Absent(up, RequestsOf(p)) => Absent(up', RequestsOf(p))
    BY <1>0, <2>1, TailOccurs
  <2>12. /\ Unique(down[p], RegGates) => Unique(down'[p], RegGates)
         /\ Absent(down[p], RegGates) => Absent(down'[p], RegGates)
    <3>1. \/ down'[p] = down[p]
          \/ \E m \in DownFrame : m.op = "GATE" /\ down'[p] = Append(down[p], m)
      <4>1. down \in [ONU -> Seq(DownFrame)]
        BY DEF TypeOK
      <4> QED BY <2>1, <2>7, <4>1, SendGateUpdatesFacts
    <3>2. ASSUME NEW m \in DownFrame, m.op = "GATE", down'[p] = Append(down[p], m)
          PROVE  /\ Unique(down[p], RegGates) => Unique(down'[p], RegGates)
                 /\ Absent(down[p], RegGates) => Absent(down'[p], RegGates)
      <4>1. m.op # "REGGATE"
        BY <3>2
      <4> QED BY <1>0, <3>2, <4>1, GatesKept
    <3> QED BY <3>1, <3>2
  <2>13. UNCHANGED regSend
    BY <2>1 DEF onuVars
  <2> HIDE DEF o
  <2> QED BY <2>4, <2>9, <2>10, <2>11, <2>12, <2>13 DEF OneToken
<1>3. CASE OltLateRegAck
  <2>1. up # <<>> /\ up' = Tail(up) /\ UNCHANGED <<temptbl, onutbl, regSend, down>>
    BY <1>3 DEF OltLateRegAck, UpArrives, oltVars, onuVars
  <2>2. /\ Unique(up, RequestsOf(p)) => Unique(up', RequestsOf(p))
        /\ Absent(up, RequestsOf(p)) => Absent(up', RequestsOf(p))
    BY <1>0, <2>1, TailOccurs
  <2> QED BY <2>1, <2>2 DEF OneToken
<1>4. CASE OltRegTimeOut
  <2>1. temptbl # <<>> /\ temptbl' = Tail(temptbl) /\ UNCHANGED <<up, onutbl, regSend, down>>
    BY <1>4, OltRegTimeOutFacts DEF onuVars
  <2>2. /\ Unique(temptbl, PendingOf(p)) => Unique(temptbl', PendingOf(p))
        /\ Absent(temptbl, PendingOf(p)) => Absent(temptbl', PendingOf(p))
    BY <1>0, <2>1, TailOccurs
  <2> QED BY <2>1, <2>2 DEF OneToken
<1> QED BY <1>1, <1>2, <1>3, <1>4 DEF OltNext

\* A handler of an ONU passes on the token of an ONU, and copies none.
LEMMA TokenStepOnu ==
  ASSUME TypeOK, NEW o \in ONU, OnuNext(o),
         NEW p \in ONU, OneToken(p)
  PROVE  OneToken(p)'
<1>0. down \in [ONU -> Seq(DownFrame)] /\ up \in Seq(UpFrame)
  BY DEF TypeOK
<1>1. ASSUME down[o] # <<>>, Received(o)
      PROVE  /\ Unique(down[p], RegGates) => Unique(down'[p], RegGates)
             /\ Absent(down[p], RegGates) => Absent(down'[p], RegGates)
             /\ Unique(down[o], RegGates) /\ Head(down[o]).op = "REGGATE"
                  => Absent(down'[o], RegGates) /\ ~ Absent(down[o], RegGates)
  <2>1. down[o] \in Seq(DownFrame) /\ Head(down[o]) \in DownFrame
    BY <1>0, <1>1, TailFacts
  <2>2. Head(down[o]).op = "REGGATE" => Head(down[o]) \in RegGates
    BY <2>1 DEF RegGates
  <2>3. down'[o] = Tail(down[o]) /\ (p # o => down'[p] = down[p])
    BY <1>0, <1>1 DEF Received
  <2> QED BY <1>1, <2>1, <2>2, <2>3, TailOccurs
<1>2. CASE OnuRegGate(o)
  <2>1. /\ down[o] # <<>> /\ Received(o) /\ Head(down[o]).op = "REGGATE"
        /\ regSend' = regSend \union {o}
        /\ UNCHANGED <<up, temptbl, onutbl>>
    BY <1>2 DEF OnuRegGate, DownArrives, oltVars
  <2> QED BY <1>1, <2>1 DEF OneToken
<1>3. CASE OnuSendRegReq(o)
  <2>1. /\ o \in regSend /\ regSend' = regSend \ {o}
        /\ up' = Append(up, RegReq(o))
        /\ UNCHANGED <<down, temptbl, onutbl>>
    BY <1>3 DEF OnuSendRegReq, oltVars
  <2>2. RegReq(o) \in UpFrame /\ (RegReq(o) \in RequestsOf(p) <=> p = o)
    BY FramesSent DEF RequestsOf, RegReq
  <2>3. /\ p # o /\ Unique(up, RequestsOf(p)) => Unique(up', RequestsOf(p))
        /\ p # o /\ Absent(up, RequestsOf(p)) => Absent(up', RequestsOf(p))
        /\ Absent(up, RequestsOf(p)) => Unique(up', RequestsOf(p))
    BY <1>0, <2>1, <2>2, AppendOccurs
  <2> QED BY <2>1, <2>3 DEF OneToken
<1>4. CASE OnuRegister(o)
  <2>1. /\ down[o] # <<>> /\ Received(o)
        /\ up' = Append(up, RegAck(o))
        /\ UNCHANGED <<temptbl, onutbl, regSend>>
    BY <1>4 DEF OnuRegister, DownArrives, oltVars
  <2>2. RegAck(o) \in UpFrame /\ RegAck(o) \notin RequestsOf(p)
    BY FramesSent DEF RequestsOf, RegAck
  <2>3. /\ Unique(up, RequestsOf(p)) => Unique(up', RequestsOf(p))
        /\ Absent(up, RequestsOf(p)) => Absent(up', RequestsOf(p))
    BY <1>0, <2>1, <2>2, AppendOccurs
  <2> QED BY <1>1, <2>1, <2>3 DEF OneToken
<1>5. CASE OnuGate(o)
  <2>1. down[o] # <<>> /\ Received(o) /\ UNCHANGED <<temptbl, onutbl, regSend, up>>
    BY <1>5 DEF OnuGate, DownArrives, oltVars
  <2> QED BY <1>1, <2>1 DEF OneToken
<1>6. CASE OnuRegTimeOut(o)
  BY <1>6 DEF OnuRegTimeOut, OneToken, oltVars
<1> QED BY <1>2, <1>3, <1>4, <1>5, <1>6 DEF OnuNext

\* Every step keeps one token per ONU.
LEMMA TokenStep ==
  ASSUME TypeOK, PendingAligned, \A o \in ONU : OneToken(o), [Next]_vars
  PROVE  \A o \in ONU : OneToken(o)'
<1>1. CASE OltNext
  BY <1>1, TokenStepOlt
<1>2. CASE \E o \in ONU : OnuNext(o)
  BY <1>2, TokenStepOnu
<1>3. CASE UNCHANGED vars
  BY <1>3 DEF vars, OneToken
<1> QED BY <1>1, <1>2, <1>3 DEF Next

\* One token per ONU leaves room for one entry per ONU.
LEMMA TokenMeansOneEntry ==
  ASSUME TypeOK, \A o \in ONU : OneToken(o)
  PROVE  OneEntryPerOnu
<1> SUFFICES ASSUME NEW o \in ONU
             PROVE  Cardinality(Positions(temptbl, o)) + Cardinality(Positions(onutbl, o)) <= 1
  BY DEF OneEntryPerOnu
<1> DEFINE P == Positions(temptbl, o)
           C == Positions(onutbl, o)
<1>1. /\ \A i, j \in P : i = j
      /\ \A i, j \in C : i = j
      /\ P = {} \/ C = {}
  <2>1. /\ Unique(temptbl, PendingOf(o)) /\ Unique(onutbl, CommittedOf(o))
        /\ Absent(temptbl, PendingOf(o)) \/ Absent(onutbl, CommittedOf(o))
    BY DEF OneToken
  <2>2. \A i \in P : i \in 1 .. Len(temptbl) /\ temptbl[i] \in PendingOf(o)
    BY ElementOfSeq DEF Positions, PendingOf, TypeOK
  <2>3. \A i \in C : i \in 1 .. Len(onutbl) /\ onutbl[i] \in CommittedOf(o)
    BY ElementOfSeq DEF Positions, CommittedOf, TypeOK
  <2> HIDE DEF P, C
  <2> QED BY <2>1, <2>2, <2>3 DEF Unique, Absent
<1> HIDE DEF P, C
<1>2. \A S : (\A i, j \in S : i = j) => S = {} \/ \E x : S = {x}
  <2> SUFFICES ASSUME NEW S, \A i, j \in S : i = j, S # {} PROVE \E x : S = {x}
    OBVIOUS
  <2>1. PICK x \in S : TRUE
    OBVIOUS
  <2>2. S = {x}
    BY <2>1
  <2> QED BY <2>2
<1>3. Cardinality({}) = 0 /\ \A x : Cardinality({x}) = 1
  BY FS_EmptySet, FS_Singleton
<1>4. \A S : (\A i, j \in S : i = j) => Cardinality(S) \in {0, 1}
  BY <1>2, <1>3
<1> QED BY <1>1, <1>3, <1>4 DEF P, C

-----------------------------------------------------------------------------
(* The inductive invariant and what follows from it *)

\* The division is by the number of queues without the broadcast one, so the
\* slots are contiguous only because that queue is always there.
IInv ==
  /\ TypeOK
  /\ PendingAligned
  /\ Len(oltQueues) >= 1
  /\ SlotsContiguous
  /\ \A o \in ONU : OneToken(o)

\* The initialised system satisfies the inductive invariant.
LEMMA InitIInv == Init => IInv
<1> SUFFICES ASSUME Init PROVE IInv
  OBVIOUS
<1>1. [mac |-> OLT, llid |-> BC, prior |-> BCPrior] \in OltQueue
  BY DEF OltQueue, Priority, BCPrior
<1>2. [llid |-> BC, prior |-> BCPrior] \in OnuQueue
  BY DEF OnuQueue, Priority, BCPrior
<1>3. RegGate \in DownFrame
  BY FramesSent
<1>4. TypeOK
  BY <1>1, <1>2, <1>3 DEF Init, TypeOK
<1>5. PendingAligned /\ Len(oltQueues) >= 1 /\ SlotsContiguous
  BY DEF Init, PendingAligned, SlotsContiguous
<1>6. \A o \in ONU : OneToken(o)
  BY DEF Init, OneToken, Unique, Absent
<1> QED BY <1>4, <1>5, <1>6 DEF IInv

\* Every step preserves the inductive invariant.
LEMMA StepIInv == IInv /\ [Next]_vars => IInv'
<1> SUFFICES ASSUME IInv, [Next]_vars PROVE IInv'
  OBVIOUS
<1>1. TypeOK' /\ PendingAligned'
  BY TypeStep, PendingStep DEF IInv
<1>2. Len(oltQueues') >= 1 /\ SlotsContiguous'
  BY SlotsStep DEF IInv
<1>3. \A o \in ONU : OneToken(o)'
  BY TokenStep DEF IInv
<1> QED BY <1>1, <1>2, <1>3 DEF IInv

\* The inductive invariant holds in every reachable state.
LEMMA IInvAlways == Spec => []IInv
BY InitIInv, StepIInv, PTL DEF Spec

(***************************************************************************)
(* Every handler of the registration leaves the tables, queues, timers,    *)
(* grants and frames well formed: no handler indexes past the end of one   *)
(* of the two vectors of pending requests.                                 *)
(***************************************************************************)
THEOREM TypeCorrect == Spec => []TypeOK
<1>1. IInv => TypeOK
  BY DEF IInv
<1> QED BY <1>1, IInvAlways, PTL

(***************************************************************************)
(* temptbl and pendingAck stay aligned, index by index, and the timers     *)
(* that run are those of the pending requests, whatever the order in which *)
(* requests, acknowledgments and timeouts arrive.                          *)
(***************************************************************************)
THEOREM PendingAlwaysAligned == Spec => []PendingAligned
<1>1. IInv => PendingAligned
  BY DEF IInv
<1> QED BY <1>1, IInvAlways, PTL

(***************************************************************************)
(* The slots announced to the ONUs follow each other without a gap or an   *)
(* overlap after every registration, with or without a rate limit.         *)
(***************************************************************************)
THEOREM SlotsAlwaysContiguous == Spec => []SlotsContiguous
<1>1. IInv => SlotsContiguous
  BY DEF IInv
<1> QED BY <1>1, IInvAlways, PTL

(***************************************************************************)
(* No ONU is twice in the tables: the first match that doOnuRegistration   *)
(* and ONUTable::getEntry take is the only one, and addONU never replaces  *)
(* an entry.                                                               *)
(***************************************************************************)
THEOREM AlwaysOneEntryPerOnu == Spec => []OneEntryPerOnu
<1>1. IInv => OneEntryPerOnu
  BY TokenMeansOneEntry DEF IInv
<1> QED BY <1>1, IInvAlways, PTL

-----------------------------------------------------------------------------
(* The stages of an ONU's registration *)

FramesOf(o) == {m \in UpFrame : m.src = o}
OtherThanGates == {m \in DownFrame : m.op # "GATE"}
Leases(o) == LLIDChoices(NumLLIDs[o])

\* The ONU has its broadcast queue alone, or also one for each of the LLIDs.
Bare(o) == onuQueues[o] = <<[llid |-> BC, prior |-> BCPrior]>>
Holds(o, ids) == LLIDsOf(o) = ToSet(ids) /\ Len(onuQueues[o]) = NumLLIDs[o] + 1

\* The newest grant the ONU has or is sent is the one of an entry.
NewestIs(o, e) ==
  IF down[o] = <<>>
  THEN grant[o].start = e.start /\ grant[o].length = e.length
  ELSE Last(down[o]).start = e.start /\ Last(down[o]).length = e.length

\* The registration GATE is on its way, the ONU backs off, or the REGREQ is on
\* its way.
Asks(o) ==
  /\ Bare(o)
  /\ Absent(temptbl, PendingOf(o)) /\ Absent(onutbl, CommittedOf(o))
  /\ \/ down[o] = <<RegGate>> /\ o \notin regSend /\ Absent(up, FramesOf(o))
     \/ down[o] = <<>> /\ o \in regSend /\ Absent(up, FramesOf(o))
     \/ down[o] = <<>> /\ o \notin regSend /\ Once(up, FramesOf(o), RegReq(o))

\* The REGISTER with the LLIDs is on its way, or the ONU has created their
\* queues and the REGACK is on its way.  The OLT may have dropped the request.
Answered(o, ids) ==
  /\ o \notin regSend
  /\ Absent(onutbl, CommittedOf(o))
  /\ \/ Absent(temptbl, PendingOf(o))
     \/ Once(temptbl, PendingOf(o), [id |-> o, llids |-> ids])
  /\ \/ down[o] = <<Register(ids)>> /\ Absent(up, FramesOf(o)) /\ Bare(o)
     \/ down[o] = <<>> /\ Once(up, FramesOf(o), RegAck(o)) /\ Holds(o, ids)

\* The REGACK came after the OLT had dropped the request.
TurnedAway(o) ==
  /\ o \notin regSend /\ down[o] = <<>> /\ Absent(up, FramesOf(o))
  /\ Absent(temptbl, PendingOf(o)) /\ Absent(onutbl, CommittedOf(o))

\* The ONU is in the table with the LLIDs; it is sent nothing but GATEs, and
\* sends nothing.
Entered(o, ids) ==
  /\ o \notin regSend /\ Absent(down[o], OtherThanGates) /\ Absent(up, FramesOf(o))
  /\ Absent(temptbl, PendingOf(o))
  /\ Holds(o, ids)
  /\ \E i \in 1 .. Len(onutbl) :
       /\ Once(onutbl, CommittedOf(o), onutbl[i])
       /\ onutbl[i].llids = ids
       /\ NewestIs(o, onutbl[i])

Staged(o) ==
  \/ Asks(o)
  \/ \E ids \in Leases(o) : Answered(o, ids)
  \/ TurnedAway(o)
  \/ \E ids \in Leases(o) : Entered(o, ids)

(***************************************************************************)
(* What a step does to the registration of an ONU: it leaves it as far as  *)
(* it is, or it answers the request, admits the ONU or drops the request.  *)
(***************************************************************************)
IsPending(o) == ~ Absent(temptbl, PendingOf(o))

Stays(o) ==
  \/ Asks(o) /\ Asks(o)'
  \/ TurnedAway(o) /\ TurnedAway(o)'
  \/ \E ids \in Leases(o) :
       \/ Answered(o, ids) /\ Answered(o, ids)' /\ (IsPending(o)' <=> IsPending(o))
       \/ Answered(o, ids) /\ ~ IsPending(o) /\ TurnedAway(o)'
       \/ Entered(o, ids) /\ Entered(o, ids)'

IsOffered(o) == Asks(o) /\ \E ids \in Leases(o) : Answered(o, ids)' /\ IsPending(o)'

IsAdmitted(o) ==
  \E ids \in Leases(o) : Answered(o, ids) /\ IsPending(o) /\ Entered(o, ids)'

IsDropped(o) ==
  \E ids \in Leases(o) :
    Answered(o, ids) /\ IsPending(o) /\ Answered(o, ids)' /\ ~ IsPending(o)'

-----------------------------------------------------------------------------
(* What a step leaves alone *)

\* A step that does not touch what belongs to an ONU leaves its stage.
LEMMA StageKept ==
  ASSUME NEW p \in ONU, Staged(p),
         down'[p] = down[p], onuQueues'[p] = onuQueues[p], grant'[p] = grant[p],
         p \in regSend' <=> p \in regSend,
         Kept(up, up', FramesOf(p)), Kept(temptbl, temptbl', PendingOf(p)),
         UNCHANGED onutbl
  PROVE  Stays(p)
<1>1. Asks(p) => Asks(p)'
  BY DEF Asks, Kept, Bare
<1>2. ASSUME NEW ids, Answered(p, ids)
      PROVE  Answered(p, ids)' /\ (IsPending(p)' <=> IsPending(p))
  <2>1. Answered(p, ids)'
    BY <1>2 DEF Answered, Kept, Bare, Holds, LLIDsOf
  <2>2. IsPending(p) => Once(temptbl', PendingOf(p), [id |-> p, llids |-> ids])
    BY <1>2 DEF Answered, Kept, IsPending
  <2>3. IsPending(p) => IsPending(p)'
    BY <2>2, OnceFacts DEF IsPending
  <2>4. ~ IsPending(p) => ~ IsPending(p)'
    BY DEF Kept, IsPending
  <2> QED BY <2>1, <2>3, <2>4
<1>3. TurnedAway(p) => TurnedAway(p)'
  BY DEF TurnedAway, Kept
<1>4. \A ids : Entered(p, ids) => Entered(p, ids)'
  BY DEF Entered, Kept, Holds, LLIDsOf, NewestIs
<1> QED BY <1>1, <1>2, <1>3, <1>4 DEF Staged, Stays

\* What is not touched at all is kept.
LEMMA KeptSame == \A s, M : Kept(s, s, M)
BY DEF Kept

\* The kinds of frames and entries tell the ONUs apart.
LEMMA KindsOfOnu ==
  /\ \A o : \A m \in UpFrame : m \in FramesOf(o) <=> m.src = o
  /\ \A o : \A e \in Request : e \in PendingOf(o) <=> e.id = o
  /\ \A o : \A e \in Committed : e \in CommittedOf(o) <=> e.id = o
BY DEF FramesOf, PendingOf, CommittedOf

\* A frame of an ONU that arrives is the only one it has on its way.
LEMMA ArrivesFrom ==
  ASSUME TypeOK, up # <<>>
  PROVE  /\ Head(up) \in UpFrame /\ Head(up).src \in ONU
         /\ \A p \in ONU : p # Head(up).src => Kept(up, Tail(up), FramesOf(p))
         /\ ~ Absent(up, FramesOf(Head(up).src))
         /\ \A m : Once(up, FramesOf(Head(up).src), m) =>
              Head(up) = m /\ Absent(Tail(up), FramesOf(Head(up).src))
<1>1. up \in Seq(UpFrame) /\ Head(up) \in UpFrame /\ Head(up).src \in ONU
  BY TailFacts, FramesReceived DEF TypeOK
<1>2. \A p : Head(up) \in FramesOf(p) <=> p = Head(up).src
  BY <1>1, KindsOfOnu
<1>3. ASSUME NEW M
      PROVE  /\ Head(up) \notin M => Kept(up, Tail(up), M)
             /\ \A e : Once(up, M, e) /\ Head(up) \in M => Head(up) = e /\ Absent(Tail(up), M)
             /\ Head(up) \in M => ~ Absent(up, M)
  BY <1>1, TailOnce
<1> QED BY <1>1, <1>2, <1>3

-----------------------------------------------------------------------------
(* The handlers, one at a time *)

\* A REGREQ is answered: the ONU that asked has its LLIDs on their way.
LEMMA StageRegReq ==
  ASSUME TypeOK, \A o \in ONU : Staged(o), OltRegReq, NEW p \in ONU
  PROVE  IF p = Head(up).src THEN IsOffered(p) ELSE Stays(p)
<1> DEFINE o == Head(up).src
<1>1. /\ up # <<>> /\ Head(up).op = "REGREQ" /\ Head(up) \in UpFrame /\ o \in ONU
      /\ Head(up).num \in Nat \ {0}
  BY TailFacts, FramesReceived DEF OltRegReq, UpArrives, TypeOK
<1>2. PICK ids \in LLIDChoices(Head(up).num) :
        /\ temptbl' = Append(temptbl, [id |-> o, llids |-> ids])
        /\ down' = [down EXCEPT ![o] = Append(@, Register(ids))]
  BY DEF OltRegReq
<1>3. up' = Tail(up) /\ UNCHANGED <<onutbl, regSend, onuQueues, grant>>
  BY DEF OltRegReq, onuVars
<1>4. ids \in LLIDs
  BY <1>1, LLIDChoicesTyped
<1> HIDE DEF o
<1> DEFINE e == [id |-> o, llids |-> ids]
<1>5. e \in Request /\ e.id = o
  BY <1>1, <1>4 DEF Request
<1>6. CASE p # o
  <2>1. down'[p] = down[p]
    BY <1>2, <1>6 DEF TypeOK
  <2>2. Kept(up, up', FramesOf(p))
    BY <1>1, <1>3, <1>6, ArrivesFrom DEF o
  <2>3. Kept(temptbl, temptbl', PendingOf(p))
    <3>1. e \notin PendingOf(p)
      BY <1>5, <1>6, KindsOfOnu
    <3> HIDE DEF e
    <3>2. temptbl' = Append(temptbl, e)
      BY <1>2 DEF e
    <3> QED BY <1>5, <3>1, <3>2, AppendOnce DEF TypeOK
  <2>4. Stays(p)
    BY <1>3, <2>1, <2>2, <2>3, StageKept
  <2> QED BY <1>6, <2>4 DEF o
<1>7. CASE p = o
  <2>1. ~ Absent(up, FramesOf(p)) /\ (\A m : Once(up, FramesOf(p), m) =>
              Head(up) = m /\ Absent(Tail(up), FramesOf(p)))
    BY <1>1, <1>7, ArrivesFrom DEF o
  <2>2. RegAck(p).op # "REGREQ" /\ Staged(p)
    BY <1>1 DEF RegAck
  <2>3. Asks(p) /\ down[p] = <<>> /\ p \notin regSend /\ Once(up, FramesOf(p), RegReq(p))
    BY <1>1, <2>1, <2>2 DEF Staged, Asks, Answered, TurnedAway, Entered
  <2>4. Head(up) = RegReq(p) /\ Absent(up', FramesOf(p))
    BY <1>3, <2>1, <2>3
  <2>5. ids \in Leases(p)
    BY <2>4 DEF RegReq, Leases
  <2>6. down'[p] = <<Register(ids)>>
    BY <1>1, <1>2, <1>7, <2>3 DEF TypeOK
  <2>7. Once(temptbl', PendingOf(p), e)
    <3>1. e \in PendingOf(p) /\ Absent(temptbl, PendingOf(p))
      BY <1>5, <1>7, <2>3, KindsOfOnu DEF Asks
    <3> HIDE DEF e
    <3>2. temptbl' = Append(temptbl, e)
      BY <1>2 DEF e
    <3> QED BY <1>5, <3>1, <3>2, AppendOnce DEF TypeOK
  <2>8. Answered(p, ids)'
    BY <1>3, <1>7, <2>3, <2>4, <2>6, <2>7 DEF Answered, Asks, Bare
  <2>9. IsPending(p)'
    BY <2>7, OnceFacts DEF IsPending
  <2> QED BY <1>7, <2>3, <2>5, <2>8, <2>9 DEF IsOffered, o
<1> QED BY <1>6, <1>7

\* A late REGACK ends the registration of its ONU.
LEMMA StageLateRegAck ==
  ASSUME TypeOK, \A o \in ONU : Staged(o), OltLateRegAck, NEW p \in ONU
  PROVE  Stays(p)
<1> DEFINE o == Head(up).src
<1>1. up # <<>> /\ Head(up).op = "REGACK" /\ Head(up) \in UpFrame /\ o \in ONU
  BY TailFacts, FramesReceived DEF OltLateRegAck, UpArrives, TypeOK
<1>2. /\ up' = Tail(up)
      /\ UNCHANGED <<temptbl, onutbl, regSend, onuQueues, grant, down>>
  BY DEF OltLateRegAck, oltVars, onuVars
<1>3. CASE p # o
  <2>1. Kept(up, up', FramesOf(p)) /\ Kept(temptbl, temptbl', PendingOf(p))
    BY <1>1, <1>2, <1>3, ArrivesFrom, KeptSame
  <2> QED BY <1>2, <2>1, StageKept
<1>4. CASE p = o
  <2>1. Absent(temptbl, PendingOf(p))
    <3>1. Positions(temptbl, p) = {}
      BY <1>4 DEF OltLateRegAck
    <3> QED BY <3>1, ElementOfSeq DEF Absent, PendingOf, Positions, TypeOK
  <2> HIDE DEF o
  <2>2. ~ Absent(up, FramesOf(p)) /\ (\A m : Once(up, FramesOf(p), m) =>
              Head(up) = m /\ Absent(Tail(up), FramesOf(p)))
    BY <1>1, <1>4, ArrivesFrom DEF o
  <2>3. RegReq(p).op # "REGACK" /\ Staged(p)
    BY <1>1 DEF RegReq
  <2>4. PICK ids \in Leases(p) : Answered(p, ids) /\ down[p] = <<>> /\ Once(up, FramesOf(p), RegAck(p))
    BY <1>1, <2>2, <2>3 DEF Staged, Asks, Answered, TurnedAway, Entered
  <2>5. Absent(up', FramesOf(p))
    BY <1>2, <2>2, <2>4
  <2>6. TurnedAway(p)'
    BY <1>2, <2>1, <2>4, <2>5 DEF TurnedAway, Answered
  <2> QED BY <2>1, <2>4, <2>6 DEF Stays, IsPending
<1> QED BY <1>3, <1>4

\* A request is dropped: its ONU has been answered, and is still.
LEMMA StageTimeOut ==
  ASSUME TypeOK, PendingAligned, \A o \in ONU : Staged(o), OltRegTimeOut, NEW p \in ONU
  PROVE  IF Head(temptbl) \in PendingOf(p) THEN IsDropped(p) ELSE Stays(p)
<1>1. /\ temptbl # <<>> /\ temptbl' = Tail(temptbl)
      /\ UNCHANGED <<up, onutbl, regSend, onuQueues, grant, down>>
  BY OltRegTimeOutFacts DEF onuVars
<1>2. /\ Head(temptbl) \notin PendingOf(p) => Kept(temptbl, temptbl', PendingOf(p))
      /\ \A e : Once(temptbl, PendingOf(p), e) /\ Head(temptbl) \in PendingOf(p)
                  => Absent(temptbl', PendingOf(p))
      /\ Head(temptbl) \in PendingOf(p) => ~ Absent(temptbl, PendingOf(p))
  BY <1>1, TailOnce DEF TypeOK
<1>3. CASE Head(temptbl) \notin PendingOf(p)
  <2>1. Stays(p)
    BY <1>1, <1>2, <1>3, StageKept, KeptSame
  <2> QED BY <1>3, <2>1
<1>4. CASE Head(temptbl) \in PendingOf(p)
  <2>1. PICK ids \in Leases(p) : Answered(p, ids) /\ ~ Absent(temptbl, PendingOf(p))
    BY <1>2, <1>4 DEF Staged, Asks, TurnedAway, Entered
  <2>2. Absent(temptbl', PendingOf(p))
    BY <1>2, <1>4, <2>1 DEF Answered
  <2>3. Answered(p, ids)'
    BY <1>1, <2>1, <2>2 DEF Answered, Bare, Holds, LLIDsOf
  <2> QED BY <1>4, <2>1, <2>2, <2>3 DEF IsDropped, IsPending
<1> QED BY <1>3, <1>4

\* A lease has one LLID for each that the ONU asked for, and none is BC.
LEMMA LeaseFacts ==
  ASSUME NEW o \in ONU, NEW ids \in Leases(o)
  PROVE  /\ ids \in LLIDs /\ Len(ids) = NumLLIDs[o] /\ NumLLIDs[o] \in Nat \ {0}
         /\ ids \in [1 .. NumLLIDs[o] -> LLID] /\ IsInjective(ids)
         /\ ToSet(ids) = {ids[j] : j \in 1 .. Len(ids)} /\ BC \notin ToSet(ids)
<1>1. NumLLIDs[o] \in Nat \ {0}
  <2>1. Cardinality(LLID) \in Nat
    BY RegistrationParameters, FS_CardinalityType
  <2> QED BY <2>1, RegistrationParameters
<1>2. ids \in [1 .. NumLLIDs[o] -> LLID] /\ IsInjective(ids)
  BY DEF Leases, LLIDChoices
<1>3. ids \in LLIDs
  BY <1>1, LLIDChoicesTyped DEF Leases
<1>4. Len(ids) = NumLLIDs[o]
  BY <1>1, <1>2, <1>3, LenProperties DEF LLIDs
<1>5. ToSet(ids) = {ids[j] : j \in 1 .. Len(ids)}
  BY <1>2, <1>4 DEF ToSet
<1>6. BC \notin ToSet(ids)
  BY <1>2, <1>4, <1>5, RegistrationParameters
<1> QED BY <1>1, <1>2, <1>3, <1>4, <1>5, <1>6

\* An ONU that creates the queues of a REGISTER holds its LLIDs.
LEMMA CreatedQueues ==
  ASSUME NEW o \in ONU, NEW ids \in Leases(o), Bare(o),
         onuQueues'[o] = CreateOnuQueues(onuQueues[o], ids)
  PROVE  Holds(o, ids)'
<1> DEFINE bare == [llid |-> BC, prior |-> BCPrior]
           qs == <<bare>>
           n == Len(ids)
           result == CreateOnuQueues(qs, ids)
           new == {[llid |-> ids[j], prior |-> PriorOf(j, n)] : j \in 1 .. n}
<1>1. qs \in Seq(OnuQueue) /\ Len(qs) = 1 /\ ToSet(qs) = {bare} /\ bare.llid = BC
  <2>1. bare \in OnuQueue
    BY DEF OnuQueue, Priority, BCPrior
  <2> QED BY <2>1, ToSetFacts
<1>2. ids \in LLIDs /\ n = NumLLIDs[o] /\ n \in Nat /\ BC \notin ToSet(ids)
      /\ ToSet(ids) = {ids[j] : j \in 1 .. n}
  BY LeaseFacts
<1>3. result = onuQueues'[o]
  BY DEF Bare
<1> HIDE DEF qs, bare, result
<1>4. Len(result) = 1 + n /\ ToSet(result) = {bare} \union new
  BY <1>1, <1>2, CreateOnuQueuesFacts DEF result
<1>5. {q.llid : q \in new} = ToSet(ids)
  <2> DEFINE rec(j) == [llid |-> ids[j], prior |-> PriorOf(j, n)]
  <2>1. \A j \in 1 .. n : rec(j).llid = ids[j] /\ rec(j) \in new
    OBVIOUS
  <2>2. \A q \in new : \E j \in 1 .. n : q.llid = ids[j]
    OBVIOUS
  <2> HIDE DEF rec, new
  <2> QED BY <1>2, <2>1, <2>2
<1> HIDE DEF new
<1>6. {q.llid : q \in {bare} \union new} = {BC} \union ToSet(ids)
  BY <1>1, <1>5
<1>7. LLIDsOf(o)' = ToSet(ids)
  BY <1>2, <1>3, <1>4, <1>6 DEF LLIDsOf
<1>8. Len(result) = NumLLIDs[o] + 1
  BY <1>2, <1>4
<1> QED BY <1>3, <1>7, <1>8 DEF Holds

\* A frame received by one ONU is none of the others'.
LEMMA ReceivedBy ==
  ASSUME TypeOK, NEW o \in ONU, NEW op, DownArrives(o, op), Received(o)
  PROVE  /\ down[o] # <<>> /\ down[o] \in Seq(DownFrame)
         /\ Head(down[o]) \in DownFrame /\ Head(down[o]).op = op
         /\ down'[o] = Tail(down[o])
         /\ \A p \in ONU : p # o => down'[p] = down[p]
         /\ \A f : down[o] = <<f>> => Head(down[o]) = f /\ down'[o] = <<>>
<1>1. /\ down[o] # <<>> /\ down[o] \in Seq(DownFrame) /\ Head(down[o]).op = op
      /\ down'[o] = Tail(down[o])
      /\ \A p \in ONU : p # o => down'[p] = down[p]
  BY DEF DownArrives, Received, TypeOK
<1>2. Head(down[o]) \in DownFrame
  BY <1>1, TailFacts
<1>3. \A f : Head(<<f>>) = f /\ Tail(<<f>>) = <<>>
  OBVIOUS
<1> QED BY <1>1, <1>2, <1>3

\* The registration GATE arrives at an ONU that is about to ask.
LEMMA StageRegGate ==
  ASSUME TypeOK, NEW o \in ONU, OnuRegGate(o), NEW p \in ONU, Staged(p)
  PROVE  Stays(p)
<1>1. /\ DownArrives(o, "REGGATE") /\ Received(o)
      /\ regSend' = regSend \union {o}
      /\ UNCHANGED <<temptbl, onutbl, onuQueues, up>>
      /\ \A q \in ONU : q # o => grant'[q] = grant[q]
  BY DEF OnuRegGate, oltVars, TypeOK
<1>2. CASE p # o
  BY <1>1, <1>2, ReceivedBy, StageKept, KeptSame
<1>3. CASE p = o
  <2>1. /\ down[o] # <<>> /\ Head(down[o]).op = "REGGATE" /\ Head(down[o]) \in DownFrame
        /\ down[o] \in Seq(DownFrame)
        /\ \A f : down[o] = <<f>> => Head(down[o]) = f /\ down'[o] = <<>>
    BY <1>1, ReceivedBy
  <2>2. ~ Absent(down[o], OtherThanGates)
    <3>1. Head(down[o]) \in OtherThanGates
      BY <2>1 DEF OtherThanGates
    <3> QED BY <2>1, <3>1, TailOccurs
  <2>3. \A ids : Register(ids).op # "REGGATE"
    BY DEF Register
  <2>4. Asks(o) /\ down[o] = <<RegGate>> /\ Absent(up, FramesOf(o)) /\ down'[o] = <<>>
    <3>1. \A ids : ~ Answered(o, ids) /\ ~ Entered(o, ids)
      BY <2>1, <2>2, <2>3 DEF Answered, Entered
    <3>2. Asks(o)
      BY <1>3, <2>1, <3>1 DEF Staged, TurnedAway
    <3>3. down[o] = <<RegGate>> /\ Absent(up, FramesOf(o))
      BY <2>1, <3>2 DEF Asks
    <3> QED BY <2>1, <3>2, <3>3
  <2>5. Asks(o)'
    BY <1>1, <2>4 DEF Asks, Bare
  <2> QED BY <1>3, <2>4, <2>5 DEF Stays
<1> QED BY <1>2, <1>3

\* The back-off ends and the REGREQ leaves.
LEMMA StageSendRegReq ==
  ASSUME TypeOK, NEW o \in ONU, OnuSendRegReq(o), NEW p \in ONU, Staged(p)
  PROVE  Stays(p)
<1>1. /\ o \in regSend /\ regSend' = regSend \ {o} /\ up' = Append(up, RegReq(o))
      /\ UNCHANGED <<temptbl, onutbl, onuQueues, grant, down>>
  BY DEF OnuSendRegReq, oltVars
<1>2. RegReq(o) \in UpFrame /\ (RegReq(o) \in FramesOf(p) <=> p = o) /\ up \in Seq(UpFrame)
  BY FramesSent, KindsOfOnu DEF RegReq, TypeOK
<1>3. CASE p # o
  <2>1. Kept(up, up', FramesOf(p))
    BY <1>1, <1>2, <1>3, AppendOnce
  <2> QED BY <1>1, <1>3, <2>1, StageKept, KeptSame
<1>4. CASE p = o
  <2>1. Asks(o) /\ down[o] = <<>> /\ Absent(up, FramesOf(o))
    BY <1>1, <1>4 DEF Staged, Asks, Answered, TurnedAway, Entered
  <2>2. Once(up', FramesOf(o), RegReq(o))
    BY <1>1, <1>2, <1>4, <2>1, AppendOnce
  <2>3. Asks(o)'
    BY <1>1, <2>1, <2>2 DEF Asks, Bare
  <2> QED BY <1>4, <2>1, <2>3 DEF Stays
<1> QED BY <1>3, <1>4

\* The REGISTER arrives at an ONU that has been answered.
LEMMA StageRegister ==
  ASSUME TypeOK, NEW o \in ONU, OnuRegister(o), NEW p \in ONU, Staged(p)
  PROVE  Stays(p)
<1>1. /\ DownArrives(o, "REGISTER") /\ Received(o)
      /\ up' = Append(up, RegAck(o))
      /\ onuQueues' = [onuQueues EXCEPT ![o] = CreateOnuQueues(@, Head(down[o]).llids)]
      /\ UNCHANGED <<temptbl, onutbl, regSend, grant>>
  BY DEF OnuRegister, oltVars
<1>2. RegAck(o) \in UpFrame /\ (RegAck(o) \in FramesOf(p) <=> p = o) /\ up \in Seq(UpFrame)
  BY FramesSent, KindsOfOnu DEF RegAck, TypeOK
<1>3. CASE p # o
  <2>1. Kept(up, up', FramesOf(p))
    BY <1>1, <1>2, <1>3, AppendOnce
  <2>2. onuQueues'[p] = onuQueues[p] /\ down'[p] = down[p]
    BY <1>1, <1>3, ReceivedBy DEF TypeOK
  <2> QED BY <1>1, <2>1, <2>2, StageKept, KeptSame
<1>4. CASE p = o
  <2>1. /\ down[o] # <<>> /\ Head(down[o]).op = "REGISTER" /\ Head(down[o]) \in DownFrame
        /\ down[o] \in Seq(DownFrame)
        /\ \A f : down[o] = <<f>> => Head(down[o]) = f /\ down'[o] = <<>>
    BY <1>1, ReceivedBy
  <2>2. ~ Absent(down[o], OtherThanGates)
    <3>1. Head(down[o]) \in OtherThanGates
      BY <2>1 DEF OtherThanGates
    <3> QED BY <2>1, <3>1, TailOccurs
  <2>3. RegGate.op # "REGISTER" /\ \A ids : Register(ids).llids = ids
    BY DEF RegGate, Register
  <2>4. PICK ids \in Leases(o) : /\ Answered(o, ids) /\ down[o] = <<Register(ids)>>
                                 /\ Absent(up, FramesOf(o)) /\ Bare(o)
    BY <1>4, <2>1, <2>2, <2>3 DEF Staged, Asks, Answered, TurnedAway, Entered
  <2>5. Head(down[o]) = Register(ids) /\ down'[o] = <<>>
    BY <2>1, <2>4
  <2>6. onuQueues'[o] = CreateOnuQueues(onuQueues[o], ids)
    BY <1>1, <2>3, <2>5 DEF TypeOK
  <2>7. Holds(o, ids)'
    BY <2>4, <2>6, CreatedQueues
  <2>8. Once(up', FramesOf(o), RegAck(o))
    BY <1>1, <1>2, <1>4, <2>4, AppendOnce
  <2>9. Answered(o, ids)'
    BY <1>1, <2>4, <2>5, <2>7, <2>8 DEF Answered
  <2> QED BY <1>1, <1>4, <2>4, <2>9 DEF Stays, IsPending
<1> QED BY <1>3, <1>4

\* A GATE becomes the grant of its ONU, and leaves the newest one the same.
LEMMA StageGate ==
  ASSUME TypeOK, NEW o \in ONU, OnuGate(o), NEW p \in ONU, Staged(p)
  PROVE  Stays(p)
<1>1. /\ DownArrives(o, "GATE") /\ Received(o)
      /\ grant' = [grant EXCEPT ![o] = [start  |-> Head(down[o]).start,
                                        length |-> Head(down[o]).length]]
      /\ UNCHANGED <<temptbl, onutbl, regSend, onuQueues, up>>
  BY DEF OnuGate, oltVars
<1>2. CASE p # o
  <2>1. grant'[p] = grant[p] /\ down'[p] = down[p]
    BY <1>1, <1>2, ReceivedBy DEF TypeOK
  <2> QED BY <1>1, <2>1, StageKept, KeptSame
<1>3. CASE p = o
  <2>1. /\ down[o] # <<>> /\ Head(down[o]).op = "GATE" /\ Head(down[o]) \in DownFrame
        /\ down[o] \in Seq(DownFrame) /\ down'[o] = Tail(down[o])
        /\ \A f : down[o] = <<f>> => Head(down[o]) = f
    BY <1>1, ReceivedBy
  <2>2. \A ids : Register(ids).op # "GATE" /\ RegGate.op # "GATE"
    BY DEF Register, RegGate
  <2>3. PICK ids \in Leases(o) : Entered(o, ids)
    BY <1>3, <2>1, <2>2 DEF Staged, Asks, Answered, TurnedAway
  <2>4. Absent(down'[o], OtherThanGates)
    BY <2>1, <2>3, TailOccurs DEF Entered
  <2>5. ASSUME NEW e, NewestIs(o, e) PROVE NewestIs(o, e)'
    <3>1. Last(down[o]).start = e.start /\ Last(down[o]).length = e.length
      BY <2>1, <2>5 DEF NewestIs
    <3>2. /\ Len(down[o]) \in Nat \ {0} /\ Len(down'[o]) = Len(down[o]) - 1
          /\ Head(down[o]) = down[o][1] /\ down'[o] \in Seq(DownFrame)
          /\ \A j \in 1 .. Len(down[o]) - 1 : down'[o][j] = down[o][j+1]
      BY <2>1, TailFacts
    <3>3. CASE Len(down[o]) = 1
      <4>1. down'[o] = <<>> /\ Last(down[o]) = Head(down[o])
        BY <3>2, <3>3, EmptySeq DEF Last
      <4>2. grant'[o].start = Head(down[o]).start /\ grant'[o].length = Head(down[o]).length
        BY <1>1 DEF TypeOK
      <4> QED BY <3>1, <4>1, <4>2 DEF NewestIs
    <3>4. CASE Len(down[o]) # 1
      <4>1. Len(down'[o]) \in 1 .. Len(down[o]) - 1 /\ down'[o] # <<>>
        <5>1. Len(down'[o]) \in 1 .. Len(down[o]) - 1 /\ Len(down'[o]) # 0
          <6>1. \A m \in Nat \ {0} : m # 1 => m - 1 \in 1 .. m - 1 /\ m - 1 # 0
            OBVIOUS
          <6> QED BY <3>2, <3>4, <6>1
        <5>2. Len(<<>>) = 0
          BY EmptySeq
        <5> QED BY <5>1, <5>2
      <4>2. Last(down'[o]) = Last(down[o])
        BY <3>2, <4>1 DEF Last
      <4> QED BY <3>1, <4>1, <4>2 DEF NewestIs
    <3> QED BY <3>3, <3>4
  <2>6. Entered(o, ids)'
    <3>1. PICK i \in 1 .. Len(onutbl) : /\ Once(onutbl, CommittedOf(o), onutbl[i])
                                        /\ onutbl[i].llids = ids /\ NewestIs(o, onutbl[i])
      BY <2>3 DEF Entered
    <3>2. NewestIs(o, onutbl[i])'
      <4> DEFINE e == onutbl[i]
      <4>1. e' = e
        BY <1>1
      <4> QED BY <1>1, <2>5, <3>1, <4>1 DEF NewestIs
    <3>3. Holds(o, ids)'
      BY <1>1, <2>3 DEF Entered, Holds, LLIDsOf
    <3> QED BY <1>1, <2>3, <2>4, <3>1, <3>2, <3>3 DEF Entered
  <2> QED BY <1>3, <2>3, <2>6 DEF Stays
<1> QED BY <1>2, <1>3

\* The one entry of an ONU is the first.
LEMMA OnlyPosition ==
  ASSUME NEW tbl \in Seq(Committed), NEW o \in ONU, NEW i \in 1 .. Len(tbl),
         Unique(tbl, CommittedOf(o)), tbl[i].id = o
  PROVE  FirstOf(Positions(tbl, o)) = i /\ Positions(tbl, o) # {}
<1>1. i \in Positions(tbl, o)
  BY DEF Positions
<1>2. \A j \in Positions(tbl, o) : j \in 1 .. Len(tbl) /\ tbl[j] \in CommittedOf(o)
  BY ElementOfSeq DEF Positions, CommittedOf
<1>3. Positions(tbl, o) \in SUBSET Nat
  BY <1>2, LenProperties
<1>4. FirstOf(Positions(tbl, o)) \in Positions(tbl, o)
  BY <1>1, <1>3, FirstOfFacts
<1> QED BY <1>1, <1>2, <1>4 DEF Unique

\* So it is the one SendGateUpdates announces; an ONU without one gets nothing.
LEMMA GateOfEntry ==
  ASSUME NEW dn, NEW tbl \in Seq(Committed), NEW o \in ONU
  PROVE  /\ Absent(tbl, CommittedOf(o)) => SendGateUpdates(dn, tbl)[o] = dn[o]
         /\ \A i \in 1 .. Len(tbl) : Unique(tbl, CommittedOf(o)) /\ tbl[i].id = o =>
              SendGateUpdates(dn, tbl)[o] = Append(dn[o], Gate(tbl[i]))
<1>1. SendGateUpdates(dn, tbl)[o] =
        IF Positions(tbl, o) = {} THEN dn[o]
        ELSE Append(dn[o], Gate(tbl[FirstOf(Positions(tbl, o))]))
  BY DEF SendGateUpdates
<1>2. Absent(tbl, CommittedOf(o)) => Positions(tbl, o) = {}
  BY AbsentPosition
<1>3. ASSUME NEW i \in 1 .. Len(tbl), Unique(tbl, CommittedOf(o)), tbl[i].id = o
      PROVE  SendGateUpdates(dn, tbl)[o] = Append(dn[o], Gate(tbl[i]))
  BY <1>1, <1>3, OnlyPosition
<1> QED BY <1>1, <1>2, <1>3

\* A GATE with the times of an entry makes them the newest.
LEMMA GateIsNewest ==
  ASSUME TypeOK, NEW o \in ONU, NEW x \in Committed, Absent(down[o], OtherThanGates),
         down'[o] = Append(down[o], Gate(x))
  PROVE  Absent(down'[o], OtherThanGates) /\ NewestIs(o, x)'
<1>1. Gate(x) \in DownFrame /\ Gate(x) \notin OtherThanGates /\ down[o] \in Seq(DownFrame)
  BY FramesSent DEF Gate, OtherThanGates, TypeOK
<1>2. Absent(down'[o], OtherThanGates)
  BY <1>1, AppendOccurs
<1>3. /\ down'[o] # <<>> /\ Len(down'[o]) = Len(down[o]) + 1
      /\ down'[o][Len(down[o]) + 1] = Gate(x)
  BY <1>1, AppendProperties
<1>4. Last(down'[o]) = Gate(x)
  BY <1>3 DEF Last
<1> QED BY <1>2, <1>3, <1>4 DEF NewestIs, Gate

\* A REGACK moves the entry of the ONU that sent it to the end of the table.
LEMMA RegAckAdmits ==
  ASSUME TypeOK, \A o \in ONU : Staged(o), OltRegAck
  PROVE  \E i \in 1 .. Len(temptbl), o \in ONU, e \in Committed, tbl \in Seq(Committed) :
           /\ up # <<>> /\ o = Head(up).src
           /\ temptbl[i] \in PendingOf(o) /\ \A q : q # o => temptbl[i] \notin PendingOf(q)
           /\ e.id = o /\ e.llids \in Leases(o)
           /\ Answered(o, e.llids) /\ IsPending(o) /\ Holds(o, e.llids)
           /\ down[o] = <<>> /\ Once(up, FramesOf(o), RegAck(o))
           /\ Absent(onutbl, CommittedOf(o))
           /\ tbl = Append(onutbl, e)
           /\ temptbl' = RemoveAt(temptbl, i)
           /\ oltQueues' = CreateOltQueues(oltQueues, e)
           /\ onutbl' = DoUpstreamDBA(tbl, Len(oltQueues') - 1)
           /\ Len(oltQueues') - 1 \in Nat
           /\ down' = SendGateUpdates(down, onutbl')
           /\ up' = Tail(up)
           /\ UNCHANGED <<regSend, onuQueues, grant>>
<1>1. PICK i \in 1 .. Len(temptbl), e \in Committed, tbl \in Seq(Committed) :
        /\ Head(up) \in UpFrame /\ Head(up).op = "REGACK" /\ up # <<>>
        /\ temptbl[i].id = Head(up).src
        /\ e.id = temptbl[i].id /\ e.llids = temptbl[i].llids
        /\ temptbl' = RemoveAt(temptbl, i)
        /\ tbl = AddONU(onutbl, e)
        /\ oltQueues' = CreateOltQueues(oltQueues, e)
        /\ onutbl' = DoUpstreamDBA(tbl, Len(oltQueues') - 1)
        /\ Len(oltQueues') - 1 \in Nat
        /\ down' = SendGateUpdates(down, onutbl')
        /\ up' = Tail(up)
        /\ UNCHANGED onuVars
  BY OltRegAckFacts
<1>2. PICK o \in ONU : o = Head(up).src
  BY <1>1, ArrivesFrom
<1>3. UNCHANGED <<regSend, onuQueues, grant>> /\ temptbl[i] \in Request
      /\ temptbl \in Seq(Request) /\ onutbl \in Seq(Committed)
  BY <1>1, ElementOfSeq DEF onuVars, TypeOK
<1>4. temptbl[i] \in PendingOf(o) /\ ~ Absent(temptbl, PendingOf(o))
      /\ \A q : q # o => temptbl[i] \notin PendingOf(q)
  BY <1>1, <1>2, <1>3, KindsOfOnu DEF Absent
<1>5. PICK ids \in Leases(o) :
        /\ Answered(o, ids) /\ down[o] = <<>> /\ Holds(o, ids)
        /\ Once(temptbl, PendingOf(o), [id |-> o, llids |-> ids])
        /\ Once(up, FramesOf(o), RegAck(o))
  <2>1. /\ ~ Absent(up, FramesOf(o)) /\ Head(up).op = "REGACK" /\ RegReq(o).op # "REGACK"
        /\ \A m : Once(up, FramesOf(o), m) => Head(up) = m
    BY <1>1, <1>2, ArrivesFrom DEF RegReq
  <2> QED BY <1>4, <2>1 DEF Staged, Asks, Answered, TurnedAway, Entered
<1>6. temptbl[i] = [id |-> o, llids |-> ids] /\ e.id = o /\ e.llids = ids
  BY <1>1, <1>2, <1>4, <1>5, OnceFacts
<1>7. tbl = Append(onutbl, e) /\ Absent(onutbl, CommittedOf(o))
  <2>1. Absent(onutbl, CommittedOf(o))
    BY <1>5 DEF Answered
  <2>2. Positions(onutbl, e.id) = {}
    BY <1>3, <1>6, <2>1, AbsentPosition
  <2> QED BY <1>1, <1>3, <2>1, <2>2, AddONUFacts
<1>8. IsPending(o)
  BY <1>4 DEF IsPending
<1> QED BY <1>1, <1>2, <1>3, <1>4, <1>5, <1>6, <1>7, <1>8

\* It admits that ONU, and every ONU of the table gets its new times.
LEMMA StageRegAck ==
  ASSUME TypeOK, \A o \in ONU : Staged(o), OltRegAck, NEW p \in ONU
  PROVE  IF p = Head(up).src THEN IsAdmitted(p) ELSE Stays(p)
<1>1. PICK i \in 1 .. Len(temptbl), o \in ONU, e \in Committed, tbl \in Seq(Committed) :
        /\ up # <<>> /\ o = Head(up).src
        /\ temptbl[i] \in PendingOf(o) /\ \A q : q # o => temptbl[i] \notin PendingOf(q)
        /\ e.id = o /\ e.llids \in Leases(o)
        /\ Answered(o, e.llids) /\ IsPending(o) /\ Holds(o, e.llids)
        /\ down[o] = <<>> /\ Once(up, FramesOf(o), RegAck(o))
        /\ Absent(onutbl, CommittedOf(o))
        /\ tbl = Append(onutbl, e)
        /\ temptbl' = RemoveAt(temptbl, i)
        /\ onutbl' = DoUpstreamDBA(tbl, Len(oltQueues') - 1)
        /\ Len(oltQueues') - 1 \in Nat
        /\ down' = SendGateUpdates(down, onutbl')
        /\ up' = Tail(up)
        /\ UNCHANGED <<regSend, onuQueues, grant>>
  BY RegAckAdmits
<1> PICK ids \in Leases(o) : ids = e.llids
  BY <1>1
<1>2. /\ temptbl \in Seq(Request) /\ onutbl \in Seq(Committed)
      /\ down \in [ONU -> Seq(DownFrame)]
  BY DEF TypeOK
<1>3. /\ onutbl' \in Seq(Committed) /\ Len(onutbl') = Len(tbl)
      /\ \A j \in 1 .. Len(tbl) : onutbl'[j].id = tbl[j].id /\ onutbl'[j].llids = tbl[j].llids
  BY <1>1, DoUpstreamDBAFacts
<1>4. /\ \A j \in 1 .. Len(onutbl) : j \in 1 .. Len(tbl) /\ tbl[j] = onutbl[j]
      /\ Len(tbl) \in 1 .. Len(tbl) /\ tbl[Len(tbl)] = e
  <2>1. /\ Len(tbl) = Len(onutbl) + 1 /\ tbl[Len(onutbl) + 1] = e
        /\ \A j \in 1 .. Len(onutbl) : tbl[j] = onutbl[j]
    BY <1>1, <1>2, AppendProperties
  <2>2. Len(onutbl) \in Nat
    BY <1>1, <1>2, LenProperties
  <2> QED BY <2>1, <2>2
<1>5. ASSUME NEW q
       PROVE  /\ e \notin CommittedOf(q) /\ Absent(onutbl, CommittedOf(q)) => Absent(onutbl', CommittedOf(q))
              /\ e \notin CommittedOf(q) /\ Unique(onutbl, CommittedOf(q)) => Unique(onutbl', CommittedOf(q))
              /\ Absent(onutbl, CommittedOf(q)) => Unique(onutbl', CommittedOf(q))
  <2>1. /\ Absent(tbl, CommittedOf(q)) => Absent(onutbl', CommittedOf(q))
        /\ Unique(tbl, CommittedOf(q)) => Unique(onutbl', CommittedOf(q))
    BY <1>3, SameIds
  <2>2. /\ Absent(onutbl, CommittedOf(q)) /\ e \notin CommittedOf(q) => Absent(tbl, CommittedOf(q))
        /\ Unique(onutbl, CommittedOf(q)) /\ e \notin CommittedOf(q) => Unique(tbl, CommittedOf(q))
        /\ Absent(onutbl, CommittedOf(q)) => Unique(tbl, CommittedOf(q))
    BY <1>1, <1>2, AppendOccurs
  <2> QED BY <2>1, <2>2
\* An entry of the new table, whose ONU is otherwise as an admitted one is.
<1>6. ASSUME NEW q \in ONU, NEW lease, NEW j \in 1 .. Len(onutbl'),
              onutbl'[j].id = q, onutbl'[j].llids = lease, Unique(onutbl', CommittedOf(q)),
              q \notin regSend, Absent(down[q], OtherThanGates), Absent(up', FramesOf(q)),
              Absent(temptbl', PendingOf(q)), Holds(q, lease)
       PROVE  Entered(q, lease)'
  <2>1. onutbl'[j] \in Committed
    BY <1>3, <1>6, ElementOfSeq
  <2>2. down'[q] = Append(down[q], Gate(onutbl'[j]))
    <3>1. PICK t \in Seq(Committed) : t = onutbl'
      BY <1>3
    <3>2. j \in 1 .. Len(t) /\ t[j].id = q /\ Unique(t, CommittedOf(q))
      BY <1>6, <3>1
    <3>3. SendGateUpdates(down, t)[q] = Append(down[q], Gate(t[j]))
      BY <3>2, GateOfEntry
    <3> QED BY <1>1, <3>1, <3>3
  <2>3. PICK x \in Committed : x = onutbl'[j]
    BY <2>1
  <2>4. Absent(down'[q], OtherThanGates) /\ NewestIs(q, x)'
    BY <1>6, <2>2, <2>3, GateIsNewest
  <2>5. NewestIs(q, onutbl[j])'
    BY <2>3, <2>4 DEF NewestIs
  <2>6. Once(onutbl', CommittedOf(q), onutbl'[j])
    BY <1>6, <2>1, KindsOfOnu DEF Once
  <2>7. Holds(q, lease)'
    BY <1>1, <1>2, <1>6 DEF Holds, LLIDsOf
  <2> QED BY <1>1, <1>2, <1>6, <2>4, <2>5, <2>6, <2>7 DEF Entered
<1>7. CASE p = o
  <2>1. Unique(onutbl', CommittedOf(o))
    BY <1>1, <1>5
  <2>2. Absent(temptbl', PendingOf(o))
    <3>1. Once(temptbl, PendingOf(o), [id |-> o, llids |-> ids])
      BY <1>1 DEF Answered, IsPending
    <3> QED BY <1>1, <1>2, <3>1, RemoveAtOnce
  <2>3. Absent(up', FramesOf(o)) /\ o \notin regSend
    BY <1>1, ArrivesFrom DEF Answered
  <2>4. Absent(down[o], OtherThanGates)
    BY <1>1, EmptySeq DEF Absent
  <2>5. /\ Len(tbl) \in 1 .. Len(onutbl')
        /\ onutbl'[Len(tbl)].id = o /\ onutbl'[Len(tbl)].llids = ids
    BY <1>1, <1>3, <1>4
  <2>6. Entered(o, ids)'
    BY <1>1, <1>6, <2>1, <2>2, <2>3, <2>4, <2>5
  <2> QED BY <1>1, <1>7, <2>6 DEF IsAdmitted, IsPending
<1>8. CASE p # o
  <2>1. Kept(temptbl, temptbl', PendingOf(p)) /\ Kept(up, up', FramesOf(p)) /\ e \notin CommittedOf(p)
    <3>1. Kept(temptbl, temptbl', PendingOf(p))
      BY <1>1, <1>2, <1>8, RemoveAtOnce
    <3>2. Kept(up, up', FramesOf(p))
      BY <1>1, <1>8, ArrivesFrom
    <3> QED BY <1>1, <1>8, <3>1, <3>2, KindsOfOnu
  <2>2. CASE Absent(onutbl, CommittedOf(p))
    <3>1. Absent(onutbl', CommittedOf(p))
      BY <1>5, <2>1, <2>2
    <3>2. down'[p] = down[p]
      BY <1>1, <1>2, <1>3, <3>1, GateOfEntry
    <3>3. Asks(p) => Asks(p)'
      BY <1>1, <1>2, <2>1, <3>1, <3>2 DEF Asks, Kept, Bare
    <3>4. ASSUME NEW lease, Answered(p, lease)
          PROVE  Answered(p, lease)' /\ (IsPending(p)' <=> IsPending(p))
      <4>1. Answered(p, lease)'
        BY <1>1, <1>2, <2>1, <3>1, <3>2, <3>4 DEF Answered, Kept, Bare, Holds, LLIDsOf
      <4>2. IsPending(p) => Once(temptbl', PendingOf(p), [id |-> p, llids |-> lease])
        BY <2>1, <3>4 DEF Answered, Kept, IsPending
      <4>3. IsPending(p) => IsPending(p)'
        BY <4>2, OnceFacts DEF IsPending
      <4>4. ~ IsPending(p) => ~ IsPending(p)'
        BY <2>1 DEF Kept, IsPending
      <4> QED BY <4>1, <4>3, <4>4
    <3>5. TurnedAway(p) => TurnedAway(p)'
      BY <1>1, <1>2, <2>1, <3>1, <3>2 DEF TurnedAway, Kept
    <3>6. \A lease : ~ Entered(p, lease)
      BY <2>2, OnceFacts DEF Entered
    <3>7. Stays(p)
      BY <3>3, <3>4, <3>5, <3>6 DEF Staged, Stays
    <3> QED BY <1>1, <1>8, <3>7
  <2>3. CASE ~ Absent(onutbl, CommittedOf(p))
    <3>1. PICK lease \in Leases(p) : Entered(p, lease)
      BY <2>3 DEF Staged, Asks, Answered, TurnedAway
    <3>2. PICK j \in 1 .. Len(onutbl) : Once(onutbl, CommittedOf(p), onutbl[j]) /\ onutbl[j].llids = lease
      BY <3>1 DEF Entered
    <3>3. Unique(onutbl', CommittedOf(p))
      BY <1>5, <2>1, <3>2 DEF Once
    <3>4. /\ j \in 1 .. Len(onutbl') /\ onutbl'[j].id = p /\ onutbl'[j].llids = lease
      <4>1. onutbl[j] \in CommittedOf(p)
        BY <3>2 DEF Once
      <4>2. onutbl[j].id = p
        BY <4>1 DEF CommittedOf
      <4> QED BY <1>3, <1>4, <3>2, <4>2
    <3>5. Absent(up', FramesOf(p)) /\ Absent(temptbl', PendingOf(p))
      BY <2>1, <3>1 DEF Entered, Kept
    <3>6. Entered(p, lease)'
      BY <1>6, <3>1, <3>3, <3>4, <3>5 DEF Entered
    <3>7. Stays(p)
      BY <3>1, <3>6 DEF Stays
    <3> QED BY <1>1, <1>8, <3>7
  <2> QED BY <2>2, <2>3
<1> QED BY <1>7, <1>8

-----------------------------------------------------------------------------
(* The stages in every reachable state *)

\* A step moves at most one ONU on.
LEMMA StageStep ==
  ASSUME TypeOK, PendingAligned, \A o \in ONU : Staged(o), [Next]_vars
  PROVE  \/ \A p \in ONU : Stays(p)
         \/ \E o \in ONU : /\ IsOffered(o) \/ IsAdmitted(o) \/ IsDropped(o)
                          /\ \A p \in ONU : p # o => Stays(p)
<1>1. CASE OltRegReq \/ OltRegAck
  <2>1. PICK o \in ONU : o = Head(up).src
    BY <1>1, ArrivesFrom DEF OltRegReq, OltRegAck, UpArrives
  <2> QED BY <1>1, <2>1, StageRegReq, StageRegAck
<1>2. CASE OltRegTimeOut
  <2>1. Head(temptbl) \in Request
    BY <1>2, OltRegTimeOutFacts, TailFacts DEF TypeOK
  <2>2. PICK o \in ONU : o = Head(temptbl).id
    BY <2>1 DEF Request
  <2>3. \A p \in ONU : Head(temptbl) \in PendingOf(p) <=> p = o
    BY <2>1, <2>2, KindsOfOnu
  <2> QED BY <1>2, <2>3, StageTimeOut
<1>3. CASE OltLateRegAck
  BY <1>3, StageLateRegAck
<1>4. ASSUME NEW o \in ONU, OnuNext(o), NEW p \in ONU PROVE Stays(p)
  <2>1. CASE OnuRegTimeOut(o)
    BY <2>1, StageKept, KeptSame DEF OnuRegTimeOut, oltVars
  <2> QED BY <1>4, <2>1, StageRegGate, StageSendRegReq, StageRegister, StageGate DEF OnuNext
<1>5. ASSUME UNCHANGED vars, NEW p \in ONU PROVE Stays(p)
  BY <1>5, StageKept, KeptSame DEF vars
<1> QED BY <1>1, <1>2, <1>3, <1>4, <1>5 DEF Next, OltNext

\* Either way every ONU is in one of the stages after it.
LEMMA StageNext ==
  ASSUME TypeOK, PendingAligned, \A o \in ONU : Staged(o), [Next]_vars
  PROVE  \A o \in ONU : Staged(o)'
<1>1. \A o \in ONU : Leases(o)' = Leases(o)
  BY DEF Leases, LLIDChoices
<1>2. \A o \in ONU : Stays(o) \/ IsOffered(o) \/ IsAdmitted(o) \/ IsDropped(o)
  BY StageStep
<1> QED BY <1>1, <1>2 DEF Staged, Stays, IsOffered, IsAdmitted, IsDropped

\* The registration GATE has been broadcast, and nobody has asked yet.
LEMMA StartsAsking == Init => \A o \in ONU : Asks(o)
<1> SUFFICES ASSUME Init, NEW o \in ONU PROVE Asks(o)
  OBVIOUS
<1>1. \A M : Absent(<<>>, M)
  BY EmptySeq DEF Absent
<1> QED BY <1>1 DEF Init, Asks, Bare

StagedInv == IInv /\ \A o \in ONU : Staged(o)

LEMMA StagedAlways == Spec => []StagedInv
<1>1. Init => StagedInv
  BY InitIInv, StartsAsking DEF StagedInv, Staged
<1>2. StagedInv /\ [Next]_vars => StagedInv'
  BY StepIInv, StageNext DEF StagedInv, IInv
<1> QED BY <1>1, <1>2, PTL DEF Spec

-----------------------------------------------------------------------------
(* The two sides agree *)

\* What the tables hold of an ONU in each stage.
LEMMA StageEntries ==
  ASSUME TypeOK, NEW o \in ONU
  PROVE  /\ Asks(o) \/ TurnedAway(o) => ~ Admitted(o) /\ ~ Pending(o)
         /\ \A ids : Answered(o, ids) =>
              /\ ~ Admitted(o)
              /\ Pending(o) => EntryOf(temptbl, o) = [id |-> o, llids |-> ids]
              /\ ~ Pending(o) <=> Absent(temptbl, PendingOf(o))
         /\ \A ids : Entered(o, ids) =>
              /\ Admitted(o) /\ ~ Pending(o)
              /\ EntryOf(onutbl, o).llids = ids
              /\ NewestIs(o, EntryOf(onutbl, o))
<1>1. Absent(onutbl, CommittedOf(o)) <=> ~ Admitted(o)
  BY AbsentPosition DEF Admitted, TypeOK
<1>2. Absent(temptbl, PendingOf(o)) <=> ~ Pending(o)
  BY ElementOfSeq DEF Absent, PendingOf, Positions, Pending, TypeOK
<1>3. ASSUME NEW e, Once(temptbl, PendingOf(o), e)
      PROVE  EntryOf(temptbl, o) = e
  <2>1. Positions(temptbl, o) # {}
    BY <1>2, <1>3, OnceFacts DEF Pending
  <2>2. Positions(temptbl, o) \in SUBSET Nat
    BY LenProperties DEF Positions, TypeOK
  <2>3. FirstOf(Positions(temptbl, o)) \in Positions(temptbl, o)
    BY <2>1, <2>2, FirstOfFacts
  <2>4. \A i \in Positions(temptbl, o) : i \in 1 .. Len(temptbl) /\ temptbl[i] \in PendingOf(o)
    BY ElementOfSeq DEF PendingOf, Positions, TypeOK
  <2> QED BY <1>3, <2>3, <2>4, OnceFacts DEF EntryOf
<1>4. ASSUME NEW i \in 1 .. Len(onutbl), Once(onutbl, CommittedOf(o), onutbl[i])
      PROVE  EntryOf(onutbl, o) = onutbl[i] /\ ~ Absent(onutbl, CommittedOf(o))
  <2>1. Unique(onutbl, CommittedOf(o)) /\ onutbl[i].id = o
    BY <1>4 DEF Once, CommittedOf
  <2>2. FirstOf(Positions(onutbl, o)) = i
    BY <2>1, OnlyPosition DEF TypeOK
  <2> QED BY <1>4, <2>2, OnceFacts DEF EntryOf
<1>5. Asks(o) \/ TurnedAway(o) => ~ Admitted(o) /\ ~ Pending(o)
  BY <1>1, <1>2 DEF Asks, TurnedAway
<1>6. ASSUME NEW ids, Answered(o, ids)
      PROVE  ~ Admitted(o) /\ (Pending(o) => EntryOf(temptbl, o) = [id |-> o, llids |-> ids])
  BY <1>1, <1>2, <1>3, <1>6 DEF Answered
<1>7. ASSUME NEW ids, Entered(o, ids)
      PROVE  /\ Admitted(o) /\ ~ Pending(o)
             /\ EntryOf(onutbl, o).llids = ids /\ NewestIs(o, EntryOf(onutbl, o))
  BY <1>1, <1>2, <1>4, <1>7 DEF Entered
<1> QED BY <1>2, <1>5, <1>6, <1>7

(***************************************************************************)
(* The ONU and the OLT agree on the LLIDs, also while the REGISTER or the  *)
(* REGACK is on its way (doOnuRegistration, handleRegister).               *)
(***************************************************************************)
THEOREM LLIDsAlwaysAgreed == Spec => []LLIDsAgreed
<1>1. StagedInv => LLIDsAgreed
  <2> SUFFICES ASSUME StagedInv, NEW o \in ONU
               PROVE  /\ Admitted(o) => /\ LLIDsOf(o) = ToSet(EntryOf(onutbl, o).llids)
                                        /\ Len(onuQueues[o]) = NumLLIDs[o] + 1
                      /\ Pending(o) =>
                           LET ids == EntryOf(temptbl, o).llids
                           IN  \/ Contains(down[o], Register(ids)) /\ LLIDsOf(o) = {}
                               \/ LLIDsOf(o) = ToSet(ids) /\ Contains(up, RegAck(o))
    BY DEF LLIDsAgreed
  <2>1. TypeOK /\ Staged(o)
    BY DEF StagedInv, IInv
  <2>2. CASE Asks(o) \/ TurnedAway(o)
    BY <2>1, <2>2, StageEntries
  <2>3. ASSUME NEW ids \in Leases(o), Answered(o, ids), Pending(o)
        PROVE  \/ Contains(down[o], Register(ids)) /\ LLIDsOf(o) = {}
               \/ LLIDsOf(o) = ToSet(ids) /\ Contains(up, RegAck(o))
    <3>1. Bare(o) => LLIDsOf(o) = {}
      <4>1. Bare(o) => ToSet(onuQueues[o]) = {[llid |-> BC, prior |-> BCPrior]}
        BY ToSetFacts DEF Bare
      <4> QED BY <4>1 DEF LLIDsOf
    <3>2. down[o] = <<Register(ids)>> => Contains(down[o], Register(ids))
      BY DEF Contains
    <3>3. Once(up, FramesOf(o), RegAck(o)) => Contains(up, RegAck(o))
      BY DEF Once, Contains
    <3> QED BY <2>3, <3>1, <3>2, <3>3 DEF Answered, Holds
  <2>4. CASE \E ids \in Leases(o) : Answered(o, ids)
    <3> PICK ids \in Leases(o) : Answered(o, ids)
      BY <2>4
    <3>1. ~ Admitted(o) /\ (Pending(o) => EntryOf(temptbl, o).llids = ids)
      BY <2>1, StageEntries
    <3> QED BY <2>3, <3>1
  <2>5. CASE \E ids \in Leases(o) : Entered(o, ids)
    <3> PICK ids \in Leases(o) : Entered(o, ids)
      BY <2>5
    <3>1. ~ Pending(o) /\ EntryOf(onutbl, o).llids = ids
      BY <2>1, StageEntries
    <3> QED BY <3>1 DEF Entered, Holds
  <2> QED BY <2>1, <2>2, <2>4, <2>5 DEF Staged
<1> QED BY <1>1, StagedAlways, PTL

(***************************************************************************)
(* No ONU of the table is left with times that a later registration has    *)
(* made stale: the newest GATE it has or is sent carries those of the      *)
(* table (SendGateUpdates after every DoUpstreamDBA).                      *)
(***************************************************************************)
THEOREM GrantsAlwaysAnnounced == Spec => []GrantsAnnounced
<1>1. StagedInv => GrantsAnnounced
  <2> SUFFICES ASSUME StagedInv, NEW o \in ONU, Admitted(o)
               PROVE  LET gates == {i \in 1 .. Len(down[o]) : down[o][i].op = "GATE"}
                          newest == IF gates = {} THEN grant[o] ELSE down[o][Max(gates)]
                          e == EntryOf(onutbl, o)
                      IN  newest.start = e.start /\ newest.length = e.length
    BY DEF GrantsAnnounced
  <2> DEFINE gates == {i \in 1 .. Len(down[o]) : down[o][i].op = "GATE"}
             e == EntryOf(onutbl, o)
  <2>1. TypeOK /\ Staged(o)
    BY DEF StagedInv, IInv
  <2>2. PICK ids \in Leases(o) : Entered(o, ids)
    BY <2>1, StageEntries DEF Staged
  <2>3. NewestIs(o, e) /\ Absent(down[o], OtherThanGates) /\ down[o] \in Seq(DownFrame)
    BY <2>1, <2>2, StageEntries DEF Entered, TypeOK
  <2>4. gates = 1 .. Len(down[o])
    BY <2>3, ElementOfSeq DEF Absent, OtherThanGates
  <2>5. CASE down[o] = <<>>
    <3>1. gates = {}
      BY <2>4, <2>5, EmptySeq
    <3> QED BY <2>3, <2>5, <3>1 DEF NewestIs
  <2>6. CASE down[o] # <<>>
    <3>1. Len(down[o]) \in Nat \ {0}
      BY <2>3, <2>6, EmptySeq
    <3>2. Max(1 .. Len(down[o])) = Len(down[o])
      BY <3>1 DEF Max
    <3>3. Len(down[o]) \in 1 .. Len(down[o])
      BY <3>1
    <3> HIDE DEF gates
    <3>4. gates # {} /\ Max(gates) = Len(down[o])
      BY <2>4, <3>2, <3>3
    <3> QED BY <2>3, <2>6, <3>4 DEF NewestIs, Last, gates
  <2> QED BY <2>5, <2>6
<1> QED BY <1>1, StagedAlways, PTL

-----------------------------------------------------------------------------
(* The refinement of the admission *)

\* What the abstract specification sees of an ONU.
StatusOf(o) ==
  IF Admitted(o) THEN "admitted"
  ELSE IF Pending(o) THEN "offered"
  ELSE IF Asking(o) THEN "silent" ELSE "refused"

LeaseOf(o) ==
  IF Admitted(o) THEN EntryOf(onutbl, o).llids
  ELSE IF Pending(o) THEN EntryOf(temptbl, o).llids
  ELSE <<>>

Seen(o, s, ids) == StatusOf(o) = s /\ LeaseOf(o) = ids

\* An ONU is asking in the first stage and in no other.
LEMMA AskingStage ==
  ASSUME TypeOK, NEW o \in ONU
  PROVE  /\ Asks(o) => Asking(o)
         /\ TurnedAway(o) => ~ Asking(o)
         /\ \A ids : Answered(o, ids) => ~ Asking(o)
<1>1. RegReq(o) \in FramesOf(o) /\ RegReq(o) # RegAck(o)
  BY FramesSent DEF FramesOf, RegReq, RegAck
<1>2. Absent(up, FramesOf(o)) \/ Once(up, FramesOf(o), RegAck(o)) => ~ Contains(up, RegReq(o))
  <2>1. Absent(up, FramesOf(o)) => ~ Contains(up, RegReq(o))
    BY <1>1 DEF Absent, Contains
  <2>2. Once(up, FramesOf(o), RegAck(o)) => ~ Contains(up, RegReq(o))
    BY <1>1, OnceFacts DEF Contains
  <2> QED BY <2>1, <2>2
<1>3. Once(up, FramesOf(o), RegReq(o)) => Contains(up, RegReq(o))
  BY DEF Once, Contains
<1>4. /\ down[o] = <<RegGate>> => Contains(down[o], RegGate)
      /\ down[o] = <<>> => ~ Contains(down[o], RegGate)
      /\ \A ids : down[o] = <<Register(ids)>> => ~ Contains(down[o], RegGate)
  <2>1. \A ids : Register(ids) # RegGate
    BY DEF Register, RegGate
  <2> QED BY <2>1 DEF Contains
<1> QED BY <1>2, <1>3, <1>4 DEF Asks, TurnedAway, Answered, Asking

\* What is seen of an ONU in each stage.
SeenByStage(o) ==
  /\ Asks(o) => Seen(o, "silent", <<>>)
  /\ TurnedAway(o) => Seen(o, "refused", <<>>)
  /\ \A ids : Answered(o, ids) /\ IsPending(o) => Seen(o, "offered", ids)
  /\ \A ids : Answered(o, ids) /\ ~ IsPending(o) => Seen(o, "refused", <<>>)
  /\ \A ids : Entered(o, ids) => Seen(o, "admitted", ids)

LEMMA StageSeen == TypeOK => \A o \in ONU : SeenByStage(o)
<1> SUFFICES ASSUME TypeOK, NEW o \in ONU PROVE SeenByStage(o)
  OBVIOUS
<1>1. Asks(o) => Seen(o, "silent", <<>>)
  BY StageEntries, AskingStage DEF Seen, StatusOf, LeaseOf
<1>2. TurnedAway(o) => Seen(o, "refused", <<>>)
  BY StageEntries, AskingStage DEF Seen, StatusOf, LeaseOf
<1>3. ASSUME NEW ids, Answered(o, ids)
      PROVE  IF IsPending(o) THEN Seen(o, "offered", ids) ELSE Seen(o, "refused", <<>>)
  <2>1. /\ ~ Admitted(o) /\ ~ Asking(o)
        /\ Pending(o) <=> IsPending(o)
        /\ Pending(o) => EntryOf(temptbl, o).llids = ids
    BY <1>3, StageEntries, AskingStage DEF IsPending
  <2> QED BY <2>1 DEF Seen, StatusOf, LeaseOf
<1>4. \A ids : Entered(o, ids) => Seen(o, "admitted", ids)
  BY StageEntries DEF Seen, StatusOf, LeaseOf
<1> QED BY <1>1, <1>2, <1>3, <1>4 DEF SeenByStage

LEMMA StageSeenAfter == (TypeOK => \A o \in ONU : SeenByStage(o))'
<1>1. TypeOK => \A o \in ONU : SeenByStage(o)
  BY StageSeen
<1> QED BY <1>1, PTL

\* What a step does to an ONU is what the abstract one sees of it.
LEMMA StepSeen ==
  ASSUME TypeOK, TypeOK', NEW o \in ONU
  PROVE  /\ Stays(o) => StatusOf(o)' = StatusOf(o) /\ LeaseOf(o)' = LeaseOf(o)
         /\ IsOffered(o) => /\ StatusOf(o) = "silent" /\ StatusOf(o)' = "offered"
                            /\ LeaseOf(o)' \in Leases(o)
         /\ IsAdmitted(o) => /\ StatusOf(o) = "offered" /\ StatusOf(o)' = "admitted"
                             /\ LeaseOf(o)' = LeaseOf(o)
         /\ IsDropped(o) => /\ StatusOf(o) = "offered" /\ StatusOf(o)' = "refused"
                            /\ LeaseOf(o)' = <<>>
<1>2. SeenByStage(o) /\ SeenByStage(o)'
  BY StageSeen, StageSeenAfter
<1>3. Stays(o) => StatusOf(o)' = StatusOf(o) /\ LeaseOf(o)' = LeaseOf(o)
  BY <1>2 DEF SeenByStage, Seen, Stays
<1>4. IsOffered(o) => /\ StatusOf(o) = "silent" /\ StatusOf(o)' = "offered"
                      /\ LeaseOf(o)' \in Leases(o)
  BY <1>2 DEF SeenByStage, Seen, IsOffered
<1>5. IsAdmitted(o) => /\ StatusOf(o) = "offered" /\ StatusOf(o)' = "admitted"
                       /\ LeaseOf(o)' = LeaseOf(o)
  BY <1>2 DEF SeenByStage, Seen, IsAdmitted
<1>6. IsDropped(o) => /\ StatusOf(o) = "offered" /\ StatusOf(o)' = "refused"
                      /\ LeaseOf(o)' = <<>>
  BY <1>2 DEF SeenByStage, Seen, IsDropped
<1> QED BY <1>3, <1>4, <1>5, <1>6

(***************************************************************************)
(* The messages, timers and tables of the registration do what the         *)
(* admission promises: an ONU is offered distinct LLIDs once, each offer   *)
(* is confirmed or dropped, and no step changes more than one ONU          *)
(* (doOnuRegistration, and the handler of OnuTOMsg).                       *)
(***************************************************************************)
THEOREM RegistrationImplementsAdmission == Spec => Admission!Spec
<1> DEFINE st == [o \in ONU |-> StatusOf(o)]
           ls == [o \in ONU |-> LeaseOf(o)]
           status == [o \in ONU |-> IF Admitted(o) THEN "admitted"
                                   ELSE IF Pending(o) THEN "offered"
                                   ELSE IF Asking(o) THEN "silent" ELSE "refused"]
           lease == [o \in ONU |-> IF Admitted(o) THEN EntryOf(onutbl, o).llids
                                  ELSE IF Pending(o) THEN EntryOf(temptbl, o).llids
                                  ELSE <<>>]
<1>0. status = st /\ lease = ls /\ status' = st' /\ lease' = ls'
  BY DEF StatusOf, LeaseOf
<1>1. Init => Admission!Init
  <2> SUFFICES ASSUME Init PROVE Admission!Init
    OBVIOUS
  <2>1. TypeOK
    BY InitIInv DEF IInv
  <2>2. ASSUME NEW o \in ONU PROVE StatusOf(o) = "silent" /\ LeaseOf(o) = <<>>
    <3>1. Asks(o)
      BY StartsAsking
    <3> QED BY <2>1, <3>1, StageSeen DEF SeenByStage, Seen
  <2>3. st = [o \in ONU |-> "silent"] /\ ls = [o \in ONU |-> <<>>]
    BY <2>2
  <2> HIDE DEF st, ls
  <2> QED BY <1>0, <2>3 DEF Admission!Init
<1>2. StagedInv /\ StagedInv' /\ [Next]_vars => [Admission!Next]_(Admission!vars)
  <2> SUFFICES ASSUME StagedInv, StagedInv', [Next]_vars
               PROVE  [Admission!Next]_(Admission!vars)
    OBVIOUS
  <2>1. TypeOK /\ TypeOK' /\ PendingAligned /\ \A o \in ONU : Staged(o)
    BY DEF StagedInv, IInv
  <2>2. st' = [o \in ONU |-> StatusOf(o)'] /\ ls' = [o \in ONU |-> LeaseOf(o)']
    OBVIOUS
  <2>3. CASE \A p \in ONU : Stays(p)
    <3>1. \A p \in ONU : StatusOf(p)' = StatusOf(p) /\ LeaseOf(p)' = LeaseOf(p)
      BY <2>1, <2>3, StepSeen
    <3>2. UNCHANGED <<st, ls>>
      BY <2>2, <3>1
    <3> HIDE DEF st, ls
    <3> QED BY <1>0, <3>2 DEF Admission!vars
  <2>4. ASSUME NEW o \in ONU, IsOffered(o) \/ IsAdmitted(o) \/ IsDropped(o),
               \A p \in ONU : p # o => Stays(p)
        PROVE  Admission!Next
    <3>1. \A p \in ONU : p # o => StatusOf(p)' = StatusOf(p) /\ LeaseOf(p)' = LeaseOf(p)
      BY <2>1, <2>4, StepSeen
    <3>2. st' = [st EXCEPT ![o] = StatusOf(o)'] /\ ls' = [ls EXCEPT ![o] = LeaseOf(o)']
      BY <2>2, <3>1
    <3>3. st[o] = StatusOf(o) /\ ls[o] = LeaseOf(o) /\ ls = [ls EXCEPT ![o] = ls[o]]
      OBVIOUS
    <3> HIDE DEF st, ls
    <3>4. CASE IsOffered(o)
      <4>1. st[o] = "silent" /\ st' = [st EXCEPT ![o] = "offered"]
        BY <2>1, <3>2, <3>3, <3>4, StepSeen
      <4>2. PICK ids \in Leases(o) : ids = LeaseOf(o)'
        BY <2>1, <3>4, StepSeen
      <4>3. ids \in [1 .. NumLLIDs[o] -> LLID] /\ Admission!IsInjective(ids)
        BY LeaseFacts DEF IsInjective, Admission!IsInjective
      <4>4. ls' = [ls EXCEPT ![o] = ids]
        BY <3>2, <4>2
      <4>5. Admission!Offer(o)
        BY <1>0, <4>1, <4>3, <4>4 DEF Admission!Offer
      <4> QED BY <4>5 DEF Admission!Next
    <3>5. CASE IsAdmitted(o)
      <4>1. st[o] = "offered" /\ st' = [st EXCEPT ![o] = "admitted"] /\ ls' = ls
        BY <2>1, <3>2, <3>3, <3>5, StepSeen
      <4> QED BY <1>0, <4>1 DEF Admission!Next, Admission!Admit
    <3>6. CASE IsDropped(o)
      <4>1. st[o] = "offered" /\ st' = [st EXCEPT ![o] = "refused"] /\ ls' = [ls EXCEPT ![o] = <<>>]
        BY <2>1, <3>2, <3>3, <3>6, StepSeen
      <4> QED BY <1>0, <4>1 DEF Admission!Next, Admission!Refuse
    <3> QED BY <2>4, <3>4, <3>5, <3>6
  <2> QED BY <2>1, <2>3, <2>4, StageStep
<1> QED BY <1>1, <1>2, StagedAlways, PTL DEF Spec, Admission!Spec

-----------------------------------------------------------------------------
(* What the division is by: the queues of the OLT and the LLIDs of the     *)
(* table                                                                   *)

Own(e) == {<<e.id, l>> : l \in ToSet(e.llids)}
Owned(tbl) == UNION {Own(tbl[i]) : i \in 1 .. Len(tbl)}

QueuesOfTable ==
  /\ {<<q.mac, q.llid>> : q \in ToSet(oltQueues)} = Owned(onutbl) \union {<<OLT, BC>>}
  /\ IsFiniteSet(Owned(onutbl))
  /\ Len(oltQueues) = Cardinality(Owned(onutbl)) + 1

\* An entry owns as many queues as it has LLIDs.
LEMMA OwnFacts ==
  ASSUME NEW o \in ONU, NEW e, e.id = o, e.llids \in Leases(o)
  PROVE  IsFiniteSet(Own(e)) /\ Cardinality(Own(e)) = Len(e.llids)
<1> DEFINE n == Len(e.llids)
           f == [j \in 1 .. n |-> <<o, e.llids[j]>>]
<1>1. /\ n \in Nat \ {0} /\ e.llids \in [1 .. n -> LLID] /\ IsInjective(e.llids)
      /\ ToSet(e.llids) = {e.llids[j] : j \in 1 .. n}
  BY LeaseFacts
<1>2. f \in Bijection(1 .. n, Own(e))
  <2>1. f \in [1 .. n -> Own(e)]
    BY <1>1 DEF Own
  <2>2. \A j, k \in 1 .. n : f[j] = f[k] => j = k
    BY <1>1 DEF IsInjective
  <2>3. \A x \in Own(e) : \E j \in 1 .. n : f[j] = x
    BY <1>1 DEF Own
  <2> HIDE DEF f
  <2> QED BY <2>1, <2>2, <2>3 DEF Bijection, Injection, Surjection, IsInjective
<1>3. IsFiniteSet(1 .. n) /\ Cardinality(1 .. n) = n
  BY <1>1, FS_Interval
<1> QED BY <1>2, <1>3, FS_Bijection DEF ExistsBijection

\* A new entry adds what it owns; the times of the entries do not matter.
LEMMA OwnedFacts ==
  ASSUME NEW tbl \in Seq(Committed)
  PROVE  /\ \A e \in Committed : Owned(Append(tbl, e)) = Owned(tbl) \union Own(e)
         /\ \A t \in Seq(Committed) :
              /\ Len(t) = Len(tbl)
              /\ \A i \in 1 .. Len(tbl) : t[i].id = tbl[i].id /\ t[i].llids = tbl[i].llids
              => Owned(t) = Owned(tbl)
<1>1. ASSUME NEW e \in Committed PROVE Owned(Append(tbl, e)) = Owned(tbl) \union Own(e)
  <2> DEFINE a == Append(tbl, e)
             n == Len(tbl)
  <2>1. n \in Nat /\ Len(a) = n + 1 /\ a[n + 1] = e /\ \A i \in 1 .. n : a[i] = tbl[i]
    BY AppendProperties, LenProperties
  <2> HIDE DEF a, n
  <2>2. \A i : i \in 1 .. Len(a) <=> i \in 1 .. n \/ i = n + 1
    BY <2>1
  <2>3. Owned(a) = (UNION {Own(tbl[i]) : i \in 1 .. n}) \union Own(e)
    BY <2>1, <2>2 DEF Owned
  <2> QED BY <2>3 DEF Owned, a, n
<1>2. ASSUME NEW t \in Seq(Committed), Len(t) = Len(tbl),
             \A i \in 1 .. Len(tbl) : t[i].id = tbl[i].id /\ t[i].llids = tbl[i].llids
      PROVE  Owned(t) = Owned(tbl)
  <2>1. \A i \in 1 .. Len(tbl) : Own(t[i]) = Own(tbl[i])
    BY <1>2 DEF Own
  <2> QED BY <1>2, <2>1 DEF Owned
<1> QED BY <1>1, <1>2

\* What an ONU that is in no entry would own is owned by nobody.
LEMMA OwnedApart ==
  ASSUME NEW tbl \in Seq(Committed), NEW o \in ONU, NEW e, e.id = o,
         Absent(tbl, CommittedOf(o))
  PROVE  Owned(tbl) \intersect Own(e) = {}
<1>1. \A i \in 1 .. Len(tbl) : tbl[i].id # o
  BY ElementOfSeq DEF Absent, CommittedOf
<1> QED BY <1>1 DEF Owned, Own

\* The queues that CreateOltQueues adds are those the entry owns.
LEMMA CreatedOwn ==
  ASSUME NEW qs \in Seq(OltQueue), NEW e \in Committed, NEW o \in ONU,
         e.id = o, e.llids \in Leases(o)
  PROVE  {<<q.mac, q.llid>> : q \in ToSet(CreateOltQueues(qs, e))}
           = {<<q.mac, q.llid>> : q \in ToSet(qs)} \union Own(e)
<1> DEFINE n == Len(e.llids)
           rec(j) == [mac |-> e.id, llid |-> e.llids[j], prior |-> PriorOf(j, n)]
           new == {rec(j) : j \in 1 .. n}
<1>1. ToSet(CreateOltQueues(qs, e)) = ToSet(qs) \union new
  BY CreateOltQueuesFacts
<1>2. {<<q.mac, q.llid>> : q \in new} = Own(e)
  <2>1. \A j \in 1 .. n : rec(j).mac = e.id /\ rec(j).llid = e.llids[j] /\ rec(j) \in new
    OBVIOUS
  <2>2. \A q \in new : \E j \in 1 .. n : q.mac = e.id /\ q.llid = e.llids[j]
    OBVIOUS
  <2>3. ToSet(e.llids) = {e.llids[j] : j \in 1 .. n}
    BY LeaseFacts
  <2> HIDE DEF rec, new, n
  <2>4. Own(e) = {<<e.id, e.llids[j]>> : j \in 1 .. n}
    BY <2>3 DEF Own
  <2> QED BY <2>1, <2>2, <2>4
<1> HIDE DEF new
<1> QED BY <1>1, <1>2

\* A REGACK adds the queues of the ONU it admits, and the others stay.
LEMMA QueuesRegAck ==
  ASSUME TypeOK, \A o \in ONU : Staged(o), QueuesOfTable, OltRegAck
  PROVE  QueuesOfTable'
<1>1. PICK o \in ONU, e \in Committed, tbl \in Seq(Committed) :
        /\ e.id = o /\ e.llids \in Leases(o)
        /\ Absent(onutbl, CommittedOf(o))
        /\ tbl = Append(onutbl, e)
        /\ oltQueues' = CreateOltQueues(oltQueues, e)
        /\ onutbl' = DoUpstreamDBA(tbl, Len(oltQueues') - 1)
        /\ Len(oltQueues') - 1 \in Nat
  BY RegAckAdmits
<1>2. onutbl \in Seq(Committed) /\ oltQueues \in Seq(OltQueue)
  BY DEF TypeOK
<1>3. Owned(onutbl') = Owned(onutbl) \union Own(e)
  <2>1. /\ onutbl' \in Seq(Committed) /\ Len(onutbl') = Len(tbl)
        /\ \A i \in 1 .. Len(tbl) : onutbl'[i].id = tbl[i].id /\ onutbl'[i].llids = tbl[i].llids
    BY <1>1, DoUpstreamDBAFacts
  <2>2. Owned(onutbl') = Owned(tbl)
    BY <1>1, <2>1, OwnedFacts
  <2> QED BY <1>1, <1>2, <2>2, OwnedFacts
<1>4. {<<q.mac, q.llid>> : q \in ToSet(oltQueues')} = Owned(onutbl') \union {<<OLT, BC>>}
  <2>1. {<<q.mac, q.llid>> : q \in ToSet(oltQueues')}
          = {<<q.mac, q.llid>> : q \in ToSet(oltQueues)} \union Own(e)
    BY <1>1, <1>2, CreatedOwn
  <2> QED BY <1>3, <2>1 DEF QueuesOfTable
<1>5. IsFiniteSet(Own(e)) /\ Cardinality(Own(e)) = Len(e.llids)
  BY <1>1, OwnFacts
<1>6. /\ IsFiniteSet(Owned(onutbl'))
      /\ Cardinality(Owned(onutbl')) = Cardinality(Owned(onutbl)) + Len(e.llids)
  <2>1. Owned(onutbl) \intersect Own(e) = {} /\ Cardinality({}) = 0
    BY <1>1, <1>2, OwnedApart, FS_EmptySet
  <2>2. IsFiniteSet(Owned(onutbl)) /\ Cardinality(Owned(onutbl)) \in Nat /\ Len(e.llids) \in Nat
    BY <1>1, LeaseFacts, FS_CardinalityType DEF QueuesOfTable
  <2>3. IsFiniteSet(Owned(onutbl) \union Own(e))
        /\ Cardinality(Owned(onutbl) \union Own(e))
             = Cardinality(Owned(onutbl)) + Cardinality(Own(e)) - Cardinality(Owned(onutbl) \intersect Own(e))
    BY <1>5, <2>2, FS_Union
  <2>4. Cardinality(Owned(onutbl) \intersect Own(e)) = 0
    BY <2>1
  <2>5. Cardinality(Owned(onutbl) \union Own(e)) = Cardinality(Owned(onutbl)) + Len(e.llids)
    <3>1. \A c, n \in Nat : c + n - 0 = c + n
      OBVIOUS
    <3>2. Cardinality(Owned(onutbl) \union Own(e)) = Cardinality(Owned(onutbl)) + Len(e.llids) - 0
      BY <1>5, <2>3, <2>4
    <3> QED BY <2>2, <3>1, <3>2
  <2> QED BY <1>3, <2>3, <2>5
<1>7. Len(oltQueues') = Len(oltQueues) + Len(e.llids)
  BY <1>1, <1>2, CreateOltQueuesFacts
<1>8. Len(oltQueues') = Cardinality(Owned(onutbl')) + 1
  <2>1. Cardinality(Owned(onutbl)) \in Nat /\ Len(e.llids) \in Nat
    BY <1>1, LeaseFacts, FS_CardinalityType DEF QueuesOfTable
  <2> QED BY <1>6, <1>7, <2>1 DEF QueuesOfTable
<1> QED BY <1>4, <1>6, <1>8 DEF QueuesOfTable

(***************************************************************************)
(* The lengths in the table are shares of one division by the number of    *)
(* queues, and that number is the sum of what the entries weigh: w[i] is   *)
(* the number of LLIDs of the first i entries.                             *)
(***************************************************************************)
Weighs(w, tbl, N) ==
  /\ w \in [0 .. Len(tbl) -> Nat]
  /\ w[0] = 0 /\ w[Len(tbl)] = N
  /\ \A i \in 1 .. Len(tbl) : w[i] = w[i-1] + Len(tbl[i].llids)

SharesOfTable ==
  /\ \A i \in 1 .. Len(onutbl) :
       onutbl[i].length = GrantLength(Len(onutbl[i].llids), Len(oltQueues) - 1)
  /\ \E w : Weighs(w, onutbl, Len(oltQueues) - 1)

\* A REGACK weighs in the new entry and divides again.
LEMMA SharesRegAck ==
  ASSUME TypeOK, \A o \in ONU : Staged(o), SharesOfTable, OltRegAck
  PROVE  SharesOfTable'
<1>1. PICK o \in ONU, e \in Committed, tbl \in Seq(Committed) :
        /\ e.id = o /\ e.llids \in Leases(o)
        /\ tbl = Append(onutbl, e)
        /\ oltQueues' = CreateOltQueues(oltQueues, e)
        /\ onutbl' = DoUpstreamDBA(tbl, Len(oltQueues') - 1)
        /\ Len(oltQueues') - 1 \in Nat
  BY RegAckAdmits
<1> DEFINE n == Len(onutbl)
           N == Len(oltQueues) - 1
           M == Len(oltQueues') - 1
           d == Len(e.llids)
<1>2. onutbl \in Seq(Committed) /\ oltQueues \in Seq(OltQueue) /\ n \in Nat /\ d \in Nat \ {0}
  <2>1. d = NumLLIDs[o] /\ NumLLIDs[o] \in Nat \ {0}
    BY <1>1, LeaseFacts
  <2> QED BY <2>1, LenProperties DEF TypeOK
<1>3. M = N + d /\ M \in Nat \ {0}
  <2>1. Len(oltQueues') = Len(oltQueues) + d /\ Len(oltQueues) \in Nat
    BY <1>1, <1>2, CreateOltQueuesFacts, LenProperties
  <2>2. PICK w : Weighs(w, onutbl, N)
    BY DEF SharesOfTable
  <2>3. N \in Nat
    BY <1>2, <2>2 DEF Weighs
  <2> QED BY <1>2, <2>1, <2>3
<1>4. /\ Len(tbl) = n + 1 /\ tbl[n + 1] = e
      /\ \A i \in 1 .. n : tbl[i] = onutbl[i]
  BY <1>1, <1>2, AppendProperties
<1>5. /\ Len(onutbl') = Len(tbl)
      /\ \A i \in 1 .. Len(tbl) : /\ onutbl'[i].llids = tbl[i].llids
                                  /\ onutbl'[i].length = GrantLength(Len(tbl[i].llids), M)
  <2>1. PICK K \in Nat \ {0} : K = M
    BY <1>3
  <2>2. onutbl' = DoUpstreamDBA(tbl, K)
    BY <1>1, <2>1
  <2> HIDE DEF M
  <2> QED BY <2>1, <2>2, DoUpstreamDBAFacts
<1>6. PICK w : Weighs(w, onutbl, N)
  BY DEF SharesOfTable
<1> PICK t : t = onutbl'
  OBVIOUS
<1> DEFINE v == [i \in 0 .. n + 1 |-> IF i = n + 1 THEN w[n] + d ELSE w[i]]
<1>7. Weighs(v, t, M)
  <2> HIDE DEF n, N, M, d
  <2>1. w \in [0 .. n -> Nat] /\ w[0] = 0 /\ w[n] = N
        /\ \A i \in 1 .. n : w[i] = w[i-1] + Len(onutbl[i].llids)
    BY <1>6 DEF Weighs, n
  <2>2. Len(t) = n + 1 /\ Len(t[n + 1].llids) = d /\ \A i \in 1 .. n : t[i].llids = onutbl[i].llids
    BY <1>2, <1>4, <1>5 DEF d
  <2>3. v \in [0 .. n + 1 -> Nat] /\ v[0] = 0 /\ v[n + 1] = M
    BY <1>2, <1>3, <2>1
  <2>4. ASSUME NEW i \in 1 .. n + 1 PROVE v[i] = v[i-1] + Len(t[i].llids)
    <3>1. i - 1 \in 0 .. n /\ v[i-1] = w[i-1]
      BY <1>2
    <3>2. CASE i = n + 1
      BY <1>2, <2>2, <3>1, <3>2
    <3>3. CASE i # n + 1
      <4>1. i \in 1 .. n /\ v[i] = w[i]
        BY <1>2, <3>3
      <4> QED BY <2>1, <2>2, <3>1, <4>1
    <3> QED BY <3>2, <3>3
  <2> QED BY <2>2, <2>3, <2>4 DEF Weighs
<1>8. \A i \in 1 .. Len(t) : t[i].length = GrantLength(Len(t[i].llids), M)
  BY <1>5
<1> QED BY <1>7, <1>8 DEF SharesOfTable

\* All that is invariant of the registration.
AdmissionInv == StagedInv /\ QueuesOfTable /\ SharesOfTable

LEMMA AdmissionAlways == Spec => []AdmissionInv
<1>1. Init => QueuesOfTable /\ SharesOfTable
  <2> SUFFICES ASSUME Init PROVE QueuesOfTable /\ SharesOfTable
    OBVIOUS
  <2> DEFINE bc == [mac |-> OLT, llid |-> BC, prior |-> BCPrior]
  <2>1. onutbl = <<>> /\ oltQueues = <<bc>> /\ Len(onutbl) = 0 /\ Len(oltQueues) = 1
    BY DEF Init
  <2>2. ToSet(oltQueues) = {bc} /\ bc.mac = OLT /\ bc.llid = BC
    BY <2>1, ToSetFacts
  <2> HIDE DEF bc
  <2>3. {<<q.mac, q.llid>> : q \in ToSet(oltQueues)} = {<<OLT, BC>>}
    BY <2>2
  <2>4. Owned(onutbl) = {}
    BY <2>1 DEF Owned
  <2>5. QueuesOfTable
    BY <2>1, <2>3, <2>4, FS_EmptySet DEF QueuesOfTable
  <2>6. Weighs([i \in 0 .. 0 |-> 0], onutbl, Len(oltQueues) - 1)
    BY <2>1 DEF Weighs
  <2>7. SharesOfTable
    BY <2>1, <2>6 DEF SharesOfTable
  <2> QED BY <2>5, <2>7
<1>2. AdmissionInv /\ StagedInv' /\ [Next]_vars => (QueuesOfTable /\ SharesOfTable)'
  <2> SUFFICES ASSUME AdmissionInv, [Next]_vars PROVE (QueuesOfTable /\ SharesOfTable)'
    OBVIOUS
  <2>1. CASE OltRegAck
    BY <2>1, QueuesRegAck, SharesRegAck DEF AdmissionInv, StagedInv, IInv
  <2>2. CASE UNCHANGED <<oltQueues, onutbl>>
    BY <2>2 DEF AdmissionInv, QueuesOfTable, SharesOfTable
  <2> QED BY <2>1, <2>2, TableKept
<1> QED BY <1>1, <1>2, StagedAlways, PTL DEF Spec, AdmissionInv

(***************************************************************************)
(* The OLT has one queue for the broadcast and one for each LLID of each   *)
(* entry of the ONU table, so that DoUpstreamDBA divides by the number of  *)
(* the LLIDs that it allocates to.                                         *)
(***************************************************************************)
THEOREM QueuesAlwaysMatchTable == Spec => []QueuesMatchTable
<1>1. AdmissionInv => QueuesMatchTable
  <2>1. Owned(onutbl) = UNION {{<<e.id, l>> : l \in ToSet(e.llids)} : e \in ToSet(onutbl)}
    BY DEF Owned, Own, ToSet
  <2> QED BY <2>1 DEF AdmissionInv, QueuesOfTable, QueuesMatchTable
<1> QED BY <1>1, AdmissionAlways, PTL

-----------------------------------------------------------------------------
(* The super slot is filled *)

\* A positive factor on both sides of a comparison.
LEMMA FactorCancels ==
  ASSUME NEW a \in Int, NEW b \in Int, NEW m \in Nat \ {0}
  PROVE  /\ m * a <= m * b => a <= b
         /\ m * a < m * b => a < b
<1>1. ASSUME a > b PROVE m * a > m * b
  <2>1. \A c \in Nat \ {0} : m * c > 0
    OBVIOUS
  <2>2. a - b \in Nat \ {0} /\ m * a = m * b + m * (a - b)
    BY <1>1
  <2>3. m * (a - b) > 0
    BY <2>1, <2>2
  <2> QED BY <2>2, <2>3
<1>2. m * a \in Int /\ m * b \in Int /\ (a = b => m * a = m * b)
  OBVIOUS
<1> QED BY <1>1, <1>2

\* One share more on top of the shares of the entries before.
LEMMA SharesAdd ==
  ASSUME NEW S \in Nat, NEW P \in Nat, NEW w \in Nat, NEW k \in Nat,
         NEW L \in Nat, NEW l \in Nat, NEW i \in Nat \ {0},
         P * L <= S * w, S * w + (i - 1) <= P * L + P * (i - 1),
         P * l <= S * k, S * k < P * l + P
  PROVE  P * (L + l) <= S * (w + k) /\ S * (w + k) + i <= P * (L + l) + P * i
<1>1. S * (w + k) = S * w + S * k /\ P * (L + l) = P * L + P * l /\ P * i = P * (i - 1) + P
  OBVIOUS
<1>2. /\ S * w \in Nat /\ S * k \in Nat /\ P * L \in Nat /\ P * l \in Nat /\ P * (i - 1) \in Nat
      /\ S * (w + k) \in Nat /\ P * (L + l) \in Nat /\ P * i \in Nat
  OBVIOUS
<1>3. \A a, b, c, d, e \in Nat :
        /\ a <= b /\ c <= d => a + c <= b + d
        /\ b + (i - 1) <= a + e /\ d < c + P => b + d + i <= a + c + (e + P)
  OBVIOUS
<1> QED BY <1>1, <1>2, <1>3

\* The shares of all the entries, against the super slot.
LEMMA SharesTotal ==
  ASSUME NEW S \in Nat, NEW N \in Nat \ {0}, NEW L \in Nat, NEW n \in Nat \ {0},
         (16 * N) * L <= S * N, S * N + n <= (16 * N) * L + (16 * N) * n
  PROVE  L <= S \div 16 /\ L + n > S \div 16
<1>1. (16 * N) * L = N * (16 * L) /\ S * N = N * S
      /\ (16 * N) * L + (16 * N) * n = N * (16 * (L + n))
  OBVIOUS
<1>2. 16 * L \in Int /\ S \in Int /\ 16 * (L + n) \in Int /\ N * S \in Int
  OBVIOUS
<1>3. N * (16 * L) <= N * S /\ N * S < N * (16 * (L + n))
  <2>1. N * S + n <= N * (16 * (L + n)) /\ N * (16 * (L + n)) \in Int
    BY <1>1, <1>2
  <2> QED BY <1>1, <1>2, <2>1
<1>4. 16 * L <= S /\ S < 16 * (L + n)
  BY <1>2, <1>3, FactorCancels
<1> QED BY <1>4

(***************************************************************************)
(* Without a rate limit the slots end within one super slot of the end of  *)
(* the registration window, so that none reaches into the next round, and  *)
(* truncation loses less than one unit per ONU (DoUpstreamDBA).            *)
(***************************************************************************)
THEOREM SlotsAlwaysFillSuperSlot == Spec => []SlotsFillSuperSlot
<1>1. AdmissionInv => SlotsFillSuperSlot
  <2> DEFINE n == Len(onutbl)
             N == Len(oltQueues) - 1
             S == SlotNumber * SlotLength
             P == 16 * N
  <2> SUFFICES ASSUME AdmissionInv, RateBudget = 0, n > 0
               PROVE  SlotEnd(n) <= RegTimeInt + SuperSlot /\ SlotEnd(n) + n > RegTimeInt + SuperSlot
    BY DEF SlotsFillSuperSlot
  <2>1. /\ onutbl \in Seq(Committed) /\ n \in Nat \ {0} /\ RegTimeInt \in Nat /\ S \in Nat
        /\ \A i \in 1 .. n : onutbl[i] \in Committed
    BY LenProperties, ElementOfSeq, DBAParameters DEF AdmissionInv, StagedInv, IInv, TypeOK
  <2> DEFINE k(i) == Len(onutbl[i].llids)
             l(i) == onutbl[i].length
  <2>2. \A i \in 1 .. n : /\ k(i) \in Nat \ {0} /\ l(i) \in Nat
                          /\ onutbl[i].start = IF i = 1 THEN RegTimeInt ELSE SlotEnd(i-1)
    <3> TAKE i \in 1 .. n
    <3>1. onutbl[i].llids \in Seq(LLID) /\ onutbl[i].llids # <<>> /\ l(i) \in Nat
      BY <2>1 DEF Committed, LLIDs
    <3>2. k(i) \in Nat \ {0}
      BY <3>1, LenProperties, EmptySeq
    <3> QED BY <3>1, <3>2 DEF AdmissionInv, StagedInv, IInv, SlotsContiguous
  <2>3. PICK w : w \in [0 .. n -> Nat] /\ w[0] = 0 /\ w[n] = N
                 /\ \A i \in 1 .. n : w[i] = w[i-1] + k(i)
    BY DEF AdmissionInv, SharesOfTable, Weighs
  <2>4. \A i \in 1 .. n : l(i) = GrantLength(k(i), N)
    BY DEF AdmissionInv, SharesOfTable
  <2> HIDE DEF n, N, k, l
  <2>5. N \in Nat \ {0} /\ P \in Nat \ {0}
    <3>1. n \in 1 .. n /\ n - 1 \in 0 .. n /\ n \in 0 .. n
      BY <2>1
    <3> QED BY <2>2, <2>3, <3>1
  <2> HIDE DEF S, P
  <2>6. ASSUME NEW i \in 1 .. n PROVE P * l(i) <= S * k(i) /\ S * k(i) < P * l(i) + P
    <3>1. l(i) = (S * k(i)) \div P
      BY <2>4 DEF GrantLength, S, P
    <3>2. S * k(i) \in Nat
      BY <2>1, <2>2
    <3> QED BY <2>5, <3>1, <3>2, DivisionFacts
  <2> DEFINE L(i) == IF i = 0 THEN 0 ELSE SlotEnd(i) - RegTimeInt
             T == {i \in 0 .. n : /\ L(i) \in Nat
                                  /\ P * L(i) <= S * w[i] /\ S * w[i] + i <= P * L(i) + P * i}
  <2>7. 0 \in T
    BY <2>1, <2>3, <2>5
  <2>8. \A i \in 1 .. n : L(i - 1) \in Nat => L(i) = L(i - 1) + l(i)
    <3> TAKE i \in 1 .. n
    <3>1. SlotEnd(i) = onutbl[i].start + l(i) /\ l(i) \in Nat /\ i \in Nat
      BY <2>2 DEF SlotEnd, l
    <3>2. CASE i = 1
      BY <2>1, <2>2, <3>1, <3>2
    <3>3. CASE i # 1
      <4>1. i # 0 /\ i - 1 # 0 /\ i - 1 \in 1 .. n /\ onutbl[i].start = SlotEnd(i - 1)
        BY <2>1, <2>2, <3>3
      <4>2. SlotEnd(i - 1) \in Int
        <5>1. onutbl[i-1] \in Committed
          BY <2>1, <4>1
        <5> QED BY <5>1 DEF SlotEnd, Committed
      <4> QED BY <2>1, <3>1, <4>1, <4>2
    <3> QED BY <3>2, <3>3
  <2> HIDE DEF L
  <2>9. ASSUME NEW i \in 1 .. n, i - 1 \in T PROVE i \in T
    <3>1. /\ L(i - 1) \in Nat /\ P * L(i - 1) <= S * w[i-1]
          /\ S * w[i-1] + (i - 1) <= P * L(i - 1) + P * (i - 1)
      BY <2>9
    <3>2. i \in Nat \ {0} /\ i - 1 \in 0 .. n /\ i \in 0 .. n /\ w[i-1] \in Nat /\ w[i] = w[i-1] + k(i)
      BY <2>1, <2>3
    <3>3. l(i) \in Nat /\ k(i) \in Nat
      BY <2>2
    <3>4. L(i) = L(i - 1) + l(i) /\ L(i) \in Nat
      BY <2>8, <3>1, <3>3
    <3>5. /\ P * (L(i - 1) + l(i)) <= S * (w[i-1] + k(i))
          /\ S * (w[i-1] + k(i)) + i <= P * (L(i - 1) + l(i)) + P * i
      BY <2>1, <2>5, <2>6, <3>1, <3>2, <3>3, SharesAdd
    <3> QED BY <3>2, <3>4, <3>5
  <2>10. n \in T
    <3> HIDE DEF T
    <3>1. \A i \in 0 .. n : i \in T
      BY <2>1, <2>7, <2>9, IntervalInduction
    <3> QED BY <2>1, <3>1
  <2>11. L(n) \in Nat /\ (16 * N) * L(n) <= S * N /\ S * N + n <= (16 * N) * L(n) + (16 * N) * n
    BY <2>3, <2>10 DEF P
  <2>12. L(n) <= S \div 16 /\ L(n) + n > S \div 16
    BY <2>1, <2>5, <2>11, SharesTotal
  <2>13. L(n) = SlotEnd(n) - RegTimeInt /\ SlotEnd(n) \in Int /\ SuperSlot \in Int /\ SuperSlot = S \div 16
    <3>1. onutbl[n] \in Committed /\ n # 0
      BY <2>1
    <3> QED BY <2>1, <3>1 DEF L, SlotEnd, Committed, SuperSlot, S
  <2> QED BY <2>1, <2>11, <2>12, <2>13
<1> QED BY <1>1, AdmissionAlways, PTL
=============================================================================
