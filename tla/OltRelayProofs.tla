--------------------------- MODULE OltRelayProofs ---------------------------
(***************************************************************************)
(* Proofs about the address table under the relay of the OLT, for any      *)
(* hosts, any aging time and any size of the table.                        *)
(***************************************************************************)
EXTENDS OltRelay, FiniteSetTheorems, TLAPS

AsRecentAt(sn, k) == {j \in Keys : sn[j] <= sn[k]}
KeptAt(sn, k) ==
  sn[k] < AgingTime /\ (TableSize = 0 \/ Cardinality(AsRecentAt(sn, k)) <= TableSize)

Histories == [Keys -> 0 .. AgingTime]
Entries == [port : Ports, age : 0 .. AgingTime]

\* A table that fits the history: ages, size, and what it must remember.
Fits(t, sn) ==
  /\ DOMAIN t \subseteq Keys /\ t \in [DOMAIN t -> Entries]
  /\ \A k \in DOMAIN t : t[k].age = sn[k]
  /\ TableSize # 0 => Cardinality(DOMAIN t) <= TableSize
  /\ \A k \in Keys : KeptAt(sn, k) => k \in DOMAIN t

\* The sets the proofs count are finite.
LEMMA Counting ==
  ASSUME NEW S \in SUBSET Keys
  PROVE  /\ IsFiniteSet(S) /\ Cardinality(S) \in Nat
         /\ \A T \in SUBSET S : Cardinality(T) <= Cardinality(S)
         /\ \A x : x \notin S => Cardinality(S \union {x}) = Cardinality(S) + 1
<1>1. IsFiniteSet(S) /\ Cardinality(S) \in Nat
  BY OltRelayParameters, FS_Subset, FS_CardinalityType
<1>2. \A T \in SUBSET S : Cardinality(T) <= Cardinality(S)
  BY <1>1, FS_Subset
<1>3. \A x : x \notin S => Cardinality(S \union {x}) = Cardinality(S) + 1
  BY <1>1, FS_AddElement
<1> QED BY <1>1, <1>2, <1>3

\* Aged entries may be removed.
LEMMA RemovalFits ==
  ASSUME NEW t, NEW sn \in Histories, Fits(t, sn), NEW A, A \subseteq Aged(t)
  PROVE  Fits(Without(t, A), sn)
<1> DEFINE u == Without(t, A)
<1>1. DOMAIN u = DOMAIN t \ A /\ \A k \in DOMAIN t \ A : u[k] = t[k]
  BY DEF Without
<1>2. u = [k \in DOMAIN t \ A |-> u[k]]
  BY DEF Without
<1> HIDE DEF u
<1>3. DOMAIN u \subseteq Keys /\ u \in [DOMAIN u -> Entries] /\ \A k \in DOMAIN u : u[k].age = sn[k]
  BY <1>1, <1>2 DEF Fits
<1>4. TableSize # 0 => Cardinality(DOMAIN u) <= TableSize
  <2>1. /\ DOMAIN u \in SUBSET DOMAIN t /\ DOMAIN t \in SUBSET Keys
        /\ TableSize # 0 => Cardinality(DOMAIN t) <= TableSize
    BY <1>1 DEF Fits
  <2>2. /\ Cardinality(DOMAIN u) \in Nat /\ Cardinality(DOMAIN t) \in Nat
        /\ Cardinality(DOMAIN u) <= Cardinality(DOMAIN t)
    BY <2>1, Counting
  <2> QED BY <2>1, <2>2, TableParameters
<1>5. \A k \in Keys : KeptAt(sn, k) => k \in DOMAIN u
  <2> SUFFICES ASSUME NEW k \in Keys, KeptAt(sn, k) PROVE k \in DOMAIN u
    OBVIOUS
  <2>1. k \in DOMAIN t /\ t[k].age = sn[k] /\ sn[k] < AgingTime
    BY DEF Fits, KeptAt
  <2>2. k \notin Aged(t)
    BY <2>1, TableParameters DEF Aged, Histories
  <2> QED BY <1>1, <2>1, <2>2
<1> QED BY <1>3, <1>4, <1>5 DEF Fits, u

\* Entering a key for which there is room, where k has been seen just now.
LEMMA EnterFits ==
  ASSUME NEW t, NEW sn \in Histories, NEW key \in Keys, NEW port \in Ports,
         DOMAIN t \subseteq Keys, t \in [DOMAIN t -> Entries],
         \A k \in DOMAIN t : t[k].age = sn[k],
         TableSize # 0 => Cardinality(DOMAIN t \union {key}) <= TableSize,
         NEW sn2, sn2 = [sn EXCEPT ![key] = 0],
         \A k \in Keys : k # key /\ KeptAt(sn2, k) => k \in DOMAIN t
  PROVE  Fits(Enter(t, key, port), sn2)
<1> DEFINE u == Enter(t, key, port)
           D == DOMAIN t \union {key}
<1>1. sn2 \in Histories /\ sn2[key] = 0 /\ \A k \in Keys : k # key => sn2[k] = sn[k]
  BY TableParameters DEF Histories
<1>2. u = [k \in D |-> IF k = key THEN [port |-> port, age |-> 0] ELSE t[k]]
  BY DEF Enter
<1>3. [port |-> port, age |-> 0] \in Entries
  BY TableParameters DEF Entries
<1> HIDE DEF u
<1>4. DOMAIN u = D /\ u \in [D -> Entries]
  BY <1>2, <1>3
<1>5. \A k \in D : u[k].age = sn2[k]
  BY <1>1, <1>2
<1> QED BY <1>1, <1>4, <1>5 DEF Fits, u

\* A key that is still to be remembered was to be remembered before: others
\* may only have been used since.
LEMMA KeptBefore ==
  ASSUME NEW sn \in Histories, NEW key \in Keys,
         NEW k \in Keys, k # key, KeptAt([sn EXCEPT ![key] = 0], k)
  PROVE  KeptAt(sn, k)
<1> DEFINE sn2 == [sn EXCEPT ![key] = 0]
<1>1. sn2[k] = sn[k] /\ sn[k] \in Nat
  BY TableParameters DEF Histories
<1>2. AsRecentAt(sn, k) \subseteq AsRecentAt(sn2, k)
  <2>1. \A j \in Keys : sn2[j] = IF j = key THEN 0 ELSE sn[j]
    BY DEF Histories
  <2> QED BY <1>1, <2>1 DEF AsRecentAt
<1>3. AsRecentAt(sn2, k) \in SUBSET Keys /\ AsRecentAt(sn, k) \in SUBSET Keys
  BY DEF AsRecentAt
<1> HIDE DEF sn2
<1>4. /\ Cardinality(AsRecentAt(sn, k)) <= Cardinality(AsRecentAt(sn2, k))
      /\ Cardinality(AsRecentAt(sn, k)) \in Nat /\ Cardinality(AsRecentAt(sn2, k)) \in Nat
  BY <1>2, <1>3, Counting
<1>5. KeptAt(sn2, k)
  BY DEF sn2
<1> QED BY <1>1, <1>4, <1>5, TableParameters DEF KeptAt

(***************************************************************************)
(* Learning a key.  In a full table without aged entries the oldest makes  *)
(* room: all the others and the new key are as recent, so that it need not *)
(* be remembered.                                                          *)
(***************************************************************************)
LEMMA UpdateFits ==
  ASSUME NEW t, NEW sn \in Histories, Fits(t, sn), NEW key \in Keys, NEW port \in Ports,
         NEW u \in Update(t, key, port)
  PROVE  Fits(u, [sn EXCEPT ![key] = 0])
<1> DEFINE sn2 == [sn EXCEPT ![key] = 0]
<1>1. /\ DOMAIN t \in SUBSET Keys /\ t \in [DOMAIN t -> Entries]
      /\ \A k \in DOMAIN t : t[k].age = sn[k]
      /\ TableSize # 0 => Cardinality(DOMAIN t) <= TableSize
  BY DEF Fits
<1>2. \A k \in Keys : k # key /\ KeptAt(sn2, k) => k \in DOMAIN t
  BY KeptBefore DEF Fits
<1>3. IsFiniteSet(DOMAIN t) /\ Cardinality(DOMAIN t) \in Nat /\ TableSize \in Nat
  BY <1>1, Counting, TableParameters
<1>4. CASE ~ (key \notin DOMAIN t /\ TableSize # 0 /\ Cardinality(DOMAIN t) = TableSize)
  <2>1. u = Enter(t, key, port)
    BY <1>4 DEF Update
  <2>2. TableSize # 0 => Cardinality(DOMAIN t \union {key}) <= TableSize
    <3>1. CASE key \in DOMAIN t
      <4>1. DOMAIN t \union {key} = DOMAIN t
        BY <3>1
      <4> QED BY <1>1, <4>1
    <3>2. CASE key \notin DOMAIN t
      <4>1. Cardinality(DOMAIN t \union {key}) = Cardinality(DOMAIN t) + 1
        BY <1>1, <3>2, Counting
      <4> QED BY <1>1, <1>3, <1>4, <3>2, <4>1
    <3> QED BY <3>1, <3>2
  <2> QED BY <1>1, <1>2, <2>1, <2>2, EnterFits
<1>5. CASE key \notin DOMAIN t /\ TableSize # 0 /\ Cardinality(DOMAIN t) = TableSize
  <2> DEFINE left == RemoveAged(t)
  <2>1. PICK r \in MakeRoom(t) : u = Enter(r, key, port)
    BY <1>5 DEF Update
  <2>2. Fits(left, sn) /\ DOMAIN left \subseteq DOMAIN t
    BY RemovalFits DEF RemoveAged, Without
  <2> HIDE DEF left
  <2>3. /\ DOMAIN left \in SUBSET Keys /\ left \in [DOMAIN left -> Entries] /\ key \notin DOMAIN left
        /\ \A k \in DOMAIN left : left[k].age = sn[k]
        /\ Cardinality(DOMAIN left) <= TableSize
    BY <1>5, <2>2 DEF Fits
  <2>4. IsFiniteSet(DOMAIN left) /\ Cardinality(DOMAIN left) \in Nat
    BY <2>3, Counting
  <2>5. \A k \in Keys : k # key /\ KeptAt(sn2, k) => k \in DOMAIN left
    BY <2>2, KeptBefore DEF Fits
  <2>6. CASE Cardinality(DOMAIN left) # TableSize
    <3>1. r = left
      BY <2>1, <2>6 DEF MakeRoom, left
    <3>2. Cardinality(DOMAIN left \union {key}) = Cardinality(DOMAIN left) + 1
      BY <2>3, Counting
    <3>3. Cardinality(DOMAIN left \union {key}) <= TableSize
      BY <1>3, <2>3, <2>4, <2>6, <3>2
    <3> QED BY <2>1, <2>3, <2>5, <3>1, <3>3, EnterFits
  <2>7. CASE Cardinality(DOMAIN left) = TableSize
    <3>1. PICK o \in Oldest(left) : r = Without(left, {o})
      BY <2>1, <2>7 DEF MakeRoom, left
    <3>2. o \in DOMAIN left /\ \A j \in DOMAIN left : left[j].age <= left[o].age
      BY DEF Oldest
    <3>3. /\ DOMAIN r = DOMAIN left \ {o} /\ \A k \in DOMAIN left \ {o} : r[k] = left[k]
          /\ r = [k \in DOMAIN left \ {o} |-> left[k]]
      BY <3>1 DEF Without
    <3>4. /\ DOMAIN r \subseteq Keys /\ r \in [DOMAIN r -> Entries]
          /\ \A k \in DOMAIN r : r[k].age = sn[k]
      BY <2>3, <3>3
    <3>5. Cardinality(DOMAIN r \union {key}) <= TableSize
      <4>1. Cardinality(DOMAIN r) = Cardinality(DOMAIN left) - 1
        BY <2>4, <3>2, <3>3, FS_RemoveElement
      <4>2. Cardinality(DOMAIN r \union {key}) = Cardinality(DOMAIN r) + 1
        BY <2>3, <3>3, <3>4, Counting
      <4> QED BY <1>3, <2>4, <2>7, <4>1, <4>2
    <3>6. ~ KeptAt(sn2, o)
      <4>1. o \in Keys /\ o # key /\ sn2[o] = sn[o] /\ sn2[key] = 0 /\ sn[o] \in Nat
        BY <2>3, <3>2, TableParameters DEF Histories
      <4>2. \A j \in DOMAIN left : j \in Keys /\ sn2[j] = sn[j] /\ sn[j] <= sn[o]
        BY <2>3, <3>2 DEF Histories
      <4>3. DOMAIN left \union {key} \subseteq AsRecentAt(sn2, o)
        BY <4>1, <4>2 DEF AsRecentAt
      <4>4. AsRecentAt(sn2, o) \in SUBSET Keys
        BY DEF AsRecentAt
      <4> DEFINE c == Cardinality(AsRecentAt(sn2, o))
      <4>5. c \in Nat /\ Cardinality(DOMAIN left \union {key}) <= c
        BY <4>3, <4>4, Counting
      <4>6. Cardinality(DOMAIN left \union {key}) = TableSize + 1
        BY <2>3, <2>7, Counting
      <4>7. ~ (c <= TableSize)
        BY <1>3, <4>5, <4>6
      <4> QED BY <1>5, <4>7 DEF KeptAt
    <3>7. \A k \in Keys : k # key /\ KeptAt(sn2, k) => k \in DOMAIN r
      BY <2>5, <3>3, <3>6
    <3> QED BY <2>1, <3>4, <3>5, <3>7, EnterFits
  <2> QED BY <2>6, <2>7
<1> QED BY <1>4, <1>5

\* A tick: everything gets older together, up to the aging time.
LEMMA TickFits ==
  ASSUME NEW t, NEW sn \in Histories, Fits(t, sn)
  PROVE  /\ [k \in Keys |-> Older(sn[k])] \in Histories
         /\ Fits(GrowOlder(t), [k \in Keys |-> Older(sn[k])])
<1> DEFINE sn2 == [k \in Keys |-> Older(sn[k])]
           u == GrowOlder(t)
<1>1. \A k \in Keys : sn[k] \in 0 .. AgingTime
  BY DEF Histories
<1>2. \A k \in Keys : sn2[k] = Older(sn[k]) /\ sn2[k] \in 0 .. AgingTime
  BY <1>1, TableParameters DEF Older
<1>3. sn2 \in Histories
  BY <1>2 DEF Histories
<1>4. /\ DOMAIN t \in SUBSET Keys /\ t \in [DOMAIN t -> Entries]
      /\ \A k \in DOMAIN t : t[k].age = sn[k]
      /\ TableSize # 0 => Cardinality(DOMAIN t) <= TableSize
  BY DEF Fits
<1>5. DOMAIN u = DOMAIN t /\ u = [k \in DOMAIN t |-> u[k]]
  BY DEF GrowOlder
<1>6. ASSUME NEW k \in DOMAIN t PROVE u[k] \in Entries /\ u[k].age = sn2[k]
  <2>1. u[k] = [t[k] EXCEPT !.age = Older(t[k].age)]
    BY DEF GrowOlder
  <2>2. t[k] \in Entries /\ k \in Keys /\ Older(t[k].age) = sn2[k] /\ sn2[k] \in 0 .. AgingTime
    BY <1>2, <1>4
  <2> HIDE DEF u, sn2
  <2> QED BY <2>1, <2>2 DEF Entries
<1>7. ASSUME NEW k \in Keys, KeptAt(sn2, k) PROVE k \in DOMAIN u
  <2>1. sn[k] < AgingTime /\ sn2[k] = sn[k] + 1
    BY <1>1, <1>2, <1>7, TableParameters DEF KeptAt, Older
  <2>2. \A j \in Keys : sn[j] <= sn[k] => sn2[j] <= sn2[k]
    BY <1>1, <1>2, <2>1, TableParameters DEF Older
  <2>3. AsRecentAt(sn, k) \in SUBSET AsRecentAt(sn2, k) /\ AsRecentAt(sn2, k) \in SUBSET Keys
    BY <2>2 DEF AsRecentAt
  <2> DEFINE c == Cardinality(AsRecentAt(sn, k))
             d == Cardinality(AsRecentAt(sn2, k))
  <2>4. c \in Nat /\ d \in Nat /\ c <= d
    <3>1. AsRecentAt(sn, k) \in SUBSET Keys
      BY <2>3
    <3> QED BY <2>3, <3>1, Counting
  <2>5. TableSize = 0 \/ d <= TableSize
    BY <1>7 DEF KeptAt
  <2>6. TableSize = 0 \/ c <= TableSize
    BY <2>4, <2>5, TableParameters
  <2>7. KeptAt(sn, k)
    BY <2>1, <2>6 DEF KeptAt
  <2> QED BY <1>5, <2>7 DEF Fits
<1> HIDE DEF u, sn2
<1>8. u \in [DOMAIN u -> Entries]
  BY <1>5, <1>6
<1>9. Fits(u, sn2)
  BY <1>4, <1>5, <1>6, <1>7, <1>8 DEF Fits
<1> QED BY <1>3, <1>9 DEF u, sn2

-----------------------------------------------------------------------------
(* The relay *)

RInv == seen \in Histories /\ Fits(table, seen) /\ crashed \in BOOLEAN

LEMMA RelayInit == Init => RInv
<1> SUFFICES ASSUME Init PROVE RInv
  OBVIOUS
<1>1. DOMAIN table = {} /\ table \in [{} -> Entries]
  BY DEF Init, EmptyTable
<1>2. seen \in Histories /\ \A k \in Keys : seen[k] = AgingTime
  BY TableParameters DEF Init, Histories
<1>3. \A k \in Keys : ~ KeptAt(seen, k)
  BY <1>2, TableParameters DEF KeptAt
<1>4. TableSize # 0 => Cardinality({}) <= TableSize
  BY FS_EmptySet, TableParameters
<1> QED BY <1>1, <1>2, <1>3, <1>4 DEF RInv, Fits, Init

\* handleFromPON learns the source under its LLID, or under none.
LEMMA FromPONFits == RInv /\ FromPON => RInv'
<1> SUFFICES ASSUME RInv,
                    NEW src \in Hosts, NEW llid \in LLIDs \union {Broadcast},
                    table' \in LearnFromPON(table, src, llid),
                    seen' = [seen EXCEPT ![<<src, IF llid = Broadcast THEN Undefined ELSE llid>>] = 0],
                    crashed' = crashed
             PROVE  RInv'
  BY DEF FromPON
<1> DEFINE key == <<src, IF llid = Broadcast THEN Undefined ELSE llid>>
<1>1. key \in Keys
  BY DEF Keys
<1>2. (llid \in {Broadcast, NoInfo}) <=> llid = Broadcast
  BY OltRelayParameters
<1>3. table' \in Update(table, key, "toPONout")
  BY <1>2 DEF LearnFromPON
<1> HIDE DEF key
<1>4. seen' = [seen EXCEPT ![key] = 0] /\ seen' \in Histories
  BY <1>1, TableParameters DEF RInv, Histories, key
<1>5. Fits(table', seen')
  <2>1. seen \in Histories /\ Fits(table, seen) /\ "toPONout" \in Ports
    BY DEF RInv, Ports
  <2>2. Fits(table', [seen EXCEPT ![key] = 0])
    BY <1>1, <1>3, <2>1, UpdateFits
  <2> QED BY <1>4, <2>2
<1> QED BY <1>4, <1>5 DEF RInv

\* The look-ups of handleFromLAN remove nothing but aged entries.
LEMMA LookUpsFit ==
  ASSUME NEW sn \in Histories, NEW t, NEW dst, NEW src, NEW tag,
         \A u \in LearnFromLAN(t, src, tag) : Fits(u, sn),
         NEW r \in OltFromLAN(t, src, tag, dst)
  PROVE  Fits(r.table, sn)
<1>1. PICK a \in Arrivals(t, src, tag, dst) :
        r \in IF a.back THEN {Result(a.table, {}, FALSE)}
              ELSE ForwardKnown(a.table, dst, <<"toPONout", Broadcast>>)
  BY DEF OltFromLAN
<1>2. Fits(a.table, sn)
  <2>1. PICK u \in LearnFromLAN(t, src, tag), any \in Garbage : a.table = Expire(u, <<dst, any>>)
    <3> DEFINE res(u, any) ==
                 [table |-> Expire(u, <<dst, any>>), back |-> PortFor(u, <<dst, any>>) = "ethOut"]
    <3>1. Arrivals(t, src, tag, dst) = {res(u, any) : u \in LearnFromLAN(t, src, tag), any \in Garbage}
      BY DEF Arrivals
    <3>2. \A u, any : res(u, any).table = Expire(u, <<dst, any>>)
      OBVIOUS
    <3> HIDE DEF res
    <3>3. PICK u \in LearnFromLAN(t, src, tag), any \in Garbage : a = res(u, any)
      BY <3>1
    <3> QED BY <3>2, <3>3
  <2>2. {<<dst, any>>} \intersect Aged(u) \subseteq Aged(u)
    OBVIOUS
  <2> QED BY <2>1, <2>2, RemovalFits DEF Expire
<1>3. CASE a.back
  BY <1>1, <1>2, <1>3 DEF Result
<1>4. CASE ~ a.back
  <2>1. PICK s \in Scan(a.table, dst) : r.table = s.table
    BY <1>1, <1>4 DEF ForwardKnown, Result
  <2>2. CASE Aged(a.table) = {}
    BY <1>2, <2>1, <2>2 DEF Scan
  <2>3. CASE Aged(a.table) # {}
    <3>1. PICK erased \in SUBSET Aged(a.table) : s.table = Without(a.table, erased)
      BY <2>1, <2>3 DEF Scan
    <3> QED BY <1>2, <2>1, <3>1, RemovalFits
  <2> QED BY <2>2, <2>3
<1> QED BY <1>3, <1>4

LEMMA FromLANFits == RInv /\ FromLAN => RInv'
<1> SUFFICES ASSUME RInv,
                    NEW src \in Hosts, NEW dst \in Hosts, NEW tag \in Tags,
                    NEW r \in OltFromLAN(table, src, tag, dst),
                    table' = r.table,
                    crashed' \in IF r.undefined THEN BOOLEAN ELSE {FALSE},
                    seen' = [seen EXCEPT ![<<src, tag>>] = 0]
             PROVE  RInv'
  BY DEF FromLAN
<1>1. <<src, tag>> \in Keys
  BY DEF Keys
<1>2. seen' \in Histories
  BY <1>1, TableParameters DEF RInv, Histories
<1>3. \A u \in LearnFromLAN(table, src, tag) : Fits(u, seen')
  BY <1>1, UpdateFits DEF RInv, LearnFromLAN, Ports
<1>4. Fits(table', seen')
  BY <1>2, <1>3, LookUpsFit
<1> QED BY <1>2, <1>4 DEF RInv

LEMMA StepRInv == RInv /\ [Next]_vars => RInv'
<1> SUFFICES ASSUME RInv, [Next]_vars PROVE RInv'
  OBVIOUS
<1>1. CASE FromPON
  BY <1>1, FromPONFits
<1>2. CASE FromLAN
  BY <1>2, FromLANFits
<1>3. CASE Move
  BY <1>3 DEF Move, RInv
<1>4. CASE Tick
  BY <1>4, TickFits DEF Tick, RInv
<1>5. CASE UNCHANGED vars
  BY <1>5 DEF vars, RInv
<1> QED BY <1>1, <1>2, <1>3, <1>4, <1>5 DEF Next

LEMMA AlwaysRInv == Spec => []RInv
BY StepRInv, RelayInit, PTL DEF Spec

(***************************************************************************)
(* The table of the relay never grows over addressTableSize, and the age   *)
(* of every entry is the time since its host was last heard of.            *)
(***************************************************************************)
THEOREM TableTypeCorrect == Spec => []TypeOK
<1>1. RInv => TypeOK
  BY DEF RInv, Fits, TypeOK, Histories, Entries
<1> QED BY <1>1, AlwaysRInv, PTL

(***************************************************************************)
(* updateTableWithAddress never gives up an entry that was used within the *)
(* aging time and has fewer than addressTableSize others used since.       *)
(***************************************************************************)
THEOREM TableRemembers == Spec => []Remembers
<1>1. RInv => Remembers
  BY DEF RInv, Fits, Remembers, Kept, KeptAt, AsRecent, AsRecentAt
<1> QED BY <1>1, AlwaysRInv, PTL

-----------------------------------------------------------------------------
(* Where the hosts are *)

(***************************************************************************)
(* Of a host that is never on the LAN the table holds no entry but of the  *)
(* LLIDs it may be behind, or of none, and all are of the port to the PON. *)
(***************************************************************************)
Placed(t) ==
  \A k \in DOMAIN t :
    Lan \notin Places[k[1]] => /\ k[2] \in Places[k[1]] \union {Undefined}
                               /\ t[k].port = "toPONout"

Located == \A h \in Hosts : place[h] \in Places[h]

\* A smaller table is Placed as well.
Part(u, t) == DOMAIN u \subseteq DOMAIN t /\ \A k \in DOMAIN u : u[k] = t[k]

LEMMA PlacedPart ==
  ASSUME NEW t, NEW u, Placed(t), Part(u, t)
  PROVE  Placed(u)
BY DEF Placed, Part

\* Without removes entries and changes none.
LEMMA WithoutPart ==
  ASSUME NEW t, NEW A
  PROVE  Part(Without(t, A), t)
BY DEF Part, Without

LEMMA PartOfPart ==
  ASSUME NEW t, NEW u, NEW v, Part(u, t), Part(v, u)
  PROVE  Part(v, t)
BY DEF Part

\* What learning a key leaves in the table: the key with its port, and
\* entries that were there.
LEMMA UpdateEntries ==
  ASSUME NEW t, NEW key, NEW port, NEW u \in Update(t, key, port)
  PROVE  \A k \in DOMAIN u : \/ k = key /\ u[k].port = port
                             \/ k \in DOMAIN t /\ u[k] = t[k]
<1>1. PICK r : u = Enter(r, key, port) /\ Part(r, t)
  <2>1. CASE ~ (key \notin DOMAIN t /\ TableSize # 0 /\ Cardinality(DOMAIN t) = TableSize)
    <3>1. u = Enter(t, key, port)
      BY <2>1 DEF Update
    <3> QED BY <3>1 DEF Part
  <2>2. CASE key \notin DOMAIN t /\ TableSize # 0 /\ Cardinality(DOMAIN t) = TableSize
    <3>1. PICK r \in MakeRoom(t) : u = Enter(r, key, port)
      BY <2>2 DEF Update
    <3> DEFINE left == RemoveAged(t)
    <3>2. Part(left, t)
      BY WithoutPart DEF RemoveAged
    <3>3. r = left \/ \E k : r = Without(left, {k})
      BY <3>1 DEF MakeRoom
    <3> HIDE DEF left
    <3>4. ASSUME NEW k, r = Without(left, {k}) PROVE Part(r, t)
      <4>1. Part(r, left)
        BY <3>4, WithoutPart
      <4> QED BY <3>2, <4>1, PartOfPart
    <3>5. Part(r, t)
      BY <3>2, <3>3, <3>4
    <3> QED BY <3>1, <3>5
  <2> QED BY <2>1, <2>2
<1> QED BY <1>1 DEF Enter, Part

\* handleFromLAN learns, looks for the destination where the frame came from,
\* and forwards.
LEMMA OltResults ==
  ASSUME NEW t, NEW src, NEW tag, NEW dst, NEW r \in OltFromLAN(t, src, tag, dst)
  PROVE  \E u \in LearnFromLAN(t, src, tag), any \in Garbage :
           IF PortFor(u, <<dst, any>>) = "ethOut"
           THEN r = Result(Expire(u, <<dst, any>>), {}, FALSE)
           ELSE r \in ForwardKnown(Expire(u, <<dst, any>>), dst, <<"toPONout", Broadcast>>)
<1> DEFINE res(u, any) ==
             [table |-> Expire(u, <<dst, any>>), back |-> PortFor(u, <<dst, any>>) = "ethOut"]
<1>1. Arrivals(t, src, tag, dst) = {res(u, any) : u \in LearnFromLAN(t, src, tag), any \in Garbage}
  BY DEF Arrivals
<1>2. \A u, any : /\ res(u, any).table = Expire(u, <<dst, any>>)
                  /\ res(u, any).back <=> PortFor(u, <<dst, any>>) = "ethOut"
  OBVIOUS
<1> HIDE DEF res
<1>3. PICK a \in Arrivals(t, src, tag, dst) :
        r \in IF a.back THEN {Result(a.table, {}, FALSE)}
              ELSE ForwardKnown(a.table, dst, <<"toPONout", Broadcast>>)
  BY DEF OltFromLAN
<1>4. PICK u \in LearnFromLAN(t, src, tag), any \in Garbage : a = res(u, any)
  BY <1>1
<1> QED BY <1>2, <1>3, <1>4

Forwarded(t, dst, unknown) ==
  IF Links(t, dst) = {} THEN {unknown} ELSE Copies(Links(t, dst))

\* Forwarding: what is sent, when the scan was defined.
LEMMA ForwardResults ==
  ASSUME NEW t, NEW dst, NEW unknown, NEW r \in ForwardKnown(t, dst, unknown)
  PROVE  /\ Part(r.table, t)
         /\ ~ r.undefined =>
              r.table = t /\ r.sent = Forwarded(t, dst, unknown)
<1>1. PICK s \in Scan(t, dst) :
        /\ r.table = s.table /\ r.undefined = s.undefined
        /\ r.sent = IF s.found = {} THEN {unknown} ELSE Copies(s.found)
  <2>1. PICK s \in Scan(t, dst) :
          r = Result(s.table, IF s.found = {} THEN {unknown} ELSE Copies(s.found), s.undefined)
    BY DEF ForwardKnown
  <2> QED BY <2>1 DEF Result
<1>2. CASE Aged(t) = {}
  <2>1. s.table = t /\ s.found = Links(RemoveAged(t), dst)
    BY <1>2 DEF Scan
  <2>2. Links(RemoveAged(t), dst) = Links(t, dst)
    BY <1>2 DEF Links, RemoveAged, Without
  <2> QED BY <1>1, <2>1, <2>2 DEF Part, Forwarded
<1>3. CASE Aged(t) # {}
  <2>1. s.undefined /\ \E erased : s.table = Without(t, erased)
    BY <1>3 DEF Scan
  <2> QED BY <1>1, <2>1, WithoutPart
<1> QED BY <1>2, <1>3

\* Every step keeps the entries of a host to the places it may be in.
LEMMA PlacedStep ==
  ASSUME RInv, Located, Placed(table), [Next]_vars
  PROVE  Located' /\ Placed(table')
<1>1. CASE FromPON
  <2>1. PICK src \in Hosts, llid \in LLIDs \union {Broadcast} :
          /\ place[src] # Lan /\ llid \in {place[src], Broadcast}
          /\ table' \in LearnFromPON(table, src, llid)
    BY <1>1 DEF FromPON
  <2> DEFINE key == <<src, IF llid \in {Broadcast, NoInfo} THEN Undefined ELSE llid>>
  <2>2. table' \in Update(table, key, "toPONout")
    BY <2>1 DEF LearnFromPON
  <2>3. key[1] = src /\ key[2] \in Places[src] \union {Undefined}
    BY <2>1 DEF Located
  <2> HIDE DEF key
  <2>4. Placed(table')
    BY <2>2, <2>3, UpdateEntries DEF Placed
  <2> QED BY <1>1, <2>4 DEF FromPON, Located
<1>2. CASE FromLAN
  <2>1. PICK src \in Hosts, dst \in Hosts, tag \in Tags :
          /\ place[src] = Lan /\ UNCHANGED place
          /\ \E r \in OltFromLAN(table, src, tag, dst) : table' = r.table
    BY <1>2 DEF FromLAN
  <2>2. PICK r \in OltFromLAN(table, src, tag, dst) : table' = r.table
    BY <2>1
  <2>3. PICK u \in LearnFromLAN(table, src, tag), any \in Garbage :
          IF PortFor(u, <<dst, any>>) = "ethOut"
          THEN r = Result(Expire(u, <<dst, any>>), {}, FALSE)
          ELSE r \in ForwardKnown(Expire(u, <<dst, any>>), dst, <<"toPONout", Broadcast>>)
    BY OltResults
  <2>4. Placed(u)
    <3>1. \A k \in DOMAIN u : k = <<src, tag>> \/ (k \in DOMAIN table /\ u[k] = table[k])
      BY UpdateEntries DEF LearnFromLAN
    <3>2. Lan \in Places[src]
      BY <2>1 DEF Located
    <3> QED BY <3>1, <3>2 DEF Placed
  <2> DEFINE v == Expire(u, <<dst, any>>)
  <2>5. Part(v, u)
    BY WithoutPart DEF Expire
  <2> HIDE DEF v
  <2>6. Part(r.table, v)
    <3>1. r = Result(v, {}, FALSE) \/ r \in ForwardKnown(v, dst, <<"toPONout", Broadcast>>)
      BY <2>3 DEF v
    <3>2. CASE r = Result(v, {}, FALSE)
      BY <3>2 DEF Result, Part
    <3>3. CASE r \in ForwardKnown(v, dst, <<"toPONout", Broadcast>>)
      BY <3>3, ForwardResults
    <3> QED BY <3>1, <3>2, <3>3
  <2>7. Placed(r.table)
    BY <2>4, <2>5, <2>6, PlacedPart
  <2> QED BY <2>1, <2>2, <2>7 DEF Located
<1>3. CASE Move
  <2>1. PICK h \in Hosts : \E p \in Places[h] : place' = [place EXCEPT ![h] = p]
    BY <1>3 DEF Move
  <2>2. PICK p \in Places[h] : place' = [place EXCEPT ![h] = p]
    BY <2>1
  <2>3. \A g \in Hosts : place'[g] \in Places[g]
    BY <2>2 DEF Located
  <2> QED BY <1>3, <2>3 DEF Move, Located
<1>4. CASE Tick
  <2>1. /\ DOMAIN table' = DOMAIN table
        /\ \A k \in DOMAIN table : table'[k] = [table[k] EXCEPT !.age = Older(@)]
    BY <1>4 DEF Tick, GrowOlder
  <2>2. \A k \in DOMAIN table : table[k] \in Entries
    BY DEF RInv, Fits
  <2>3. \A e \in Entries : [e EXCEPT !.age = Older(@)].port = e.port
    BY DEF Entries
  <2>4. Placed(table')
    BY <2>1, <2>2, <2>3 DEF Placed
  <2> QED BY <1>4, <2>4 DEF Tick, Located
<1>5. CASE UNCHANGED vars
  BY <1>5 DEF vars, Located
<1> QED BY <1>1, <1>2, <1>3, <1>4, <1>5 DEF Next

(***************************************************************************)
(* A frame for a host that is known is not taken for one from its own side *)
(* of the OLT, as no entry of the host has the port to the LAN; and if the *)
(* scan for links is defined, it finds the host's own, or the undefined    *)
(* one, or none, and then the frame is broadcast.                          *)
(***************************************************************************)
LEMMA FromLANReaches ==
  ASSUME RInv, RInv', Located, Placed(table), Placed(table'), FromLAN
  PROVE  ReachesHost'
<1>1. PICK src \in Hosts, dst \in Hosts, tag \in Tags :
        /\ place[src] = Lan /\ src # dst /\ UNCHANGED place
        /\ \E r \in OltFromLAN(table, src, tag, dst) :
             /\ table' = r.table
             /\ out' = [dst |-> dst, sent |-> r.sent, undefined |-> r.undefined]
  BY DEF FromLAN
<1>2. PICK r \in OltFromLAN(table, src, tag, dst) :
        /\ table' = r.table
        /\ out' = [dst |-> dst, sent |-> r.sent, undefined |-> r.undefined]
  BY <1>1
<1> PICK t : t = table'
  OBVIOUS
<1> PICK sn : sn = seen'
  OBVIOUS
<1>3. SUFFICES ASSUME Lan \notin Places[dst],
                      Places[dst] = {place[dst]} \/ KeptAt(sn, <<dst, place[dst]>>),
                      ~ r.undefined
               PROVE  \E s \in r.sent : s[1] = "toPONout" /\ s[2] \in {place[dst], Broadcast}
  BY <1>1, <1>2 DEF ReachesHost, Known, Reached, Kept, KeptAt, AsRecent, AsRecentAt
<1>4. PICK u \in LearnFromLAN(table, src, tag), any \in Garbage :
        IF PortFor(u, <<dst, any>>) = "ethOut"
        THEN r = Result(Expire(u, <<dst, any>>), {}, FALSE)
        ELSE r \in ForwardKnown(Expire(u, <<dst, any>>), dst, <<"toPONout", Broadcast>>)
  BY OltResults
<1>5. PortFor(u, <<dst, any>>) # "ethOut"
  <2>1. \A k \in DOMAIN u : k = <<src, tag>> \/ (k \in DOMAIN table /\ u[k] = table[k])
    BY UpdateEntries DEF LearnFromLAN
  <2>2. <<dst, any>> \in DOMAIN u => u[<<dst, any>>].port = "toPONout"
    BY <1>1, <1>3, <2>1 DEF Placed
  <2> QED BY <2>2 DEF PortFor
<1>6. /\ r.table = table'
      /\ r.sent = IF Links(table', dst) = {} THEN {<<"toPONout", Broadcast>>}
                  ELSE Copies(Links(table', dst))
  <2> DEFINE v == Expire(u, <<dst, any>>)
             unknown == <<"toPONout", Broadcast>>
  <2>1. r \in ForwardKnown(v, dst, unknown)
    BY <1>4, <1>5
  <2> HIDE DEF v, unknown
  <2>2. ~ r.undefined => r.table = v /\ r.sent = Forwarded(v, dst, unknown)
    BY ONLY <2>1, ForwardResults
  <2> QED BY <1>2, <1>3, <2>2 DEF Forwarded, unknown
<1> DEFINE found == Links(t, dst)
<1>7. \A e \in found : e.port = "toPONout" /\ e.llid \in Places[dst] \union {Undefined}
  BY <1>3 DEF Links, Placed
<1>8. CASE found = {}
  BY <1>6, <1>8
<1>9. CASE found # {} /\ \E e \in found : e.llid = Undefined
  <2>1. PICK e \in found : e.llid = Undefined
    BY <1>9
  <2>2. <<e.port, Broadcast>> \in Copies(found)
    BY <2>1 DEF Copies
  <2> QED BY <1>6, <1>7, <1>9, <2>2
<1>10. CASE found # {} /\ \A e \in found : e.llid # Undefined
  <2>1. \E e \in found : e.llid = place[dst]
    <3>1. CASE Places[dst] = {place[dst]}
      BY <1>7, <1>10, <3>1
    <3>2. CASE KeptAt(sn, <<dst, place[dst]>>)
      <4> DEFINE k == <<dst, place[dst]>>
      <4>1. k \in Keys
        BY <1>1, <1>3 DEF Located, Keys, LLIDs
      <4> HIDE DEF k
      <4>2. k \in DOMAIN t
        BY <3>2, <4>1 DEF RInv, Fits, k
      <4> USE DEF k
      <4>3. [llid |-> k[2], port |-> t[k].port] \in found
        BY <4>2 DEF Links
      <4> QED BY <4>3
    <3> QED BY <1>3, <3>1, <3>2
  <2>2. PICK e \in found : e.llid = place[dst]
    BY <2>1
  <2>3. <<e.port, e.llid>> \in Copies(found)
    BY <1>10 DEF Copies
  <2> QED BY <1>6, <1>7, <1>10, <2>2, <2>3
<1> QED BY <1>8, <1>9, <1>10

PlacedInv == RInv /\ Located /\ Placed(table) /\ ReachesHost

(***************************************************************************)
(* A frame from the LAN for a host that stays among the ONUs reaches it:   *)
(* wherever its frames and those of others have led the table, and however *)
(* entries have aged, been evicted or been refreshed in between.           *)
(***************************************************************************)
THEOREM FramesReachHosts == Spec => []ReachesHost
<1>1. Init => PlacedInv
  <2> SUFFICES ASSUME Init PROVE PlacedInv
    OBVIOUS
  <2>1. DOMAIN table = {} /\ out = NoFrame /\ Located
    BY DEF Init, EmptyTable, Located
  <2> QED BY <2>1, RelayInit DEF PlacedInv, Placed, ReachesHost
<1>2. PlacedInv /\ [Next]_vars => PlacedInv'
  <2> SUFFICES ASSUME PlacedInv, [Next]_vars PROVE PlacedInv'
    OBVIOUS
  <2>1. RInv'
    BY StepRInv DEF PlacedInv
  <2>2. Located' /\ Placed(table')
    BY PlacedStep DEF PlacedInv
  <2>3. CASE FromLAN
    BY <2>1, <2>2, <2>3, FromLANReaches DEF PlacedInv
  <2>4. CASE FromPON \/ Move \/ Tick
    <3>1. out' = NoFrame'
      BY <2>4 DEF FromPON, Move, Tick, NoFrame
    <3> QED BY <2>1, <2>2, <3>1 DEF PlacedInv, ReachesHost
  <2>5. CASE UNCHANGED vars
    <3>1. ReachesHost'
      BY <2>5 DEF vars, PlacedInv, ReachesHost, Known, Reached, Kept, AsRecent
    <3> QED BY <2>1, <2>2, <3>1 DEF PlacedInv
  <2> QED BY <2>3, <2>4, <2>5 DEF Next
<1>3. PlacedInv => ReachesHost
  BY DEF PlacedInv
<1> QED BY <1>1, <1>2, <1>3, PTL DEF Spec
=============================================================================
