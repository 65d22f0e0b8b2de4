---------------------------- MODULE AddressTable ----------------------------
(***************************************************************************)
(* The address table of the relays, VlanMACRelayUnitBase.  A table is a    *)
(* function from keys <<mac, llid>> to the port and the age of the entry   *)
(* in ticks.  Entries of the same tick come in any order of time, so an    *)
(* operation that looks for the oldest has a set of results.               *)
(***************************************************************************)
EXTENDS Integers, FiniteSets

CONSTANTS
  AgingTime,   \* agingTime: an entry of this age is not used any more
  TableSize,   \* addressTableSize, 0 for no limit
  Undefined    \* the logical link -1

ASSUME TableParameters == AgingTime \in Nat \ {0} /\ TableSize \in Nat

EmptyTable == [k \in {} |-> 0]

Aged(t) == {k \in DOMAIN t : t[k].age >= AgingTime}
Without(t, keys) == [k \in DOMAIN t \ keys |-> t[k]]

\* removeAgedEntriesFromTable
RemoveAged(t) == Without(t, Aged(t))

\* Mutant: the entry that was used last is removed.
OldestLast(t) == {k \in DOMAIN t : \A j \in DOMAIN t : t[k].age <= t[j].age}

\* The entries removeOldestTableEntry may choose.
Oldest(t) == {k \in DOMAIN t : \A j \in DOMAIN t : t[j].age <= t[k].age}

\* Mutant: only the aged entries are thrown out.
MakeRoomAged(t) == {RemoveAged(t)}

\* Room for one more: throw out the aged entries and, if that was not enough,
\* the oldest one.
MakeRoom(t) ==
  LET left == RemoveAged(t)
  IN  IF Cardinality(DOMAIN left) = TableSize
      THEN {Without(left, {k}) : k \in Oldest(left)}
      ELSE {left}

Enter(t, key, port) ==
  [k \in DOMAIN t \union {key} |-> IF k = key THEN [port |-> port, age |-> 0] ELSE t[k]]

\* Mutant: an entry that exists keeps its port and its age.
UpdateOnce(t, key, port) ==
  IF key \in DOMAIN t THEN {t}
  ELSE {Enter(r, key, port) : r \in IF Cardinality(DOMAIN t) = TableSize THEN MakeRoom(t) ELSE {t}}

\* updateTableWithAddress: the tables that may result.
Update(t, key, port) ==
  IF key \notin DOMAIN t /\ TableSize # 0 /\ Cardinality(DOMAIN t) = TableSize
  THEN {Enter(r, key, port) : r \in MakeRoom(t)}
  ELSE {Enter(t, key, port)}

\* getPortForAddress: the port ("" if there is none), and the table without
\* the entry if that has aged.
Expire(t, key) == Without(t, {key} \intersect Aged(t))
PortFor(t, key) == IF key \in DOMAIN t \ Aged(t) THEN t[key].port ELSE ""

(***************************************************************************)
(* getLLIDsForAddress: the links and ports of an address.  The loop erases *)
(* an aged entry and goes on from the iterator of the erased entry, which  *)
(* is undefined: it may fail, or go on anywhere, and find any part of what *)
(* there is.                                                               *)
(***************************************************************************)
Links(t, mac) ==
  {[llid |-> k[2], port |-> t[k].port] : k \in {j \in DOMAIN t : j[1] = mac}}

Scan(t, mac) ==
  LET fresh == Links(RemoveAged(t), mac)
  IN  IF Aged(t) = {}
      THEN {[table |-> t, found |-> fresh, undefined |-> FALSE]}
      ELSE {[table |-> Without(t, erased), found |-> found, undefined |-> TRUE] :
              erased \in SUBSET Aged(t) \ {{}}, found \in SUBSET fresh}

\* A tick later; an aged entry need not get older.
Older(age) == IF age < AgingTime THEN age + 1 ELSE age
GrowOlder(t) == [k \in DOMAIN t |-> [t[k] EXCEPT !.age = Older(@)]]
=============================================================================
