------------------------------ MODULE OltRelay ------------------------------
(***************************************************************************)
(* The default relay of the OLT with hosts on both sides.  A host is on    *)
(* the LAN or behind an ONU with a given LLID, and may move; its frames    *)
(* from behind an ONU bring that LLID or the broadcast one.                *)
(***************************************************************************)
EXTENDS PonRelay

CONSTANTS
  Hosts,    \* the addresses
  Places,   \* Places[h]: where the host h may be, LLIDs or Lan
  Lan,      \* the LAN of the OLT
  Tags      \* VLAN IDs on the LAN, and Undefined for frames without one

LLIDs == (UNION {Places[h] : h \in Hosts}) \ {Lan}
Keys == Hosts \X (LLIDs \union Tags \union {Undefined})

ASSUME OltRelayParameters ==
  /\ IsFiniteSet(Keys) /\ Undefined \in Tags
  /\ \A h \in Hosts : Places[h] # {}
  /\ {Broadcast, NoInfo, Lan} \intersect (LLIDs \union Tags) = {} /\ Undefined \notin LLIDs

VARIABLES
  table,     \* addresstable
  place,     \* where each host is
  out,       \* what the last frame from the LAN led to
  seen,      \* history: ticks since the relay last saw a key, up to AgingTime
  crashed    \* an undefined scan has ended the program

vars == <<table, place, out, seen, crashed>>

NoFrame == [dst |-> Undefined, sent |-> {}, undefined |-> FALSE]

Init ==
  /\ table = EmptyTable
  /\ place \in {p \in [Hosts -> LLIDs \union {Lan}] : \A h \in Hosts : p[h] \in Places[h]}
  /\ out = NoFrame
  /\ seen = [k \in Keys |-> AgingTime]
  /\ crashed = FALSE

\* A frame of a host behind an ONU arrives.
FromPON ==
  /\ \E src \in Hosts, llid \in LLIDs \union {Broadcast} :
       /\ place[src] # Lan
       /\ llid \in {place[src], Broadcast}
       /\ table' \in LearnFromPON(table, src, llid)
       /\ seen' = [seen EXCEPT ![<<src, IF llid = Broadcast THEN Undefined ELSE llid>>] = 0]
  /\ out' = NoFrame
  /\ UNCHANGED <<place, crashed>>

\* A frame arrives from the LAN.
FromLAN ==
  \E src \in Hosts, dst \in Hosts, tag \in Tags :
    /\ place[src] = Lan /\ src # dst
    /\ \E r \in OltFromLAN(table, src, tag, dst) :
         /\ table' = r.table
         /\ out' = [dst |-> dst, sent |-> r.sent, undefined |-> r.undefined]
         /\ crashed' \in IF r.undefined THEN BOOLEAN ELSE {FALSE}
    /\ seen' = [seen EXCEPT ![<<src, tag>>] = 0]
    /\ UNCHANGED place

Move ==
  /\ \E h \in Hosts : \E p \in Places[h] \ {place[h]} : place' = [place EXCEPT ![h] = p]
  /\ out' = NoFrame
  /\ UNCHANGED <<table, seen, crashed>>

Tick ==
  /\ table' = GrowOlder(table)
  /\ seen' = [k \in Keys |-> Older(seen[k])]
  /\ out' = NoFrame
  /\ UNCHANGED <<place, crashed>>

Next == ~ crashed /\ (FromPON \/ FromLAN \/ Move \/ Tick)

Spec == Init /\ [][Next]_vars

-----------------------------------------------------------------------------
(* Properties *)

Ports == {"toPONout", "ethOut"}

\* The shape of the state; the table keeps to its limit, and its ages are right.
TypeOK ==
  /\ DOMAIN table \subseteq Keys
  /\ \A k \in DOMAIN table : table[k].port \in Ports /\ table[k].age = seen[k]
  /\ TableSize # 0 => Cardinality(DOMAIN table) <= TableSize
  /\ seen \in [Keys -> 0 .. AgingTime]
  /\ crashed \in BOOLEAN

(***************************************************************************)
(* The keys not older than k, k among them.                                *)
(***************************************************************************)
AsRecent(k) == {j \in Keys : seen[j] <= seen[k]}
Kept(k) == seen[k] < AgingTime /\ (TableSize = 0 \/ Cardinality(AsRecent(k)) <= TableSize)

(***************************************************************************)
(* The relay forgets the right entries: a key that was used within the     *)
(* aging time, with fewer than addressTableSize others since, is in the    *)
(* table, whatever was learned, looked up, evicted or skipped by an        *)
(* undefined scan (updateTableWithAddress and the functions it calls).     *)
(***************************************************************************)
Remembers == \A k \in Keys : Kept(k) => k \in DOMAIN table

Reached(h) == \E s \in out.sent : s[1] = "toPONout" /\ s[2] \in {place[h], Broadcast}

(***************************************************************************)
(* A frame from the LAN for a host behind an ONU is sent to where it is:   *)
(* always if it cannot move, and after a move among the ONUs as soon as it *)
(* has sent a frame that the table must remember; stale entries of the old *)
(* place do not hide the new one (handleFromLAN, the scan being defined).  *)
(* A host that has come over from the LAN is left out: until its old entry *)
(* has aged, the relay may drop frames for it, as from their own side.     *)
(***************************************************************************)
Known(h) ==
  Lan \notin Places[h] /\ (Places[h] = {place[h]} \/ Kept(<<h, place[h]>>))
ReachesHost ==
  (out # NoFrame /\ Known(out.dst) /\ ~ out.undefined) => Reached(out.dst)
=============================================================================
