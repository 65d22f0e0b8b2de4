----------------------------- MODULE VlanBridge -----------------------------
(***************************************************************************)
(* VLANs across the PON: the vlanBridge relay of the OLT, the ONU table it *)
(* shares with the queue module, and the links that the vlanBridge relays  *)
(* of the ONUs choose for the frames of their hosts.  ONUs register one    *)
(* after the other and hosts move between them.                            *)
(***************************************************************************)
EXTENDS VlanRelay, TLC

CONSTANTS
  Onus,        \* the ONUs
  Services,    \* the VLANs of the OLT's serviceList, in its order
  ServicesOf,  \* the same of each ONU, which has a configuration of its own
  LLIDs,       \* the LLIDs that the OLT draws
  Hosts,       \* hosts behind the ONUs
  Servers,     \* hosts on the LAN of the OLT
  Tags         \* VLANs of the frames, and Undefined for frames without one

Keys == (Hosts \union Servers) \X (LLIDs \union Stray \union Tags \union {Undefined})

VARIABLES
  onutbl,    \* the LLIDs of each ONU in the ONU table
  table,     \* addresstable of the OLT's relay
  place,     \* the ONU of each host
  out,       \* what the last frame from the LAN led to
  seen,      \* history: ticks since the relay last saw a key, up to AgingTime
  used       \* history: the VLANs each host has used from where it is

vars == <<onutbl, table, place, out, seen, used>>

NoFrame == [dst |-> Undefined, tag |-> Undefined, sent |-> {}]

Init ==
  /\ onutbl = [o \in {} |-> <<>>]
  /\ table = EmptyTable
  /\ place \in [Hosts -> Onus]
  /\ out = NoFrame
  /\ seen = [k \in Keys |-> AgingTime]
  /\ used = [h \in Hosts |-> {}]

\* An ONU asks for an LLID per service of its list and a default one, and the
\* OLT draws them, all different for one ONU.
Draws(o) ==
  {l \in [1 .. Len(ServicesOf[o]) + 1 -> LLIDs] : \A i, j \in DOMAIN l : l[i] = l[j] => i = j}

\* An ONU enters the ONU table.
Register ==
  /\ \E o \in Onus \ DOMAIN onutbl : \E l \in Draws(o) : onutbl' = onutbl @@ (o :> l)
  /\ out' = NoFrame
  /\ UNCHANGED <<table, place, seen, used>>

\* The link on which a frame of a host reaches the OLT.
UpLink(h, tag) == MacLink(OnuLink(ServicesOf[place[h]], onutbl[place[h]], tag))

\* The key that a frame of a host leaves in the table.
Learned(h, tag) ==
  <<h, IF UpLink(h, tag) = Broadcast THEN Undefined ELSE UpLink(h, tag)>>

\* A host sends a frame, which arrives at the OLT.
FromPON ==
  /\ \E src \in Hosts, tag \in Tags :
       /\ place[src] \in DOMAIN onutbl
       /\ table' \in LearnFromPON(table, src, UpLink(src, tag))
       /\ seen' = [seen EXCEPT ![Learned(src, tag)] = 0]
       /\ used' = [used EXCEPT ![src] = @ \union {tag}]
  /\ out' = NoFrame
  /\ UNCHANGED <<onutbl, place>>

FromLAN ==
  \E src \in Servers, dst \in Hosts, tag \in Tags :
    /\ \E r \in OltVlanFromLAN(Services, table, onutbl, src, tag, dst) :
         /\ table' = r.table
         /\ out' = [dst |-> dst, tag |-> tag, sent |-> r.sent]
    /\ seen' = [seen EXCEPT ![<<src, tag>>] = 0]
    /\ UNCHANGED <<onutbl, place, used>>

Move ==
  /\ \E h \in Hosts : \E o \in Onus \ {place[h]} :
       /\ place' = [place EXCEPT ![h] = o]
       /\ used' = [used EXCEPT ![h] = {}]
  /\ out' = NoFrame
  /\ UNCHANGED <<onutbl, table, seen>>

Tick ==
  /\ table' = GrowOlder(table)
  /\ seen' = [k \in Keys |-> Older(seen[k])]
  /\ out' = NoFrame
  /\ UNCHANGED <<onutbl, place, used>>

Next == Register \/ FromPON \/ FromLAN \/ Move \/ Tick

Spec == Init /\ [][Next]_vars

-----------------------------------------------------------------------------
(* Properties *)

(***************************************************************************)
(* The two ends agree on the link of a VLAN, although each finds it by     *)
(* position in lists of its own.  Take a VLAN that a host has used from    *)
(* where it is, at the same position of both services lists, with the key  *)
(* it left among the addressTableSize used last and within the aging time. *)
(* A frame with that VLAN reaches the host on the LLID at that position,   *)
(* whichever LLIDs were drawn for the ONUs, unless that LLID is 0, which   *)
(* the ONU takes for none: then the OLT never sends to it on that link     *)
(* (findLLiDForVlan at the ONU, findLLiDsForServiceIndex at the OLT).      *)
(***************************************************************************)
Kept(k) ==
  /\ seen[k] < AgingTime
  /\ TableSize = 0 \/ Cardinality({j \in Keys : seen[j] <= seen[k]}) <= TableSize
Agreed(o, vlan) ==
  /\ ServiceIndex(Services, vlan) # -1
  /\ ServiceIndex(Services, vlan) = ServiceIndex(ServicesOf[o], vlan)
LinkOf(o, vlan) == onutbl[o][ServiceIndex(Services, vlan) + 1]
BridgeReaches ==
  (out # NoFrame /\ out.tag \in used[out.dst] /\ Agreed(place[out.dst], out.tag)) =>
    LET link == LinkOf(place[out.dst], out.tag)
    IN  IF link = 0 THEN <<"toPONout", 0>> \notin out.sent
        ELSE Kept(Learned(out.dst, out.tag)) => <<"toPONout", link>> \in out.sent

(***************************************************************************)
(* VLANs stay apart: a frame with a VLAN goes only where the destination   *)
(* has been seen within the aging time, even if the LLID was read outside  *)
(* the list of an ONU; and if no list was, only on links at the position   *)
(* of its service (handleFromLAN and findLLiDsForServiceIndex of the OLT). *)
(***************************************************************************)
BridgeIsolates ==
  (out # NoFrame /\ out.tag # Undefined) =>
    LET index == ServiceIndex(Services, out.tag)
        read == {o \in DOMAIN onutbl : Len(onutbl[o]) >= index}
    IN  \A s \in out.sent :
          /\ seen[<<out.dst, s[2]>>] < AgingTime
          /\ (\E o \in read : OutOfBounds(onutbl[o], index))
               \/ (\E o \in read : s[2] = onutbl[o][index + 1])
=============================================================================
