----------------------------- MODULE VlanRelay -----------------------------
(***************************************************************************)
(* The VLAN bridge variants of the relays: the VLAN of a frame selects the *)
(* service, and the position of the service in the list of services is the *)
(* position of the LLID in the list of an ONU.                             *)
(***************************************************************************)
EXTENDS PonRelay

CONSTANT Stray   \* what a read outside the list of an ONU's LLIDs may yield

\* findVlanServiceIndex: the first service of a VLAN in serviceList, which holds
\* the VLANs of the services, counted from 0.
ServiceIndex(services, vlan) ==
  IF \E i \in DOMAIN services : services[i] = vlan
  THEN (CHOOSE i \in DOMAIN services :
          services[i] = vlan /\ \A j \in DOMAIN services : services[j] = vlan => i <= j) - 1
  ELSE -1

\* Mutant: the position is counted from 1.
LinkForVlanNext(services, llids, vlan) ==
  LET i == ServiceIndex(services, vlan)
      llid == IF i # -1 /\ i + 1 < Len(llids) THEN llids[i + 2] ELSE Broadcast
  IN  IF llid = 0 THEN Broadcast ELSE llid

\* findLLiDForVlan of the ONU; there the LLID 0 counts as none.
LinkForVlan(services, llids, vlan) ==
  LET i == ServiceIndex(services, vlan)
      llid == IF i # -1 /\ i < Len(llids) THEN llids[i + 1] ELSE Broadcast
  IN  IF llid = 0 THEN Broadcast ELSE llid

\* The control information that the ONU attaches to a frame from the LAN: none
\* without a VLAN.
OnuLink(services, llids, tag) ==
  IF tag = Undefined THEN NoInfo ELSE LinkForVlan(services, llids, tag)

\* EPON_ONU_vlanBridgeRelay::handleFromLAN
OnuVlanFromLAN(services, t, llids, src, tag, dst) ==
  {Result(a.table, IF a.back THEN {} ELSE {<<"toPONout", OnuLink(services, llids, tag)>>}, FALSE) :
     a \in Arrivals(t, src, tag, dst)}

\* The LLID that EPON_mac writes in front of a frame: the broadcast one if it
\* comes without control information, whatever queue it has waited in.
MacLink(link) == IF link = NoInfo THEN Broadcast ELSE link

(***************************************************************************)
(* findLLiDsForServiceIndex: the LLIDs at a position, over the lists of    *)
(* the ONUs in the ONU table.  A list shorter than the position is         *)
(* skipped; in one of exactly that length, or at the position -1, the read *)
(* is out of bounds and yields anything.  The possible results.            *)
(***************************************************************************)
OutOfBounds(list, index) == index \notin 0 .. Len(list) - 1

LinksAt(lists, index) ==
  LET read == {o \in DOMAIN lists : Len(lists[o]) >= index}
      stray == {o \in read : OutOfBounds(lists[o], index)}
  IN  {{lists[o][index + 1] : o \in read \ stray} \union {found[o] : o \in stray} :
         found \in [stray -> Stray]}

\* Mutant: the frame goes to all links of the service.
OltVlanFromLANAll(services, t, lists, src, tag, dst) ==
  {Result(a.table, {<<"toPONout", l>> : l \in links}, FALSE) :
     a \in Arrivals(t, src, tag, dst), links \in LinksAt(lists, ServiceIndex(services, tag))}

(***************************************************************************)
(* EPON_OLT_vlanBridgeRelay::handleFromLAN: without a VLAN broadcast, with *)
(* one to those links of its service behind which the destination is       *)
(* known; the aged ones among them are removed.                            *)
(***************************************************************************)
ToKnownLinks(t, dst, links) ==
  LET keys == {dst} \X links
  IN  Result(Without(t, keys \intersect Aged(t)),
             {<<"toPONout", k[2]>> : k \in {j \in keys : PortFor(t, j) = "toPONout"}}, FALSE)

OltVlanFromLAN(services, t, lists, src, tag, dst) ==
  {IF a.back THEN Result(a.table, {}, FALSE)
   ELSE IF tag = Undefined THEN Result(a.table, {<<"toPONout", Broadcast>>}, FALSE)
   ELSE ToKnownLinks(a.table, dst, links) :
     a \in Arrivals(t, src, tag, dst), links \in LinksAt(lists, ServiceIndex(services, tag))}
=============================================================================
