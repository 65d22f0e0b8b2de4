------------------------------ MODULE OnuRelay ------------------------------
(***************************************************************************)
(* The relay of an ONU, default or VLAN bridge, with hosts on its LAN and  *)
(* hosts beyond the PON.  Frames from the PON bring one of the ONU's LLIDs *)
(* or the broadcast one (the queue module drops the others).               *)
(***************************************************************************)
EXTENDS VlanRelay

CONSTANTS
  Services,   \* the VLANs of serviceList, in its order
  Assigned,   \* the LLIDs that the REGISTER brings
  Locals,     \* hosts on the LAN of the ONU
  Remotes,    \* hosts beyond the PON
  Tags        \* VLANs of the frames, and Undefined for frames without one

VARIABLES
  bridge,     \* the relay is an EPON_ONU_vlanBridgeRelay (the NED file chooses)
  table,      \* addresstable
  llids,      \* llids
  out,        \* what the last frame from the LAN led to
  crashed     \* an undefined scan has ended the program

vars == <<bridge, table, llids, out, crashed>>

NoFrame == [dst |-> Undefined, sent |-> {}]
AssignedLinks == {Assigned[i] : i \in DOMAIN Assigned}

Init ==
  /\ bridge \in BOOLEAN
  /\ table = EmptyTable
  /\ llids = <<>>
  /\ out = NoFrame
  /\ crashed = FALSE

\* The REGISTER of the OLT, from the queue module.
FromPONRegister ==
  /\ llids = <<>>
  /\ llids' = llids \o Assigned
  /\ \E olt \in Remotes : table' \in LearnFromPON(table, olt, Broadcast)
  /\ out' = NoFrame
  /\ UNCHANGED <<bridge, crashed>>

FromPON ==
  /\ \E src \in Remotes, llid \in {Broadcast} \union (IF llids = <<>> THEN {} ELSE AssignedLinks) :
       table' \in LearnFromPON(table, src, llid)
  /\ out' = NoFrame
  /\ UNCHANGED <<bridge, llids, crashed>>

FromLAN ==
  /\ \E src \in Locals, dst \in Locals \union Remotes, tag \in Tags :
       /\ src # dst
       /\ \E r \in IF bridge THEN OnuVlanFromLAN(Services, table, llids, src, tag, dst)
                   ELSE OnuFromLAN(table, llids, src, tag, dst) :
            /\ table' = r.table
            /\ out' = [dst |-> dst, sent |-> r.sent]
            /\ crashed' \in IF r.undefined THEN BOOLEAN ELSE {FALSE}
  /\ UNCHANGED <<bridge, llids>>

Tick ==
  /\ table' = GrowOlder(table)
  /\ out' = NoFrame
  /\ UNCHANGED <<bridge, llids, crashed>>

Next == ~ crashed /\ (FromPONRegister \/ FromPON \/ FromLAN \/ Tick)

Spec == Init /\ [][Next]_vars

-----------------------------------------------------------------------------
(* Properties *)

\* The shape of the state.
TypeOK ==
  /\ bridge \in BOOLEAN
  /\ DOMAIN table \subseteq (Locals \X Tags) \union (Remotes \X (AssignedLinks \union {Undefined}))
  /\ \A k \in DOMAIN table :
       /\ table[k].port = (IF k[1] \in Locals THEN "ethOut" ELSE "toPONout")
       /\ table[k].age \in 0 .. AgingTime
  /\ llids \in {<<>>, Assigned}
  /\ TableSize # 0 => Cardinality(DOMAIN table) <= TableSize

(***************************************************************************)
(* Once the ONU is registered, a frame for a host beyond the PON always    *)
(* leaves in its direction, whatever the table has learned, forgotten or   *)
(* skipped, and only on links that the ONU's queues know: its LLIDs, the   *)
(* broadcast one, or none for the default queue (handleFromLAN).           *)
(***************************************************************************)
SendsUpstream ==
  (llids # <<>> /\ out.dst \in Remotes) =>
    /\ out.sent # {}
    /\ \A s \in out.sent :
         s[1] = "toPONout" /\ s[2] \in AssignedLinks \union {Broadcast, NoInfo}
=============================================================================
