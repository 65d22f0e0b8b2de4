------------------------------ MODULE PonRelay ------------------------------
(***************************************************************************)
(* The relays of OLT and ONU, between the LAN and the PON: the handlers of *)
(* the default and of the VLAN bridge variants, as operators.  A result is *)
(* a record of the table after the frame, what was sent where, and whether *)
(* the scan of the table was undefined.  A frame that is sent is a pair of *)
(* a port and a link; the link NoInfo is a frame without control info.     *)
(***************************************************************************)
EXTENDS AddressTable, Sequences

CONSTANTS
  Broadcast,   \* LLID_EPON_BC
  NoInfo,      \* no EPON_LLidCtrlInfo
  Garbage      \* what the uninitialised ml.llid of handleFromLAN may hold

Result(table, sent, undefined) == [table |-> table, sent |-> sent, undefined |-> undefined]

\* handleFromPON: learn the source; the frame goes on to the LAN.
LearnFromPON(t, src, llid) ==
  Update(t, <<src, IF llid \in {Broadcast, NoInfo} THEN Undefined ELSE llid>>, "toPONout")

\* updateTableFromFrame; tag is Undefined for a frame without a VLAN.
LearnFromLAN(t, src, tag) == Update(t, <<src, tag>>, "ethOut")

(***************************************************************************)
(* What handleFromLAN of both ends begins with: learn the source, and look *)
(* for the destination on the port the frame came from.                    *)
(***************************************************************************)
Arrivals(t, src, tag, dst) ==
  {[table |-> Expire(learned, <<dst, any>>), back |-> PortFor(learned, <<dst, any>>) = "ethOut"] :
     learned \in LearnFromLAN(t, src, tag), any \in Garbage}

\* A copy for each link in order, the undefined one first, which becomes the
\* broadcast and ends the loop.
Copies(found) ==
  IF \E e \in found : e.llid = Undefined
  THEN {<<e.port, Broadcast>> : e \in {e \in found : e.llid = Undefined}}
  ELSE {<<e.port, e.llid>> : e \in found}

\* Forward to the links known for dst, or else as given.
ForwardKnown(t, dst, unknown) ==
  {Result(s.table, IF s.found = {} THEN {unknown} ELSE Copies(s.found), s.undefined) :
     s \in Scan(t, dst)}

-----------------------------------------------------------------------------
(* The default relays *)

\* Mutant: an unknown destination is not broadcast.
OltFromLANDrop(t, src, tag, dst) ==
  UNION {IF a.back THEN {Result(a.table, {}, FALSE)}
         ELSE {[r EXCEPT !.sent = IF @ = {<<"toPONout", Broadcast>>} THEN {} ELSE @] :
                 r \in ForwardKnown(a.table, dst, <<"toPONout", Broadcast>>)} :
           a \in Arrivals(t, src, tag, dst)}

\* EPON_OLT_relayDefault::handleFromLAN
OltFromLAN(t, src, tag, dst) ==
  UNION {IF a.back THEN {Result(a.table, {}, FALSE)}
         ELSE ForwardKnown(a.table, dst, <<"toPONout", Broadcast>>) :
           a \in Arrivals(t, src, tag, dst)}

\* Mutant: a frame for an unknown destination is dropped.
OnuFromLANDrop(t, llids, src, tag, dst) ==
  UNION {IF a.back \/ llids = <<>> THEN {Result(a.table, {}, FALSE)}
         ELSE IF Len(llids) = 1 THEN {Result(a.table, {<<"toPONout", llids[1]>>}, FALSE)}
         ELSE {[r EXCEPT !.sent = @ \ {<<"toPONout", NoInfo>>}] :
                 r \in ForwardKnown(a.table, dst, <<"toPONout", NoInfo>>)} :
           a \in Arrivals(t, src, tag, dst)}

\* EPON_ONU_relayDefault::handleFromLAN, for an ONU with the given LLIDs
OnuFromLAN(t, llids, src, tag, dst) ==
  UNION {IF a.back \/ llids = <<>> THEN {Result(a.table, {}, FALSE)}
         ELSE IF Len(llids) = 1 THEN {Result(a.table, {<<"toPONout", llids[1]>>}, FALSE)}
         ELSE ForwardKnown(a.table, dst, <<"toPONout", NoInfo>>) :
           a \in Arrivals(t, src, tag, dst)}
=============================================================================
