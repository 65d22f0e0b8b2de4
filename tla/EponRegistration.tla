-------------------------- MODULE EponRegistration --------------------------
(***************************************************************************)
(* MPCP registration between the OLT (OLTQPerLLiDBase, ONUTable) and its   *)
(* ONUs (ONUQPerLLiDBase), and the distribution of the slots computed by   *)
(* DoUpstreamDBA.                                                          *)
(*                                                                         *)
(* A REGREQ or REGACK is delivered by sendDirect, with no delay and in     *)
(* order: up is one queue.  Everything the OLT sends goes through one FIFO *)
(* (OLTMacCtl) to all ONUs, which are at different distances and discard   *)
(* what is not addressed to them (ONUMacCtlBase::processFrameFromMAC):     *)
(* down keeps one queue per ONU.                                           *)
(*                                                                         *)
(* Self-messages are named by what they belong to.  The OLT's timer of a   *)
(* request is named by the ONU that made it: the registration GATE is sent *)
(* once, in initialize, so an ONU makes one request.  All the timers of    *)
(* the OLT run for the same time (regAckTimeOut), so they expire in the    *)
(* order in which they were set; oltTimers holds them in that order.       *)
(***************************************************************************)
EXTENDS UpstreamDBA, FiniteSets, SequencesExt

CONSTANTS
  ONU,        \* the ONUs (their MAC addresses)
  LLID,       \* the values intrand(4095) may return
  NumLLIDs,   \* numOfLLIDs of each ONU: its services and the default queue
  SrvPrior,   \* priorities of the configured services, highest first
  OLT,        \* the owner of the broadcast queue
  BC          \* LLID_EPON_BC

(***************************************************************************)
(* Priorities are scaled by 10000: the broadcast queue has 0.0, the        *)
(* default queue 0.0001.                                                   *)
(***************************************************************************)
BCPrior == 0
DefaultPrior == 1

ASSUME RegistrationParameters ==
  /\ IsFiniteSet(LLID)
  /\ OLT \notin ONU
  /\ BC \notin LLID
  /\ NumLLIDs \in [ONU -> 1 .. Cardinality(LLID)]
  /\ SrvPrior \in Seq(Nat)

VARIABLES
  temptbl,      \* requests waiting for their REGACK: <<[id, llids], ...>>
  pendingAck,   \* the timer of each of them, at the same index
  oltTimers,    \* the OLT's scheduled OnuTOMsg timers, next to expire first
  onutbl,       \* the ONU table: <<[id, llids, start, length], ...>>
  oltQueues,    \* pon_queues of the OLT: <<[mac, llid, prior], ...>>
  regSend,      \* ONUs whose regSendMsg is scheduled
  regTO,        \* ONUs whose regTOMsg is scheduled
  onuQueues,    \* pon_queues of each ONU: <<[llid, prior], ...>>
  grant,        \* start_reg and len_reg of each ONU, as the last GATE set them
  down,         \* frames on their way to each ONU
  up            \* frames on their way to the OLT

oltVars == <<temptbl, pendingAck, oltTimers, onutbl, oltQueues>>
onuVars == <<regSend, regTO, onuQueues, grant>>
vars == <<temptbl, pendingAck, oltTimers, onutbl, oltQueues,
          regSend, regTO, onuQueues, grant, down, up>>

-----------------------------------------------------------------------------
(* Frames *)

RegGate == [op |-> "REGGATE", start |-> 0, length |-> RegTimeInt]
Gate(e) == [op |-> "GATE", start |-> e.start, length |-> e.length]
Register(ids) == [op |-> "REGISTER", llids |-> ids]
RegReq(o) == [op |-> "REGREQ", src |-> o, num |-> NumLLIDs[o]]
RegAck(o) == [op |-> "REGACK", src |-> o]

-----------------------------------------------------------------------------
(* Queues *)

(***************************************************************************)
(* Insert a queue before the first one of strictly lower priority, or at   *)
(* the end (addSortedMacLLID, and addSortedLLID in the ONU).               *)
(***************************************************************************)
AddSorted(qs, q) ==
  LET lower == {i \in 1 .. Len(qs) : qs[i].prior < q.prior}
  IN  IF lower = {} THEN Append(qs, q)
      ELSE InsertAt(qs, CHOOSE i \in lower : \A j \in lower : i <= j, q)

(***************************************************************************)
(* The priority of the queue of the j-th of n LLIDs: the last one is the   *)
(* default queue, the others take the priority of their service.           *)
(***************************************************************************)
PriorOf(j, n) ==
  IF j = n THEN DefaultPrior
  ELSE IF j <= Len(SrvPrior) THEN SrvPrior[j] ELSE 0

\* Mutant: the loop stops before the default LLID.
CreateOltQueuesShort(qs, e) ==
  LET n == Len(e.llids)
      added[j \in 0 .. n - 1] ==
        IF j = 0 THEN qs
        ELSE AddSorted(added[j-1], [mac   |-> e.id,
                                    llid  |-> e.llids[j],
                                    prior |-> PriorOf(j, n)])
  IN  added[n-1]

\* The OLT's queues after those of a new entry have been added.
CreateOltQueues(qs, e) ==
  LET n == Len(e.llids)
      added[j \in 0 .. n] ==
        IF j = 0 THEN qs
        ELSE AddSorted(added[j-1], [mac   |-> e.id,
                                    llid  |-> e.llids[j],
                                    prior |-> PriorOf(j, n)])
  IN  added[n]

\* Mutant: the queues of the REGISTER replace one another.
CreateOnuQueuesLast(qs, ids) ==
  AddSorted(qs, [llid |-> Last(ids), prior |-> DefaultPrior])

\* An ONU's queues after those of the LLIDs of a REGISTER have been added.
CreateOnuQueues(qs, ids) ==
  LET n == Len(ids)
      added[j \in 0 .. n] ==
        IF j = 0 THEN qs
        ELSE AddSorted(added[j-1], [llid  |-> ids[j],
                                    prior |-> PriorOf(j, n)])
  IN  added[n]

-----------------------------------------------------------------------------
(* The ONU table *)

\* Positions of an ONU in a table; the code uses the first.
Positions(tbl, o) == {i \in 1 .. Len(tbl) : tbl[i].id = o}
FirstOf(S) == CHOOSE i \in S : \A j \in S : i <= j

\* ONUTable::addONU: an entry of the same ONU is replaced.
AddONU(tbl, e) ==
  LET pos == Positions(tbl, e.id)
  IN  IF pos = {} THEN Append(tbl, e)
      ELSE [tbl EXCEPT ![FirstOf(pos)] = e]

\* Mutant: the loop stops at index 1.
SendGateUpdatesShort(dn, tbl) ==
  [o \in ONU |->
     LET pos == Positions(tbl, o) \ {1}
     IN  IF pos = {} THEN dn[o] ELSE Append(dn[o], Gate(tbl[FirstOf(pos)]))]

\* What SendGateUpdates sends to each ONU: one GATE per entry of the table,
\* from the last entry to the first.
SendGateUpdates(dn, tbl) ==
  [o \in ONU |->
     LET pos == Positions(tbl, o)
     IN  IF pos = {} THEN dn[o] ELSE Append(dn[o], Gate(tbl[FirstOf(pos)]))]

-----------------------------------------------------------------------------
(* Both modules have been initialised and the OLT has broadcast the GATE   *)
(* that opens the registration window (sendMPCPGateReg).                   *)

Init ==
  /\ temptbl = <<>>
  /\ pendingAck = <<>>
  /\ oltTimers = <<>>
  /\ onutbl = <<>>
  /\ oltQueues = <<[mac |-> OLT, llid |-> BC, prior |-> BCPrior]>>
  /\ regSend = {}
  /\ regTO = {}
  /\ onuQueues = [o \in ONU |-> <<[llid |-> BC, prior |-> BCPrior]>>]
  /\ grant = [o \in ONU |-> [start |-> 0, length |-> 0]]
  /\ down = [o \in ONU |-> <<RegGate>>]
  /\ up = <<>>

-----------------------------------------------------------------------------
(* The OLT *)

UpArrives(op) == up # <<>> /\ Head(up).op = op

\* The LLIDs of a new entry: distinct within the entry, and nothing more
\* (ONUTableEntry::addLLID refuses only a value the entry already has).
LLIDChoices(n) == {ids \in [1 .. n -> LLID] : IsInjective(ids)}

(***************************************************************************)
(* A REGREQ: note the request with random LLIDs, answer with a REGISTER    *)
(* and set the timer of the acknowledgment.  processFrameFromHigherLayer   *)
(* passes the REGISTER straight down, as allQsEmpty holds.                 *)
(***************************************************************************)
OltRegReq ==
  /\ UpArrives("REGREQ")
  /\ LET o == Head(up).src
     IN  \E ids \in LLIDChoices(Head(up).num) :
           /\ temptbl' = Append(temptbl, [id |-> o, llids |-> ids])
           /\ pendingAck' = Append(pendingAck, o)
           /\ oltTimers' = Append(oltTimers, o)
           /\ down' = [down EXCEPT ![o] = Append(@, Register(ids))]
  /\ up' = Tail(up)
  /\ UNCHANGED <<onutbl, oltQueues, onuVars>>

\* cancelEvent: the timer is scheduled no more.
Cancel(timers, t) ==
  LET pos == {k \in 1 .. Len(timers) : timers[k] = t}
  IN  IF pos = {} THEN timers ELSE RemoveAt(timers, FirstOf(pos))

(***************************************************************************)
(* A REGACK of a pending request: cancel its timer, move the entry to the  *)
(* ONU table, create its queues, divide the super slot again and announce  *)
(* the new times to every ONU of the table (doOnuRegistration).            *)
(***************************************************************************)
OltRegAck ==
  /\ UpArrives("REGACK")
  /\ LET pos == Positions(temptbl, Head(up).src)
         i == FirstOf(pos)
         e == [id |-> temptbl[i].id, llids |-> temptbl[i].llids,
               start |-> 0, length |-> 0]
     IN  /\ pos # {}
         /\ oltTimers' = Cancel(oltTimers, pendingAck[i])
         /\ pendingAck' = RemoveAt(pendingAck, i)
         /\ temptbl' = RemoveAt(temptbl, i)
         /\ oltQueues' = CreateOltQueues(oltQueues, e)
         /\ onutbl' = DoUpstreamDBA(AddONU(onutbl, e), Len(oltQueues') - 1)
         /\ down' = SendGateUpdates(down, onutbl')
  /\ up' = Tail(up)
  /\ UNCHANGED onuVars

\* A REGACK whose request has timed out is ignored.
OltLateRegAck ==
  /\ UpArrives("REGACK")
  /\ Positions(temptbl, Head(up).src) = {}
  /\ up' = Tail(up)
  /\ UNCHANGED <<oltVars, onuVars, down>>

\* Mutant: the timer goes, its entry stays.
OltRegTimeOutKeeps ==
  /\ oltTimers # <<>>
  /\ oltTimers' = Tail(oltTimers)
  /\ pendingAck' = Cancel(pendingAck, Head(oltTimers))
  /\ UNCHANGED <<temptbl, onutbl, oltQueues, onuVars, down, up>>

(***************************************************************************)
(* The timer of a request expires: the timer is looked up in pendingAck    *)
(* and the entry at the same index of temptbl is dropped.                  *)
(***************************************************************************)
OltRegTimeOut ==
  /\ oltTimers # <<>>
  /\ oltTimers' = Tail(oltTimers)
  /\ LET pos == {i \in 1 .. Len(pendingAck) : pendingAck[i] = Head(oltTimers)}
     IN  IF pos = {}
         THEN UNCHANGED <<pendingAck, temptbl>>
         ELSE /\ pendingAck' = RemoveAt(pendingAck, FirstOf(pos))
              /\ temptbl' = RemoveAt(temptbl, FirstOf(pos))
  /\ UNCHANGED <<onutbl, oltQueues, onuVars, down, up>>

-----------------------------------------------------------------------------
(* The ONUs *)

DownArrives(o, op) == down[o] # <<>> /\ Head(down[o]).op = op
Received(o) == down' = [down EXCEPT ![o] = Tail(@)]

\* The GATE that opens the registration window: the MAC control takes it as
\* a grant, and the queue module schedules the request after a random time.
OnuRegGate(o) ==
  /\ DownArrives(o, "REGGATE")
  /\ Received(o)
  /\ grant' = [grant EXCEPT ![o] = [start  |-> Head(down[o]).start,
                                    length |-> Head(down[o]).length]]
  /\ regSend' = regSend \union {o}
  /\ UNCHANGED <<oltVars, regTO, onuQueues, up>>

\* The random back-off is over: send the REGREQ and set its timer.
OnuSendRegReq(o) ==
  /\ o \in regSend
  /\ regSend' = regSend \ {o}
  /\ regTO' = regTO \union {o}
  /\ up' = Append(up, RegReq(o))
  /\ UNCHANGED <<oltVars, onuQueues, grant, down>>

\* A REGISTER: stop the timer, create a queue per LLID, acknowledge.
OnuRegister(o) ==
  /\ DownArrives(o, "REGISTER")
  /\ Received(o)
  /\ regTO' = regTO \ {o}
  /\ onuQueues' = [onuQueues EXCEPT ![o] = CreateOnuQueues(@, Head(down[o]).llids)]
  /\ up' = Append(up, RegAck(o))
  /\ UNCHANGED <<oltVars, regSend, grant>>

\* Mutant: only the first grant is taken.
OnuGateOnce(o) ==
  /\ DownArrives(o, "GATE")
  /\ Received(o)
  /\ grant' = IF grant[o].start # 0 THEN grant
              ELSE [grant EXCEPT ![o] = [start  |-> Head(down[o]).start,
                                         length |-> Head(down[o]).length]]
  /\ UNCHANGED <<oltVars, regSend, regTO, onuQueues, up>>

\* A GATE for this ONU: the MAC control takes the new grant.
OnuGate(o) ==
  /\ DownArrives(o, "GATE")
  /\ Received(o)
  /\ grant' = [grant EXCEPT ![o] = [start  |-> Head(down[o]).start,
                                    length |-> Head(down[o]).length]]
  /\ UNCHANGED <<oltVars, regSend, regTO, onuQueues, up>>

\* Mutant: the request is repeated.
OnuRegTimeOutRetry(o) ==
  /\ o \in regTO
  /\ regTO' = regTO \ {o}
  /\ regSend' = regSend \union {o}
  /\ UNCHANGED <<oltVars, onuQueues, grant, down, up>>

\* The timer of the request expires: the failure is reported, nothing else.
OnuRegTimeOut(o) ==
  /\ o \in regTO
  /\ regTO' = regTO \ {o}
  /\ UNCHANGED <<oltVars, regSend, onuQueues, grant, down, up>>

-----------------------------------------------------------------------------
OltNext == OltRegReq \/ OltRegAck \/ OltLateRegAck \/ OltRegTimeOut

OnuNext(o) ==
  \/ OnuRegGate(o)
  \/ OnuSendRegReq(o)
  \/ OnuRegister(o)
  \/ OnuGate(o)
  \/ OnuRegTimeOut(o)

Next == OltNext \/ \E o \in ONU : OnuNext(o)

Spec == Init /\ [][Next]_vars

(***************************************************************************)
(* The simulation kernel executes the scheduled events one by one: as long *)
(* as a frame is on its way or a timer runs, something happens.            *)
(***************************************************************************)
Fairness == WF_vars(Next)

FairSpec == Spec /\ Fairness

-----------------------------------------------------------------------------
(* Properties *)

Priority == Nat
LLIDs == Seq(LLID) \ {<<>>}
Request == [id : ONU, llids : LLIDs]
Committed == [id : ONU, llids : LLIDs, start : Nat, length : Nat]
OltQueue == [mac : ONU \union {OLT}, llid : LLID \union {BC}, prior : Priority]
OnuQueue == [llid : LLID \union {BC}, prior : Priority]
DownFrame == [op : {"REGGATE", "GATE"}, start : Nat, length : Nat]
             \union [op : {"REGISTER"}, llids : LLIDs]
UpFrame == [op : {"REGREQ"}, src : ONU, num : Nat \ {0}]
           \union [op : {"REGACK"}, src : ONU]

\* The shape of the state.
TypeOK ==
  /\ temptbl \in Seq(Request)
  /\ pendingAck \in Seq(ONU)
  /\ oltTimers \in Seq(ONU)
  /\ onutbl \in Seq(Committed)
  /\ oltQueues \in Seq(OltQueue)
  /\ regSend \in SUBSET ONU
  /\ regTO \in SUBSET ONU
  /\ onuQueues \in [ONU -> Seq(OnuQueue)]
  /\ grant \in [ONU -> [start : Nat, length : Nat]]
  /\ down \in [ONU -> Seq(DownFrame)]
  /\ up \in Seq(UpFrame)

Admitted(o) == Positions(onutbl, o) # {}
Pending(o) == Positions(temptbl, o) # {}
EntryOf(tbl, o) == tbl[FirstOf(Positions(tbl, o))]

(***************************************************************************)
(* temptbl and pendingAck are two vectors indexed in parallel and erased   *)
(* in two different handlers: at every index the timer is the one of the   *)
(* request, it is scheduled, and no other timer is.                        *)
(***************************************************************************)
PendingAligned ==
  /\ Len(pendingAck) = Len(temptbl)
  /\ \A i \in 1 .. Len(temptbl) : pendingAck[i] = temptbl[i].id
  /\ oltTimers = pendingAck

(***************************************************************************)
(* An ONU is in at most one of temptbl and onutbl, once, so that the first *)
(* match the handlers take (doOnuRegistration, getEntry) is the only one.  *)
(***************************************************************************)
OneEntryPerOnu ==
  \A o \in ONU : Cardinality(Positions(temptbl, o)) + Cardinality(Positions(onutbl, o)) <= 1

(***************************************************************************)
(* The queues of the OLT are the broadcast one and one for each LLID of    *)
(* each entry of the ONU table, without repetition: DoUpstreamDBA divides  *)
(* by their number while it allocates by the LLIDs of the table.           *)
(***************************************************************************)
QueuesMatchTable ==
  LET owned == UNION {{<<e.id, l>> : l \in ToSet(e.llids)} : e \in ToSet(onutbl)}
  IN  /\ {<<q.mac, q.llid>> : q \in ToSet(oltQueues)} = owned \union {<<OLT, BC>>}
      /\ Len(oltQueues) = Cardinality(owned) + 1

(***************************************************************************)
(* However registrations follow one another, the slots of the table are    *)
(* those of one and the same division: the first starts at the end of the  *)
(* registration window, and each of the others where the one before ends.  *)
(***************************************************************************)
SlotEnd(i) == onutbl[i].start + onutbl[i].length

SlotsContiguous ==
  \A i \in 1 .. Len(onutbl) :
    onutbl[i].start = IF i = 1 THEN RegTimeInt ELSE SlotEnd(i-1)

(***************************************************************************)
(* Without a rate limit the slots end before the first slot comes round    *)
(* again, and lose to truncation less than one unit per ONU.               *)
(***************************************************************************)
SlotsFillSuperSlot ==
  LET n == Len(onutbl)
  IN  (RateBudget = 0 /\ n > 0) =>
        /\ SlotEnd(n) <= RegTimeInt + SuperSlot
        /\ SlotEnd(n) + n > RegTimeInt + SuperSlot

(***************************************************************************)
(* The newest grant an ONU of the table holds, or has on its way, is the   *)
(* one of the table: no registration leaves a stale GATE in last place.    *)
(***************************************************************************)
GrantsAnnounced ==
  \A o \in ONU : Admitted(o) =>
    LET gates == {i \in 1 .. Len(down[o]) : down[o][i].op = "GATE"}
        newest == IF gates = {} THEN grant[o] ELSE down[o][Max(gates)]
        e == EntryOf(onutbl, o)
    IN  newest.start = e.start /\ newest.length = e.length

(***************************************************************************)
(* The ONU and the OLT agree on the LLIDs: those of an admitted ONU are    *)
(* the LLIDs of its queues, and those of a pending one are in the REGISTER *)
(* on its way, or in its queues already with the REGACK on its way.        *)
(***************************************************************************)
LLIDsOf(o) == {q.llid : q \in ToSet(onuQueues[o])} \ {BC}
LLIDsAgreed ==
  \A o \in ONU :
    /\ Admitted(o) => /\ LLIDsOf(o) = ToSet(EntryOf(onutbl, o).llids)
                      /\ Len(onuQueues[o]) = NumLLIDs[o] + 1
    /\ Pending(o) =>
         LET ids == EntryOf(temptbl, o).llids
         IN  \/ Contains(down[o], Register(ids)) /\ LLIDsOf(o) = {}
             \/ LLIDsOf(o) = ToSet(ids) /\ Contains(up, RegAck(o))

(***************************************************************************)
(* The protocol implements the admission of ONUs.  An ONU is silent until  *)
(* its REGREQ has arrived; when it is in neither table after that, its     *)
(* request has been dropped.                                               *)
(***************************************************************************)
Asking(o) ==
  \/ Contains(down[o], RegGate)
  \/ o \in regSend
  \/ Contains(up, RegReq(o))

Admission == INSTANCE OnuAdmission WITH
  status <- [o \in ONU |-> IF Admitted(o) THEN "admitted"
                           ELSE IF Pending(o) THEN "offered"
                           ELSE IF Asking(o) THEN "silent" ELSE "refused"],
  lease  <- [o \in ONU |-> IF Admitted(o) THEN EntryOf(onutbl, o).llids
                           ELSE IF Pending(o) THEN EntryOf(temptbl, o).llids
                           ELSE <<>>]

AdmissionSpec == Admission!FairSpec

(***************************************************************************)
(* In the end nothing is pending, every timer is gone, and every ONU of    *)
(* the table transmits in exactly the slot the table gives it.             *)
(***************************************************************************)
Settled ==
  /\ temptbl = <<>> /\ oltTimers = <<>> /\ regTO = {}
  /\ \A o \in ONU : Admitted(o) =>
       LET e == EntryOf(onutbl, o)
       IN  grant[o] = [start |-> e.start, length |-> e.length]
EventuallySettled == <>[]Settled
=============================================================================
