----------------------------- MODULE OnuQueues -----------------------------
(***************************************************************************)
(* The upstream queues of an ONU with more than one LLID: one queue per    *)
(* LLID, filled by ONUQPerLLiDBase::processFrameFromHigherLayer and        *)
(* served in turn (allQsBlocked is never set under round robin).           *)
(***************************************************************************)
EXTENDS RoundRobin

CONSTANTS
  QueueLimit,   \* queueLimit, the length at which a queue drops
  WakeUp        \* the WAKE UP message

(***************************************************************************)
(* A frame for the i-th queue.  The MAC control is woken when the queues   *)
(* were empty, before the frame is added or dropped.                       *)
(***************************************************************************)
EnqueueFrame(q, i, f) ==
  [q EXCEPT !.allEmpty = FALSE,
            !.pon[i] = IF Len(@) >= QueueLimit THEN @ ELSE Append(@, f)]

WakeUpFor(q) == IF q.allEmpty THEN <<WakeUp>> ELSE <<>>
=============================================================================
