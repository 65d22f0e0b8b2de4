---------------------------- MODULE UpstreamDBA ----------------------------
(***************************************************************************)
(* The upstream bandwidth allocation of the OLT:                           *)
(* OLTQPerLLiDBase::DoUpstreamDBA, the division of one super slot among    *)
(* the entries of the ONU table in proportion to the LLIDs each one owns.  *)
(*                                                                         *)
(* Times are the code's ns16 units (one unit is 16 ns).  The code computes *)
(* in double precision and truncates on assignment to uint32_t; here the   *)
(* same quantities are exact and truncated by \div.  The registers cannot  *)
(* wrap: regTimeInt is an int32_t and slotNumber*slotLength a product of   *)
(* two uint16_t, so the last pointer stays below 2^31 + 2^28.              *)
(***************************************************************************)
EXTENDS Integers, Sequences

CONSTANTS
  SlotNumber,   \* slots in a super slot (parameter slotNumber)
  SlotLength,   \* length of one slot, in ns (parameter slotLength)
  RegTimeInt,   \* registration window, in ns16: the first slot starts there
  RateBudget    \* ns of a super slot that datarateLimit pays for, 0 for no limit

ASSUME DBAParameters ==
  /\ SlotNumber \in Nat \ {0}
  /\ SlotLength \in Nat \ {0}
  /\ RegTimeInt \in Nat
  /\ RateBudget \in Nat

\* Length of a super slot, in whole ns16 units.
SuperSlot == (SlotNumber * SlotLength) \div 16

CeilDiv(a, b) == (a + b - 1) \div b

\* Mutant: every share is rounded up.
GrantLengthUp(n, N) == CeilDiv(SlotNumber * SlotLength * n, 16 * N)

(***************************************************************************)
(* The length granted to an entry that owns n of the N LLIDs.  Without a   *)
(* limit it is the share of the super slot, truncated; with one it is n    *)
(* times the rounded-up share of the budget.                               *)
(***************************************************************************)
GrantLength(n, N) ==
  IF RateBudget = 0
  THEN (SlotNumber * SlotLength * n) \div (16 * N)
  ELSE n * CeilDiv(RateBudget, 16 * N)

\* Mutant: the slots are laid out downwards.
CurPointerDown(tbl, N) ==
  LET ptr[i \in 0 .. Len(tbl)] ==
        IF i = 0 THEN RegTimeInt
        ELSE ptr[i-1] - GrantLength(Len(tbl[i].llids), N)
  IN  ptr

(***************************************************************************)
(* curpointer before the loop (index 0) and after each entry of the table. *)
(***************************************************************************)
CurPointer(tbl, N) ==
  LET ptr[i \in 0 .. Len(tbl)] ==
        IF i = 0 THEN RegTimeInt
        ELSE ptr[i-1] + GrantLength(Len(tbl[i].llids), N)
  IN  ptr

\* Mutant: the pointer advances before it is assigned.
DoUpstreamDBALate(tbl, N) ==
  IF N = 0
  THEN tbl
  ELSE [i \in 1 .. Len(tbl) |->
          [tbl[i] EXCEPT !.start  = CurPointer(tbl, N)[i],
                         !.length = GrantLength(Len(tbl[i].llids), N)]]

\* Mutant: the entries that have a slot keep it.
DoUpstreamDBANew(tbl, N) ==
  IF N = 0
  THEN tbl
  ELSE [i \in 1 .. Len(tbl) |->
          IF tbl[i].length # 0 THEN tbl[i]
          ELSE [tbl[i] EXCEPT !.start  = CurPointer(tbl, N)[i-1],
                              !.length = GrantLength(Len(tbl[i].llids), N)]]

(***************************************************************************)
(* Set the committed time of every entry of the table.  N is               *)
(* numOfMACsLLIDs, the number of queues without the broadcast one.         *)
(***************************************************************************)
DoUpstreamDBA(tbl, N) ==
  IF N = 0
  THEN tbl
  ELSE [i \in 1 .. Len(tbl) |->
          [tbl[i] EXCEPT !.start  = CurPointer(tbl, N)[i-1],
                         !.length = GrantLength(Len(tbl[i].llids), N)]]
=============================================================================
