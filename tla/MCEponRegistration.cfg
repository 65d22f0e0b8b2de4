\* Three ONUs, one with two LLIDs, and two values of LLIDs.  No symmetry:
\* there are liveness properties.
CONSTANTS
  o1 = o1  o2 = o2  o3 = o3
  l1 = l1  l2 = l2
  ONU = {o1, o2, o3}
  LLID = {l1, l2}
  OLT = OLT
  BC = BC
  NumLLIDs <- MCNumLLIDs
  SrvPrior <- MCSrvPrior
  SlotNumber = 5
  SlotLength = 48
  RegTimeInt = 4
  RateBudget = 0
SPECIFICATION FairSpec
INVARIANTS
  TypeOK
  PendingAligned
  OneEntryPerOnu
  QueuesMatchTable
  SlotsContiguous
  SlotsFillSuperSlot
  GrantsAnnounced
  LLIDsAgreed
PROPERTIES
  AdmissionSpec
  EventuallySettled
\* Registration ends: every ONU registers once.
CHECK_DEADLOCK FALSE
