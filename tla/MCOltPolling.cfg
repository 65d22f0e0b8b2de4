\* Four ONUs that register at any time.
CONSTANTS
  MaxOnus = 4
  Guard = 2
  Window = 3
  None = None
SPECIFICATION Spec
INVARIANTS
  TypeOK
  GrantsDisjoint
  FairPolling
PROPERTY EveryOnuPolled
