CONSTANTS
  NumHosts = 6
  Vlans <- McVlans
  Ifs <- McIfs
  Starts <- McStarts
  MaxHosts = 4
SPECIFICATION Spec
INVARIANTS
  TypeOK
  NoSharedAddress
  FailsOnlyFull
CHECK_DEADLOCK FALSE
