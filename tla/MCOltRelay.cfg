\* Three hosts, one of them behind one ONU or the other; a table of two.
CONSTANTS
  Mobile = Mobile
  Fixed = Fixed
  Server = Server
  Lan = Lan
  NoInfo = NoInfo
  Undefined <- MCUndefined
  Broadcast <- MCBroadcast
  Garbage <- MCGarbage
  Hosts <- MCHosts
  Places <- MCPlaces
  Tags <- MCTags
  AgingTime = 3
  TableSize = 2
SPECIFICATION Spec
INVARIANTS
  TypeOK
  Remembers
  ReachesHost
CHECK_DEADLOCK FALSE
