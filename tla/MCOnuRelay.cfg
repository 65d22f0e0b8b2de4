\* Either relay of an ONU with three LLIDs, and a table of three.
CONSTANTS
  Local1 = Local1
  Local2 = Local2
  Remote = Remote
  NoInfo = NoInfo
  Undefined <- MCUndefined
  Broadcast <- MCBroadcast
  Garbage <- MCGarbage
  Services <- MCServices
  Stray <- MCStray
  Assigned <- MCAssigned
  Locals <- MCLocals
  Remotes <- MCRemotes
  Tags <- MCTags
  AgingTime = 2
  TableSize = 3
SPECIFICATION Spec
INVARIANTS
  TypeOK
  SendsUpstream
CHECK_DEADLOCK FALSE
