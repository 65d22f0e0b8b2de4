\* One host behind two ONUs with lists of different length, one server, a table
\* of three.
CONSTANTS
  Host = Host
  Server = Server
  Onu1 = Onu1
  Onu2 = Onu2
  L1 = L1
  L2 = L2
  Other = Other
  NoInfo = NoInfo
  Undefined <- MCUndefined
  Broadcast <- MCBroadcast
  Garbage <- MCGarbage
  Services <- MCServices
  ServicesOf <- MCServicesOf
  Stray <- MCStray
  Onus <- MCOnus
  LLIDs <- MCLLIDs
  Hosts <- MCHosts
  Servers <- MCServers
  Tags <- MCTags
  AgingTime = 1
  TableSize = 3
SPECIFICATION Spec
SYMMETRY Symmetry
INVARIANTS
  BridgeReaches
  BridgeIsolates
CHECK_DEADLOCK FALSE
