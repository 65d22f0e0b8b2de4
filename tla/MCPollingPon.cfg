\* Two ONUs, the second a tick farther away, GATEs up to three ticks late, and
\* frames of two sizes.
CONSTANTS
  QueueLimit = 1
  WakeUp = WakeUp
  None = None
  Ifg = 1
  Extra = 1
  Period = 100
  Delay = 2
  RepTime = 1
  RepLead = 2
  RepAir = 2
  Missed = 1
  HaltOn = 2
  MaxOnus = 2
  Guard = 9
  Window = 8
  Ports <- MCPorts
  Dist <- MCDist
  GateDelays <- MCGateDelays
  Airs <- MCAirs
  NumQueues = 1
SPECIFICATION Spec
INVARIANTS
  TypeOK
  NoCollision
  NoSchedulingError
PROPERTIES
  SendsInAnnouncedSlot
  NoFrameLost
  FramesProgress
