\* Two ONUs and frames of which two fill a slot.
CONSTANTS
  QueueLimit = 1
  WakeUp = WakeUp
  None = None
  Ifg = 1
  Extra = 1
  ClockMax = 100
  Delay = 1
  NumQueues = 1
  HaltOn = 2
  SlotNumber = 2
  SlotLength = 128
  SlotTime = 16
  RegTimeInt = 2
  Ports <- MCPorts
  Owned <- MCOwned
  Airs <- MCAirsTwo
  Horizon = 36
SPECIFICATION Spec
INVARIANT NoCollision
CHECK_DEADLOCK FALSE
