\* The clock register wraps at 21 ticks.
CONSTANTS
  QueueLimit = 1
  WakeUp = WakeUp
  None = None
  Ifg = 1
  Extra = 1
  ClockMax = 21
  SlotTime = 8
  Delay = 1
  RegWindow = 2
  Grants <- MCGrants
  Airs <- MCAirs
  NumQueues = 2
  MaxGates = 3
  MaxFrames = 3
  Horizon = 22
SPECIFICATION Spec
INVARIANT NoLostWakeUp
CHECK_DEADLOCK FALSE
