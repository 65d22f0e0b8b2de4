\* An ONU with two queues before its clock wraps.
CONSTANTS
  QueueLimit = 1
  WakeUp = WakeUp
  None = None
  Ifg = 1
  Extra = 1
  ClockMax = 100
  SlotTime = 8
  Delay = 1
  RegWindow = 2
  Grants <- MCGrants
  Airs <- MCAirs
  NumQueues = 2
  MaxGates = 3
  MaxFrames = 3
  Horizon = 22
SPECIFICATION Spec
INVARIANTS
  TypeOK
  NoLostWakeUp
  IdleTimers
PROPERTY SendsInGrantedSlot
CHECK_DEADLOCK FALSE
