\* Two LLIDs, an unknown one, and the OLT's own MPCP frames.
CONSTANTS
  l1 = l1  l2 = l2
  LLID = {l1, l2}
  Unknown = Unknown
  Mpcp = Mpcp
  QueueOf <- MCQueueOf
  QueueLimit = 2
  MaxFrames = 5
SPECIFICATION Spec
INVARIANTS
  TypeOK
  IdleMeansDone
  QueuesUnused
PROPERTY ChannelSpec
\* The OLT stops when it has sent what it was given.
CHECK_DEADLOCK FALSE
