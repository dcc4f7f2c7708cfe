SPECIFICATION Spec1740
CONSTANTS
  PoolBlocks = 2
  EventMask = 19
  BoardBuffers = 2
  MaxGap = 2
  FirstTrigger = 17
  LastTrigger = 22
  TriggerPeriod = 3
  Second = 10
  TimeTagShift = 1
  MaxStopAttempts = 0
INVARIANTS Inv1740
PROPERTIES FragmentsTrue1740 FailureReported EventsDelivered
CHECK_DEADLOCK FALSE
