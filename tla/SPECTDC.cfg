SPECIFICATION Spec
CONSTANTS
  ChannelCount = 2
  PoolBlocks = 2
  Timeout = 3
  MaxTime = 5
  MaxSamples = 4
  MaxRuns = 2
INVARIANTS Inv
PROPERTIES ExpiredLeaves TimeOrdered
CHECK_DEADLOCK FALSE
