SPECIFICATION Spec
CONSTANTS
  WordCapacity = 2
  MaxWordsPerFrag = 2
  FragCapacity = 1
  GroupSize = 2
  CounterRange = 8
  MaxWords = 3
  MaxRuns = 2
INVARIANTS Inv
PROPERTIES StopReturns ReceiverProceeds ErrorEndsRun
CHECK_DEADLOCK FALSE
