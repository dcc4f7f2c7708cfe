SPECIFICATION Spec
CONSTANTS
  Boards = 2
  MaxFaults = 1
  HVOn = {1}
  Capacity = 2
  WindowHits = 2
  MaxHits = 3
  MaxRuns = 1
INVARIANTS Inv 
CHECK_DEADLOCK FALSE
