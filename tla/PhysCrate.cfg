SPECIFICATION Spec
CONSTANTS
  nBoards = 2
  BoardDepth = 2
  Capacity = 3
  Events = 7
  IssueStart = TRUE
  MaxLost = 1
INVARIANTS Inv
PROPERTIES EventsConsecutive NoMutualWait
CHECK_DEADLOCK FALSE
