SPECIFICATION Spec
CONSTANTS
  BUF_NO = 2
  MaxFiles = 2
  MaxTransfers = 4
  RAWBUFSIZE = 4
  sync = 5
  rolloverThreshold = 1
  Late = 1
  MaxTime = 16
INVARIANTS  PacketsTrue
PROPERTIES DataFlows
CHECK_DEADLOCK FALSE
