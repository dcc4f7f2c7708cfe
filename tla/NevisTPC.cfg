SPECIFICATION SpecNevis
CONSTANTS
  FEMs = 2
  MaxEvents = 2
  Counts = {2}
  wiggle_room = 1
  FrameMod = 3
  ChunkWords = 4
  Capacity = 10
  EventsPerSubrun = 1
  desyncCrash = TRUE
  
PROPERTIES  StopReturns
CHECK_DEADLOCK FALSE
