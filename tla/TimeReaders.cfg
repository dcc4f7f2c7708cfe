SPECIFICATION SpecReaders
CONSTANTS
  MaxStopAttempts = 2
  BUFFER_SIZE = 2
  MaxMessages = 4
INVARIANTS Inv StopQuiesces NoForeignStop ReadingsTrue
PROPERTIES ReadersGoOn
CHECK_DEADLOCK FALSE
