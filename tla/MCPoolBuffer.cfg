SPECIFICATION Spec
CONSTANTS
  w = w
  d = d
  r1 = r1
  r2 = r2
  i1 = i1
  i2 = i2
  BlockCount = 2
  CopyWriter <- MCCopyWriter
  DirectWriter <- MCDirectWriter
  Reader <- MCReader
  Item <- MCItem
  NoItem = NoItem
  NoBlock = NoBlock
  MaxDrained = 2
INVARIANTS Inv MemoryOutlivesUse
PROPERTIES DestructorEnds ImplementsPoolQueue
CHECK_DEADLOCK FALSE
