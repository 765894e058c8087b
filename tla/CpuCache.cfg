CONSTANTS
  NLines = 3
  Groups = 1
  Ways = 2
  LineSize = 2
  Byte = {b0, b1}
  Lengths = {1, 2}
  Crossing = TRUE
  Nothing = Nothing
SPECIFICATION Spec
INVARIANTS TypeOK OneCopy
PROPERTY MemorySpec
CHECK_DEADLOCK FALSE
