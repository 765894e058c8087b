CONSTANTS
  NR_BP = 3
  NAddr = 2
  MaxSteps = 2
  NULL = NULL
SPECIFICATION Spec
INVARIANT ListsPartition
PROPERTIES Transparent NoMissedHit
CHECK_DEADLOCK FALSE
