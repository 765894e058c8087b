CONSTANTS
  NR_BP = 2
  NAddr = 2
  MaxSteps = 1
  NULL = NULL
SPECIFICATION Spec
PROPERTY RestoresOriginal
CHECK_DEADLOCK FALSE
