CONSTANTS
  Devices = {"timer"}
  NoIntr = NoIntr
  Nobody = Nobody
  NSectors = 3
  NSlots = 2
  NWords = 2
  WritebackTicks = 1
SPECIFICATION FairSpec
INVARIANTS TypeOK NoAssertionFails SectorsWhole NoStoredWordLost
PROPERTY CallsEnd
CHECK_DEADLOCK FALSE
