CONSTANTS
  Devices = {"timer", "audio"}
  NoIntr = NoIntr
  Nobody = Nobody
  MaxLen = 2
SPECIFICATION FairSpec
INVARIANTS TypeOK NoAssertionFails OneRequest CopyUndisturbed
PROPERTY MusicGoesOn
CHECK_DEADLOCK FALSE
