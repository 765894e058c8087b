CONSTANTS
  NProc = 3
  NSem = 1
  MaxTimeCount = 1
  KeyCodes = {"key", "shift", "capsdown", "capsup"}
  KBSize = 3
  ReadSize = 2
  Forkers = {1}
  Readers = {1, 2}
  SleepTimes = {}
  SemValues = {}
  MaxSemValue = 1
  DestroyBusy = FALSE
SPECIFICATION Spec
INVARIANT TypeOK
PROPERTIES AheadSpec TableFollowsShift
