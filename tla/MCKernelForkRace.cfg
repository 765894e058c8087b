CONSTANTS
  NProc = 4
  NSem = 1
  MaxTimeCount = 1
  KeyCodes = {}
  KBSize = 2
  ReadSize = 2
  Forkers = {1, 2}
  Readers = {}
  SleepTimes = {}
  SemValues = {0, 1}
  MaxSemValue = 1
  DestroyBusy = FALSE
SPECIFICATION Spec
INVARIANT SemValueCountsBlocked
