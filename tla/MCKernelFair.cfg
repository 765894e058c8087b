CONSTANTS
  NProc = 4
  NSem = 1
  MaxTimeCount = 2
  KeyCodes = {}
  KBSize = 2
  ReadSize = 2
  Forkers = {1, 2, 3}
  Readers = {}
  SleepTimes = {1, 2}
  SemValues = {}
  MaxSemValue = 1
  DestroyBusy = FALSE
SPECIFICATION FairSpec
INVARIANTS OneRunning FramesResumable
PROPERTIES RunnableRuns SleepersWake ForksEnd
