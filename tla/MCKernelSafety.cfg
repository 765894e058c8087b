CONSTANTS
  NProc = 4
  NSem = 1
  MaxTimeCount = 1
  KeyCodes = {"key"}
  KBSize = 2
  ReadSize = 2
  Forkers = {1}
  Readers = {2}
  SleepTimes = {0, 1}
  SemValues = {0, 1}
  MaxSemValue = 1
  DestroyBusy = FALSE
SPECIFICATION Spec
INVARIANTS SafeInv WaitListsExact BlockedHasWaker NoWildWakeup
PROPERTIES ForkFillsDeadSlot FifoSpec
