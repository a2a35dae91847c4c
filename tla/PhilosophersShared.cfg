CONSTANTS
  MAX_PHYLOS = 3
  MIN_PHYLOS = 2
  MAX_PROCESS_WAITING = 2
  MaxVal = 2
  MaxRefused = 1
SPECIFICATION Spec
INVARIANTS
  MutexIsExclusive
