CONSTANTS
  MAX_PROCESSES = 5
  MAX_CHILDREN_PROCESSES = 0
  MAX_PRIORITY = 1
  Priorities = {0, 32}
  MaxPid = 6
  MAX_SEM = 2
  FirstSemId = 1
  MAX_PROCESS_WAITING = 2
  SemIds = {1}
  InitVals = {0, 1}
  MaxVal = 2
SPECIFICATION CarefulSpec
INVARIANTS
  SemTypeOK
PROPERTIES
  SleepersAreQueued
  KeepsPromise
  PostUnblocksOne
  NobodyStarves
