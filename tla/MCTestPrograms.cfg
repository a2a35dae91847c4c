SPECIFICATION TestSpec
CONSTANTS
  MAX_PROCESSES = 6
  MAX_CHILDREN_PROCESSES = 8
  MAX_PRIORITY = 5
  Priorities = {1}
  MaxPid = 8
  MAX_SEM = 2
  FirstSemId = 10
  MAX_PROCESS_WAITING = 10
  SemIds = {1}
  InitVals = {1}
  MaxVal = 2
  TOTAL_PAIR_PROCESSES = 1
  Rounds = 2
  MAX_TEST_PROCESSES = 2
  TestRounds = 2
  MaxRefused = 2
INVARIANTS
  FinalValueIsZero
  BeliefsAreTrue
  NothingLeftBehind
