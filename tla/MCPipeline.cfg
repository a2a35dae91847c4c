CONSTANTS
  MAX_PROCESSES = 4
  MAX_CHILDREN_PROCESSES = 2
  MAX_PRIORITY = 1
  Priorities = {1}
  MaxPid = 6
  MAX_SEM = 6
  FirstSemId = 1
  MAX_PROCESS_WAITING = 4
  SemIds = {}
  InitVals = {}
  MaxVal = 5
  MAX_PIPES = 2
  PIPE_SIZE = 3
  Bytes = {a, b}
  Counts = {1, 4}
  Nothing = Nothing
  MaxRefused = 1
SPECIFICATION PipelineSpec
INVARIANTS
  PermitsMatchRing
  SleepsOnlyWhenFull
  SemaphoresAccounted
PROPERTIES
  BytesInOrder
