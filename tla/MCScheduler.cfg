CONSTANTS
  MAX_PROCESSES = 4
  MAX_CHILDREN_PROCESSES = 2
  MAX_PRIORITY = 1
  Priorities = {32}
  MaxPid = 5
SPECIFICATION FairSpec
INVARIANTS
  TypeOK
  DimCountsLive
  RunningIsReady
  PendingChildrenAreLive
  SleepersHaveChildren
  LoopsAgree
PROPERTIES
  WokenByLastChild
  IdleIsLastResort
  RoundRobin
