\* The table with a hole: a READY process in a slot that is not below dim.
CONSTANTS
  MAX_PROCESSES = 4
  MAX_CHILDREN_PROCESSES = 1
  MAX_PRIORITY = 1
  Priorities = {0}
  MaxPid = 4
SPECIFICATION FairSpec
PROPERTIES
  EveryReadyProcessRuns
