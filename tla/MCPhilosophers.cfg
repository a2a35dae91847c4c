CONSTANTS
  MAX_PHYLOS = 2
  MIN_PHYLOS = 1
  MAX_PROCESS_WAITING = 2
  MaxVal = 2
  MaxRefused = 1
SPECIFICATION FairSpec
INVARIANTS
  TableIsKept
  
  DivisorIsPositive
PROPERTIES
  QuitReturns
