CONSTANTS
  HEAP_SIZE = 640
  Sizes = {1, 6, 24}
SPECIFICATION Spec
INVARIANTS
  BlocksTile
  OwnersMatchBlocks
  AccountingIsExact
  FindIsTheLoop
