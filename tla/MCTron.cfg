CONSTANTS
  SCREEN_WIDTH = 64
  SCREEN_HEIGHT = 40
  MAX_WIDTH = 9
  MAX_HEIGHT = 6
  WORD = 16
SPECIFICATION Spec
INVARIANTS
  IndicesInBoard
  MarksAreTrails
PROPERTIES
  GameEnds
