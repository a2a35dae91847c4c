CONSTANTS
  CHAR_WIDTH = 1
  CHAR_HEIGHT = 2
  width = 8
  height = 10
  Levels = {1, 2}
  BUFFER_LENGTH = 6
  MAX_PARAMETERS = 2
  Letters = {"a", " ", "&", "nul"}
  args_qty <- MCArgs
  pipeable <- MCPipeable
  MaxKeys = 6
  MaxDraws = 1
SPECIFICATION Spec
INVARIANTS
  ScreenShowsLine
  PenOnScreen
  ParsedIsTyped
  ConversionsAgree
CHECK_DEADLOCK FALSE
