CONSTANTS
  SIZE = 3
  Pids = {1, 2, 3}
SPECIFICATION QueueSpec
PROPERTIES
  QueueIsFifo
