CONSTANTS
  BUFFER_SIZE = 3
  PlainKeys = {"a"}
  MaxRead = 2
SPECIFICATION Spec
PROPERTIES
  FirstInFirstOut
  ReadTakesWhatItGives
