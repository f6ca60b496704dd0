SPECIFICATION Spec
CONSTANTS
  ReadMax = 3
  MaxBytes = 6
  MaxDrops = 0
  BracesInStrings = TRUE
INVARIANTS FramesAreMessages
CHECK_DEADLOCK FALSE
