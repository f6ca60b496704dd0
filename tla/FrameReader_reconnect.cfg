SPECIFICATION Spec
CONSTANTS
  ReadMax = 3
  MaxBytes = 6
  MaxDrops = 1
  BracesInStrings = FALSE
INVARIANTS EveryResponseFramed
CHECK_DEADLOCK FALSE
