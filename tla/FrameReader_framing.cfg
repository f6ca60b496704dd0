SPECIFICATION FairSpec
CONSTANTS
  ReadMax = 3
  MaxBytes = 7
  MaxDrops = 1
  BracesInStrings = TRUE
INVARIANTS TypeOK CleanFraming NothingStranded
PROPERTIES ImplementsChannel
CHECK_DEADLOCK FALSE
