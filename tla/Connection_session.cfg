SPECIFICATION FairSpec
CONSTANTS
  MaxConnects = 1
  MaxEndpoints = 3
  MaxIdle = 3
INVARIANTS TypeOK Supervised StoppedClosed ShownConnected
PROPERTIES NothingHangs
CHECK_DEADLOCK FALSE
