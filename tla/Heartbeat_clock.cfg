SPECIFICATION FairSpec
CONSTANTS
  CONNECT_TIMEOUT = 10
  PING_INTERVAL = 25
  PING_TIMEOUT = 30
  Endpoints = 2
  MaxDelay = 2
  MaxLag = 1
INVARIANTS TypeOK SilenceNoticed AttemptsEnd OneCycle
PROPERTIES HealthyKept DeadServerLeft
CHECK_DEADLOCK FALSE
