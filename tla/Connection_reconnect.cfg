SPECIFICATION Spec
CONSTANTS
  MaxConnects = 2
  MaxEndpoints = 2
  MaxIdle = 2
INVARIANTS PingsBounded OneChainPerCall
CHECK_DEADLOCK FALSE
