SPECIFICATION Spec
CONSTANTS
  MaxConnects = 2
  MaxEndpoints = 1
  MaxIdle = 2
INVARIANTS SupervisedAlways
CHECK_DEADLOCK FALSE
