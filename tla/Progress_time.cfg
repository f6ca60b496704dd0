SPECIFICATION Spec
CONSTANTS
  SECOND = 2
  Totals = {5, 3601}
  Rests = {2, 4}
  MaxDelay = 2
  MaxLag = 1
  MaxLate = 2
  MaxChanges = 3
INVARIANTS TypeOK Follows ShownTime
CHECK_DEADLOCK FALSE
