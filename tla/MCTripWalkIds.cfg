CONSTANTS
  People = {p1}
  Last = 4
  Seats = 1
SPECIFICATION Spec
CHECK_DEADLOCK FALSE
INVARIANT
  WarningIdsDiffer
