CONSTANTS
  People = {p1, p2}
  Last = 4
  Seats = 1
SPECIFICATION Spec
SYMMETRY Symmetry
CHECK_DEADLOCK FALSE
INVARIANTS
  RidesAreExact
  CapacityIsExact
  AlarmsAreExact
