CONSTANTS
  None = None
  Unread = Unread
  NoSeek = NoSeek
  s1 = s1
  s2 = s2
  s3 = s3
  c1 = c1
  c2 = c2
  v1 = v1
  v2 = v2
  m1 = m1
  m2 = m2
  t1 = t1
  t2 = t2
  Stations = {s1, s2, s3}
  Cars = {c1, c2}
  Volunteers = {v1, v2}
  Place <- MCPlace
  Plans <- MCPlans
  Ranges <- MCRanges
  Day = 10
  Step = 4
  Horizon = 31
SPECIFICATION Spec
INVARIANTS
  CursorInWindow
  RidersMoveWithTheirCar
  RunnersBetweenTimings
  AlarmsAreMarked
PROPERTIES
  CursorReturns
