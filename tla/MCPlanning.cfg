CONSTANTS
  VS = {s1}
  Volunteers = {p1}
  Cars = {c1}
  Missions = {m1}
  Trips = {t1, t2}
  None = None
  Strays = {s9}
  MaxStops = 2
  RidingStops = {1}
  Requests = {r1, r2}
SPECIFICATION PlanningSpec
SYMMETRY Symmetry
INVARIANTS
  ReferentialIntegrity
  TripsAreWhole
  SerialRefusalsChangeNothing
  SerialForcedDeletesSucceed
PROPERTIES
  SerialUnforcedSpares
  UnforcedDeletesKeepTrips
