SPECIFICATION Spec
CONSTANTS
  Trials = {1, 2, 3}
  Stations = {1, 2}
  Places = {"p", "q", "off"}
  Tracks = {"A", "B"}
  Dist <- MCDist
  Times = {6}
  Paces = {0}
  Requests = {1, 2}
  Databases0 <- MCDatabases0
  MaxCalls = 2
  MaxElsewhere = 1
  Missions = {1, 2}
  Races = {"r", "s"}
  NoRace = "none"
  MaxTaggings = 2
INVARIANTS
  TypeOK
  QuietRowsAreExact
  LiveTagsSurvive
PROPERTIES
  ChoicesOutliveRecomputes
  DraggedOrderHolds
  AddsFailOnlyOverAHole
  FreshUploadsCount
  FreshListsKeepTheRest
  FormsSaveTheirOwnTrial
CHECK_DEADLOCK FALSE
