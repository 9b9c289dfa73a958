SPECIFICATION Spec
SYMMETRY NameSymmetry
CONSTANTS
  Paths <- MCPaths
  StorageModes = {TRUE}
  Tours <- MCTours
  Stations = {1, 2}
  Names = {a, b}
  Staffed = {1}
  MaxFrames = 2
  MaxStationCalls = 1
  MaxRenames = 1
  Trips = {1, 2}
  StoredTrips <- MCStoredTrips
  StopStations = {1, 2}
  Volunteers = {1, 2}
  Seats = 1
  Legs <- MCLegs
  Needs <- MCNeeds
  MinutesPerDay = 3
  FromTime = 0
  ToTime = 1
  Tolerance = 1
  MaxStops = 3
  MaxEdits = 2
  Values = {0, 1}
  StoredEvents <- MCStoredEvents
  MaxEventCalls = 2
  MaxEventSaves = 2
  Sessions = {1, 2}
  FileRows = {1, 2, 3}
  FaultyRows = {3}
  Matches <- MCMatches
  MaxCsvCalls = 2
  MaxCsvSends = 4
INVARIANTS
  TypeOK
  FormFollowsTheAddress
  FreshFormsKeepTheirStation
  AutoTimesFollow
  ChipsTellTheTruth
  FreshEditorsSaveTheirTrip
  SettledCopyIsCurrent
  ImportedOnce
  CommitAsShown
PROPERTIES
  SettledSavesKeepTheRest
CHECK_DEADLOCK FALSE
