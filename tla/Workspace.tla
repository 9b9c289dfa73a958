----------------------------- MODULE Workspace -----------------------------
(***************************************************************************)
(* The pages of the browser application on one router: the station panel,  *)
(* the trip editor, the settings of the event and the CSV import.  Going   *)
(* from page to page mounts, keeps or unmounts their forms, and an answer  *)
(* that comes late may move the user.  One area is edited in a behaviour,  *)
(* the subject; the others are only visited: nothing but the address is    *)
(* shared, so edits of two areas meet in the navigation alone.             *)
(***************************************************************************)
EXTENDS StationPanel, TripEditing, EventSettings, CsvImport

CONSTANTS Tours         \* the paths visited in each area

(* A session visits the pages that the application opens by itself, and the  *)
(* addresses of stations and trips have the ids the server may give.         *)
ASSUME PathsAssumption ==
  /\ Paths \subseteq [page : STRING, id : Int]
  /\ \A s \in DOMAIN Tours : Tours[s] \subseteq Paths
  /\ {Path("benevoles", 0), Path("vs", 0), Path("trajets", 0)} \subseteq Paths
  /\ \A s \in Stations : Path("vs", s) \in Paths
  /\ \A t \in Trips : Path("trajets", t) \in Paths
  /\ \A path \in Paths : path.id > 0 =>
       /\ path.page = "vs" => path.id \in Stations
       /\ path.page = "trajets" => path.id \in Trips

VARIABLES subject

vars == <<shellVars, stationVars, tripVars, eventVars, csvVars, subject>>
-----------------------------------------------------------------------------
(* The pages need an event, App shows the wizard of the first start without  *)
(* one.  The areas that are only visited have nothing stored.                *)
Init ==
  /\ subject \in DOMAIN Tours
  /\ ShellInit /\ StationInit /\ TripInit /\ EventInit /\ CsvInit
  /\ subject # "event" => Exists(eventRow)
  /\ subject # "stations" => \A s \in Stations : stations[s] = NoName
  /\ (subject = "trips") = (trips = StoredTrips)

(* A link, a click on a marker or a row, the history of the browser.         *)
Browse(path) ==
  /\ navigate(path)
  /\ StationsFollow /\ TripsFollow /\ EventFollows /\ CsvFollows

EditStations == subject = "stations" /\ StationNext /\ TripsFollow /\ EventFollows /\ CsvFollows
EditTrips == subject = "trips" /\ TripNext /\ StationsFollow /\ EventFollows /\ CsvFollows
EditEvent == subject = "event" /\ EventNext /\ StationsFollow /\ TripsFollow /\ CsvFollows
ImportCsv == subject = "csv" /\ CsvNext /\ StationsFollow /\ TripsFollow /\ EventFollows

Next ==
  /\ \/ \E path \in Tours[subject] : Browse(path)
     \/ EditStations \/ EditTrips \/ EditEvent \/ ImportCsv
  /\ UNCHANGED subject

Spec == Init /\ [][Next]_vars
-----------------------------------------------------------------------------
TypeOK ==
  /\ subject \in DOMAIN Tours
  /\ ShellTypeOK /\ StationTypeOK /\ TripTypeOK /\ EventTypeOK /\ CsvTypeOK
=============================================================================
