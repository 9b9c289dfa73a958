-------------------------------- MODULE Schema --------------------------------
(***************************************************************************)
(* The planning tables of the event database and the statements the stores *)
(* run on them.  A table is a set of rows, a row a record of the columns    *)
(* the foreign keys and the handlers look at; names, notes, coordinates and *)
(* clock times are left out.  One action is one committed transaction, and  *)
(* its guard is what SQLite checks: foreign keys are enforced on every      *)
(* connection of the pool (store.Open puts the pragma in the DSN), so a     *)
(* statement whose parent row is missing fails, a RESTRICT key blocks a     *)
(* delete and a CASCADE or SET NULL key is applied by the delete itself.    *)
(***************************************************************************)
EXTENDS Integers

CONSTANTS
  VS, Volunteers, Cars, Missions, Trips,  \* the row ids of each table
  Strays,                                 \* station ids clients name that were never given
  None,                                   \* SQL NULL in default_driver_id
  MaxStops,                               \* bound: the longest route given
  RidingStops                             \* bound: the stops people ride from

ASSUME MaxStopsAssumption == MaxStops \in Nat /\ MaxStops >= 2
ASSUME NoneAssumption == None \notin Volunteers

VARIABLES
  vs,           \* volunteer stations: a set of ids
  volunteers,   \* [id, eligible]; eligible: can_drive = 1 and archived = 0
  cars,         \* [id, driver]; driver: default_driver_id, perhaps None
  missions,     \* [id, vs]
  assignments,  \* [mission, volunteer]: the UNIQUE pair
  trips,        \* [id, driver, car]
  stops,        \* trip_stops: [trip, seq, vs]
  passengers,   \* trip_stop_passengers: [trip, seq, volunteer]
  issued        \* ids handed out so far: AUTOINCREMENT never reuses one

tables == <<vs, volunteers, cars, missions, assignments, trips, stops,
            passengers, issued>>

Ids(rows) == {x.id : x \in rows}
IdSpace == VS \cup Volunteers \cup Cars \cup Missions \cup Trips

(* What a client sends for a trip: a route of at least two stops, and who   *)
(* gets in or out at which stop of it.                                      *)
Routes == UNION {[0 .. n - 1 -> VS \cup Strays] : n \in 2 .. MaxStops}
TripRow(t, d, c) == [id |-> t, driver |-> d, car |-> c]
(* Mutant: a loop that skips the first stop.                                 *)
StopRowsButFirst(t, route) ==
  {[trip |-> t, seq |-> i, vs |-> route[i]] : i \in DOMAIN route \ {0}}
StopRows(t, route) ==
  {[trip |-> t, seq |-> i, vs |-> route[i]] : i \in DOMAIN route}
PassengerRows(t, riders) ==
  {[trip |-> t, seq |-> x[1], volunteer |-> x[2]] : x \in riders}
Riders(route) == ((DOMAIN route) \cap RidingStops) \X Volunteers

-------------------------------------------------------------------------------
(* The parents a new or rewritten row names must exist.                     *)
DriverKey(d) == d = None \/ d \in Ids(volunteers)
TripKeys(d, c, route, riders) ==
  /\ d \in Ids(volunteers)
  /\ c \in Ids(cars)
  /\ \A i \in DOMAIN route : route[i] \in vs
  /\ \A x \in riders : x[2] \in Ids(volunteers)

(* The children that stand in the way of a delete (ON DELETE RESTRICT).     *)
VSRestricted(v) == \E s \in stops : s.vs = v
VolunteerRestricted(p) == \E t \in trips : t.driver = p
CarRestricted(c) == \E t \in trips : t.car = c

TripsAt(v) == {s.trip : s \in {x \in stops : x.vs = v}}
TripsOf(d) == Ids({t \in trips : t.driver = d})
TripsIn(c) == Ids({t \in trips : t.car = c})
MissionsAt(v) == Ids({m \in missions : m.vs = v})
AssignmentsAt(v) == {a \in assignments : a.mission \in MissionsAt(v)}

-------------------------------------------------------------------------------
Init ==
  /\ vs = {} /\ volunteers = {} /\ cars = {} /\ missions = {}
  /\ assignments = {} /\ trips = {} /\ stops = {} /\ passengers = {}
  /\ issued = {}

Issue(id) == id \notin issued /\ issued' = issued \cup {id}

InsertVS(v) ==
  /\ Issue(v)
  /\ vs' = vs \cup {v}
  /\ UNCHANGED <<volunteers, cars, missions, assignments, trips, stops,
                 passengers>>

InsertVolunteer(p, eligible) ==
  /\ Issue(p)
  /\ volunteers' = volunteers \cup {[id |-> p, eligible |-> eligible]}
  /\ UNCHANGED <<vs, cars, missions, assignments, trips, stops, passengers>>

UpdateVolunteer(p, eligible) ==
  /\ p \in Ids(volunteers)
  /\ volunteers' = {x \in volunteers : x.id # p}
                     \cup {[id |-> p, eligible |-> eligible]}
  /\ UNCHANGED <<vs, cars, missions, assignments, trips, stops, passengers,
                 issued>>

InsertCar(c, d) ==
  /\ DriverKey(d)
  /\ Issue(c)
  /\ cars' = cars \cup {[id |-> c, driver |-> d]}
  /\ UNCHANGED <<vs, volunteers, missions, assignments, trips, stops,
                 passengers>>

UpdateCar(c, d) ==
  /\ DriverKey(d)
  /\ c \in Ids(cars)
  /\ cars' = {x \in cars : x.id # c} \cup {[id |-> c, driver |-> d]}
  /\ UNCHANGED <<vs, volunteers, missions, assignments, trips, stops,
                 passengers, issued>>

InsertMission(m, v) ==
  /\ v \in vs
  /\ Issue(m)
  /\ missions' = missions \cup {[id |-> m, vs |-> v]}
  /\ UNCHANGED <<vs, volunteers, cars, assignments, trips, stops, passengers>>

(* Mutant: assignments.mission_id without ON DELETE CASCADE.                 *)
DeleteMissionAlone(m) ==
  /\ m \in Ids(missions)
  /\ missions' = {x \in missions : x.id # m}
  /\ UNCHANGED <<vs, volunteers, cars, assignments, trips, stops, passengers,
                 issued>>
(* Deleting a mission cascades to its assignments.                          *)
DeleteMission(m) ==
  /\ m \in Ids(missions)
  /\ missions' = {x \in missions : x.id # m}
  /\ assignments' = {a \in assignments : a.mission # m}
  /\ UNCHANGED <<vs, volunteers, cars, trips, stops, passengers, issued>>

InsertAssignment(a) ==
  /\ a.mission \in Ids(missions)
  /\ a.volunteer \in Ids(volunteers)
  /\ a \notin assignments
  /\ assignments' = assignments \cup {a}
  /\ UNCHANGED <<vs, volunteers, cars, missions, trips, stops, passengers,
                 issued>>

DeleteAssignment(a) ==
  /\ a \in assignments
  /\ assignments' = assignments \ {a}
  /\ UNCHANGED <<vs, volunteers, cars, missions, trips, stops, passengers,
                 issued>>

(* A trip is written with its stops and passengers in one transaction.      *)
InsertTrip(t, d, c, route, riders) ==
  /\ TripKeys(d, c, route, riders)
  /\ Issue(t)
  /\ trips' = trips \cup {TripRow(t, d, c)}
  /\ stops' = stops \cup StopRows(t, route)
  /\ passengers' = passengers \cup PassengerRows(t, riders)
  /\ UNCHANGED <<vs, volunteers, cars, missions, assignments>>

(* Mutant: the old stops are not deleted before the new ones are written.    *)
ReplaceTripOverStops(t, d, c, route, riders) ==
  /\ TripKeys(d, c, route, riders)
  /\ t \in Ids(trips)
  /\ trips' = {x \in trips : x.id # t} \cup {TripRow(t, d, c)}
  /\ stops' = stops \cup StopRows(t, route)
  /\ passengers' = passengers \cup PassengerRows(t, riders)
  /\ UNCHANGED <<vs, volunteers, cars, missions, assignments, issued>>

(* Replacing a trip updates the row, deletes its stops (their passengers    *)
(* cascade) and writes the new ones, in one transaction.                    *)
ReplaceTrip(t, d, c, route, riders) ==
  /\ TripKeys(d, c, route, riders)
  /\ t \in Ids(trips)
  /\ trips' = {x \in trips : x.id # t} \cup {TripRow(t, d, c)}
  /\ stops' = {s \in stops : s.trip # t} \cup StopRows(t, route)
  /\ passengers' = {p \in passengers : p.trip # t} \cup PassengerRows(t, riders)
  /\ UNCHANGED <<vs, volunteers, cars, missions, assignments, issued>>

(* Deleting trips cascades to their stops and to the passengers of those.   *)
DeleteTrips(gone) ==
  /\ trips' = {t \in trips : t.id \notin gone}
  /\ stops' = {s \in stops : s.trip \notin gone}
  /\ passengers' = {p \in passengers : p.trip \notin gone}
  /\ UNCHANGED <<vs, volunteers, cars, missions, assignments, issued>>

(* Deleting a station cascades to its missions and their assignments.       *)
DeleteVS(v) ==
  /\ v \in vs
  /\ ~VSRestricted(v)
  /\ vs' = vs \ {v}
  /\ missions' = {m \in missions : m.vs # v}
  /\ assignments' = assignments \ AssignmentsAt(v)
  /\ UNCHANGED <<volunteers, cars, trips, stops, passengers, issued>>

(* Deleting a volunteer cascades to the assignments and the rides, and      *)
(* clears the cars that named it default driver.                            *)
DeleteVolunteer(p) ==
  /\ p \in Ids(volunteers)
  /\ ~VolunteerRestricted(p)
  /\ volunteers' = {x \in volunteers : x.id # p}
  /\ assignments' = {a \in assignments : a.volunteer # p}
  /\ passengers' = {x \in passengers : x.volunteer # p}
  /\ cars' = {[id |-> c.id, driver |-> IF c.driver = p THEN None ELSE c.driver]
              : c \in cars}
  /\ UNCHANGED <<vs, missions, trips, stops, issued>>

DeleteCar(c) ==
  /\ c \in Ids(cars)
  /\ ~CarRestricted(c)
  /\ cars' = {x \in cars : x.id # c}
  /\ UNCHANGED <<vs, volunteers, missions, assignments, trips, stops,
                 passengers, issued>>

Next ==
  \/ \E v \in VS : InsertVS(v) \/ DeleteVS(v)
  \/ \E p \in Volunteers :
       \/ \E e \in BOOLEAN : InsertVolunteer(p, e) \/ UpdateVolunteer(p, e)
       \/ DeleteVolunteer(p)
  \/ \E c \in Cars :
       \/ \E d \in Volunteers \cup {None} : InsertCar(c, d) \/ UpdateCar(c, d)
       \/ DeleteCar(c)
  \/ \E m \in Missions :
       \/ \E v \in VS : InsertMission(m, v)
       \/ DeleteMission(m)
       \/ \E p \in Volunteers :
            LET a == [mission |-> m, volunteer |-> p]
            IN  InsertAssignment(a) \/ DeleteAssignment(a)
  \/ \E t \in Trips, d \in Volunteers, c \in Cars, route \in Routes :
       \E riders \in SUBSET Riders(route) :
         \/ InsertTrip(t, d, c, route, riders)
         \/ ReplaceTrip(t, d, c, route, riders)
  \/ \E gone \in SUBSET Trips : DeleteTrips(gone)

Spec == Init /\ [][Next]_tables

-------------------------------------------------------------------------------
(* The rows every table can hold.                                           *)
TablesOK ==
  /\ vs \subseteq VS
  /\ volunteers \subseteq [id : Volunteers, eligible : BOOLEAN]
  /\ cars \subseteq [id : Cars, driver : Volunteers \cup {None}]
  /\ missions \subseteq [id : Missions, vs : VS]
  /\ assignments \subseteq [mission : Missions, volunteer : Volunteers]
  /\ trips \subseteq [id : Trips, driver : Volunteers, car : Cars]
  /\ stops \subseteq [trip : Trips, seq : 0 .. MaxStops - 1, vs : VS]
  /\ passengers \subseteq
       [trip : Trips, seq : 0 .. MaxStops - 1, volunteer : Volunteers]
  /\ issued \subseteq IdSpace

(* No row names a row that is not there: the cascades the migrations        *)
(* declare reach every child a delete leaves behind.                        *)
ReferentialIntegrity ==
  /\ \A c \in cars : DriverKey(c.driver)
  /\ \A m \in missions : m.vs \in vs
  /\ \A a \in assignments : /\ a.mission \in Ids(missions)
                            /\ a.volunteer \in Ids(volunteers)
  /\ \A t \in trips : t.driver \in Ids(volunteers) /\ t.car \in Ids(cars)
  /\ \A s \in stops : s.trip \in Ids(trips) /\ s.vs \in vs
  /\ \A p \in passengers :
       /\ p.volunteer \in Ids(volunteers)
       /\ \E s \in stops : s.trip = p.trip /\ s.seq = p.seq

(* A trip that can be read back is complete: at least two stops, numbered   *)
(* from 0 without a gap, one row for each number.                           *)
Positions(t) == {s.seq : s \in {x \in stops : x.trip = t}}
TripsAreWhole ==
  /\ \A t \in Ids(trips) : \E n \in 2 .. MaxStops : Positions(t) = 0 .. n - 1
  /\ \A s, x \in stops : s.trip = x.trip /\ s.seq = x.seq => s = x
===============================================================================
