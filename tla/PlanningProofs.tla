---------------------------- MODULE PlanningProofs ----------------------------
(***************************************************************************)
(* The planning tables keep their types, their foreign keys and the shape  *)
(* of their trips, for any sets of ids and any bound on the routes.        *)
(* Overlapping requests run nothing but the transactions of Schema, so     *)
(* what holds of the tables holds of the handlers; and a delete that was   *)
(* not forced never removes a trip.                                        *)
(***************************************************************************)
EXTENDS Planning, TLAPS

-----------------------------------------------------------------------------
(* The tables.                                                             *)
(* The strengthening: a trip's id was issued, so the id of a new trip has   *)
(* no stop left over from an older one.                                     *)
TripIdsIssued == Ids(trips) \subseteq issued

TablesInv == /\ TablesOK
             /\ ReferentialIntegrity
             /\ TripsAreWhole
             /\ TripIdsIssued

USE MaxStopsAssumption, NoneAssumption

-------------------------------------------------------------------------------
(* The ids of a table after an insert, an update of a row and a delete.      *)
LEMMA IdsInsert ==
  ASSUME NEW R, NEW x
  PROVE  Ids(R \cup {x}) = Ids(R) \cup {x.id}
BY DEF Ids

LEMMA IdsUpdate ==
  ASSUME NEW R, NEW i \in Ids(R), NEW x, x.id = i
  PROVE  Ids({y \in R : y.id # i} \cup {x}) = Ids(R)
<1> DEFINE S == {y \in R : y.id # i} \cup {x}
<1>1. ASSUME NEW j \in Ids(R) PROVE j \in Ids(S)
  <2>1. PICK y \in R : y.id = j BY DEF Ids
  <2>2. CASE j = i BY <2>2 DEF Ids
  <2>3. CASE j # i
    <3>1. y \in S BY <2>1, <2>3
    <3> QED BY <3>1, <2>1 DEF Ids
  <2> QED BY <2>2, <2>3
<1>2. ASSUME NEW j \in Ids(S) PROVE j \in Ids(R)
  BY DEF Ids
<1> QED BY <1>1, <1>2

LEMMA IdsDelete ==
  ASSUME NEW R, NEW gone
  PROVE  Ids({y \in R : y.id \notin gone}) = Ids(R) \ gone
BY DEF Ids

(* A statement that touches neither trips nor stops keeps the trips whole.  *)
LEMMA TripsFrame ==
  ASSUME TripsAreWhole, UNCHANGED <<trips, stops>>
  PROVE  TripsAreWhole'
BY DEF TripsAreWhole, Positions, Ids

(* A route is a function on an initial segment of the naturals.             *)
LEMMA RouteShape ==
  ASSUME NEW route \in Routes
  PROVE  \E n \in 2 .. MaxStops :
            DOMAIN route = 0 .. n - 1
BY DEF Routes

(* The rows a route of stations gives are stop rows, one for each of its     *)
(* positions.                                                               *)
LEMMA RouteRows ==
  ASSUME NEW t \in Trips, NEW route \in Routes, \A i \in DOMAIN route : route[i] \in VS
  PROVE  /\ StopRows(t, route) \subseteq
              [trip : Trips, seq : 0 .. MaxStops - 1, vs : VS]
         /\ \A s \in StopRows(t, route) : s.trip = t /\ s.vs = route[s.seq]
         /\ \E n \in 2 .. MaxStops :
              {s.seq : s \in StopRows(t, route)} = 0 .. n - 1
<1>1. PICK n \in 2 .. MaxStops : DOMAIN route = 0 .. n - 1
  BY RouteShape
<1>2. 0 .. n - 1 \subseteq 0 .. MaxStops - 1
  OBVIOUS
<1>3. {s.seq : s \in StopRows(t, route)} = 0 .. n - 1
  <2>1. ASSUME NEW i \in 0 .. n - 1
        PROVE  \E s \in StopRows(t, route) : s.seq = i
    <3>1. [trip |-> t, seq |-> i, vs |-> route[i]] \in StopRows(t, route)
      BY <1>1 DEF StopRows
    <3> QED BY <3>1
  <2>2. ASSUME NEW s \in StopRows(t, route)
        PROVE  s.seq \in 0 .. n - 1
    BY <1>1 DEF StopRows
  <2> QED BY <2>1, <2>2
<1> QED
  BY <1>1, <1>2, <1>3 DEF StopRows

(* The rides given with a route happen at stops of that route.              *)
LEMMA RiderRows ==
  ASSUME NEW t \in Trips, NEW route \in Routes,
         NEW riders \in SUBSET Riders(route)
  PROVE  /\ PassengerRows(t, riders) \subseteq
              [trip : Trips, seq : 0 .. MaxStops - 1, volunteer : Volunteers]
         /\ \A p \in PassengerRows(t, riders) :
              /\ \E x \in riders : p.volunteer = x[2]
              /\ \E s \in StopRows(t, route) : s.trip = p.trip /\ s.seq = p.seq
<1>1. PICK n \in 2 .. MaxStops : DOMAIN route = 0 .. n - 1
  BY RouteShape
<1> SUFFICES ASSUME NEW p \in PassengerRows(t, riders)
             PROVE  /\ p \in [trip : Trips, seq : 0 .. MaxStops - 1,
                              volunteer : Volunteers]
                    /\ \E x \in riders : p.volunteer = x[2]
                    /\ \E s \in StopRows(t, route) :
                         s.trip = p.trip /\ s.seq = p.seq
  OBVIOUS
<1>2. PICK x \in riders : p = [trip |-> t, seq |-> x[1], volunteer |-> x[2]]
  BY DEF PassengerRows
<1>3. x[1] \in DOMAIN route /\ x[2] \in Volunteers
  BY DEF Riders
<1>4. [trip |-> t, seq |-> x[1], vs |-> route[x[1]]] \in StopRows(t, route)
  BY <1>3 DEF StopRows
<1> QED
  BY <1>1, <1>2, <1>3, <1>4

-------------------------------------------------------------------------------
(* One lemma per statement.                                                 *)

LEMMA InsertVSInv ==
  ASSUME TablesInv, NEW v \in VS, InsertVS(v)
  PROVE  TablesInv'
<1> USE DEF TablesInv, InsertVS, Issue
<1>1. TablesOK' BY DEF TablesOK, IdSpace
<1>2. ReferentialIntegrity' BY DEF ReferentialIntegrity, DriverKey, Ids
<1>3. TripsAreWhole' BY TripsFrame
<1>4. TripIdsIssued' BY DEF TripIdsIssued, Ids
<1> QED BY <1>1, <1>2, <1>3, <1>4

LEMMA InsertVolunteerInv ==
  ASSUME TablesInv, NEW p \in Volunteers, NEW e \in BOOLEAN,
         InsertVolunteer(p, e)
  PROVE  TablesInv'
<1> USE DEF TablesInv, InsertVolunteer, Issue
<1>1. TablesOK' BY DEF TablesOK, IdSpace
<1>2. ReferentialIntegrity' BY DEF ReferentialIntegrity, DriverKey, Ids
<1>3. TripsAreWhole' BY TripsFrame
<1>4. TripIdsIssued' BY DEF TripIdsIssued, Ids
<1> QED BY <1>1, <1>2, <1>3, <1>4

LEMMA UpdateVolunteerInv ==
  ASSUME TablesInv, NEW p \in Volunteers, NEW e \in BOOLEAN,
         UpdateVolunteer(p, e)
  PROVE  TablesInv'
<1> USE DEF TablesInv, UpdateVolunteer
<1>1. TablesOK' BY DEF TablesOK
<1>2. Ids(volunteers)' = Ids(volunteers)
  <2> DEFINE x == [id |-> p, eligible |-> e]
  <2> HIDE DEF x
  <2>1. volunteers' = {y \in volunteers : y.id # p} \cup {x} /\ x.id = p
    BY DEF x
  <2> QED BY <2>1, IdsUpdate
<1>3. ReferentialIntegrity' BY <1>2 DEF ReferentialIntegrity, DriverKey, Ids
<1>4. TripsAreWhole' BY TripsFrame
<1>5. TripIdsIssued' BY DEF TripIdsIssued, Ids
<1> QED BY <1>1, <1>3, <1>4, <1>5

LEMMA InsertCarInv ==
  ASSUME TablesInv, NEW c \in Cars, NEW d \in Volunteers \cup {None},
         InsertCar(c, d)
  PROVE  TablesInv'
<1> USE DEF TablesInv, InsertCar, Issue
<1>1. TablesOK' BY DEF TablesOK, IdSpace
<1>2. ReferentialIntegrity' BY DEF ReferentialIntegrity, DriverKey, Ids
<1>3. TripsAreWhole' BY TripsFrame
<1>4. TripIdsIssued' BY DEF TripIdsIssued, Ids
<1> QED BY <1>1, <1>2, <1>3, <1>4

LEMMA UpdateCarInv ==
  ASSUME TablesInv, NEW c \in Cars, NEW d \in Volunteers \cup {None},
         UpdateCar(c, d)
  PROVE  TablesInv'
<1> USE DEF TablesInv, UpdateCar
<1>1. TablesOK' BY DEF TablesOK
<1>2. Ids(cars)' = Ids(cars)
  <2> DEFINE x == [id |-> c, driver |-> d]
  <2> HIDE DEF x
  <2>1. cars' = {y \in cars : y.id # c} \cup {x} /\ x.id = c
    BY DEF x
  <2> QED BY <2>1, IdsUpdate
<1>3. ReferentialIntegrity'
  <2>1. \A x \in cars' : DriverKey(x.driver)'
    BY DEF ReferentialIntegrity, DriverKey
  <2> QED BY <2>1, <1>2 DEF ReferentialIntegrity, DriverKey
<1>4. TripsAreWhole' BY TripsFrame
<1>5. TripIdsIssued' BY DEF TripIdsIssued, Ids
<1> QED BY <1>1, <1>3, <1>4, <1>5

LEMMA InsertMissionInv ==
  ASSUME TablesInv, NEW m \in Missions, NEW v \in VS, InsertMission(m, v)
  PROVE  TablesInv'
<1> USE DEF TablesInv, InsertMission, Issue
<1>1. TablesOK' BY DEF TablesOK, IdSpace
<1>2. ReferentialIntegrity' BY DEF ReferentialIntegrity, DriverKey, Ids
<1>3. TripsAreWhole' BY TripsFrame
<1>4. TripIdsIssued' BY DEF TripIdsIssued, Ids
<1> QED BY <1>1, <1>2, <1>3, <1>4

LEMMA DeleteMissionInv ==
  ASSUME TablesInv, NEW m \in Missions, DeleteMission(m)
  PROVE  TablesInv'
<1> USE DEF TablesInv, DeleteMission
<1>1. TablesOK' BY DEF TablesOK
<1>2. ReferentialIntegrity' BY DEF ReferentialIntegrity, DriverKey, Ids
<1>3. TripsAreWhole' BY TripsFrame
<1>4. TripIdsIssued' BY DEF TripIdsIssued, Ids
<1> QED BY <1>1, <1>2, <1>3, <1>4

LEMMA InsertAssignmentInv ==
  ASSUME TablesInv, NEW m \in Missions, NEW p \in Volunteers,
         InsertAssignment([mission |-> m, volunteer |-> p])
  PROVE  TablesInv'
<1> USE DEF TablesInv, InsertAssignment
<1>1. TablesOK' BY DEF TablesOK
<1>2. ReferentialIntegrity' BY DEF ReferentialIntegrity, DriverKey, Ids
<1>3. TripsAreWhole' BY TripsFrame
<1>4. TripIdsIssued' BY DEF TripIdsIssued, Ids
<1> QED BY <1>1, <1>2, <1>3, <1>4

LEMMA DeleteAssignmentInv ==
  ASSUME TablesInv, NEW a, DeleteAssignment(a)
  PROVE  TablesInv'
<1> USE DEF TablesInv, DeleteAssignment
<1>1. TablesOK' BY DEF TablesOK
<1>2. ReferentialIntegrity' BY DEF ReferentialIntegrity, DriverKey, Ids
<1>3. TripsAreWhole' BY TripsFrame
<1>4. TripIdsIssued' BY DEF TripIdsIssued, Ids
<1> QED BY <1>1, <1>2, <1>3, <1>4

(* A new trip's id was never issued, so it has no row in any table yet.     *)
LEMMA InsertTripInv ==
  ASSUME TablesInv, NEW t \in Trips, NEW d \in Volunteers, NEW c \in Cars,
         NEW route \in Routes, NEW riders \in SUBSET Riders(route),
         InsertTrip(t, d, c, route, riders)
  PROVE  TablesInv'
<1> USE DEF TablesInv
<1> DEFINE new == StopRows(t, route)
<1>0. /\ t \notin Ids(trips)
      /\ Ids(trips)' = Ids(trips) \cup {t}
  <2>1. TripRow(t, d, c).id = t BY DEF TripRow
  <2>2. trips' = trips \cup {TripRow(t, d, c)} BY DEF InsertTrip
  <2>3. Ids(trips') = Ids(trips) \cup {t} BY <2>1, <2>2, IdsInsert
  <2> QED BY <2>3 DEF InsertTrip, Issue, TripIdsIssued
<1>1. /\ new \subseteq [trip : Trips, seq : 0 .. MaxStops - 1, vs : VS]
      /\ \A s \in new : s.trip = t /\ s.vs = route[s.seq] /\ s.vs \in vs
      /\ \E n \in 2 .. MaxStops : {s.seq : s \in new} = 0 .. n - 1
  <2>1. \A s \in new : s.vs \in vs
    BY DEF InsertTrip, TripKeys, StopRows
  <2>2. \A k \in DOMAIN route : route[k] \in VS
    BY DEF InsertTrip, TripKeys, TablesOK
  <2>3. /\ new \subseteq [trip : Trips, seq : 0 .. MaxStops - 1, vs : VS]
        /\ \A s \in new : s.trip = t /\ s.vs = route[s.seq]
        /\ \E n \in 2 .. MaxStops : {s.seq : s \in new} = 0 .. n - 1
    <3> HIDE DEF TablesInv
    <3> QED BY <2>2, RouteRows
  <2> QED BY <2>1, <2>3
<1>2. /\ PassengerRows(t, riders) \subseteq
            [trip : Trips, seq : 0 .. MaxStops - 1, volunteer : Volunteers]
      /\ \A p \in PassengerRows(t, riders) :
           /\ p.volunteer \in Ids(volunteers)
           /\ \E s \in new : s.trip = p.trip /\ s.seq = p.seq
  BY RiderRows DEF InsertTrip, TripKeys
<1>3. TablesOK'
  BY <1>1, <1>2 DEF TablesOK, InsertTrip, Issue, TripRow, IdSpace
<1>4. ReferentialIntegrity'
  <2> USE DEF ReferentialIntegrity, InsertTrip, TripKeys, Issue
  <2>1. \A x \in cars' : DriverKey(x.driver)' BY DEF DriverKey, Ids
  <2>2. \A x \in missions' : x.vs \in vs' OBVIOUS
  <2>3. \A a \in assignments' : /\ a.mission \in Ids(missions')
                                /\ a.volunteer \in Ids(volunteers')
    BY DEF Ids
  <2>4. \A x \in trips' : x.driver \in Ids(volunteers') /\ x.car \in Ids(cars')
    BY DEF Ids, TripRow
  <2>5. \A s \in stops' : s.trip \in Ids(trips)' /\ s.vs \in vs'
    BY <1>0, <1>1
  <2>6. \A p \in passengers' :
          /\ p.volunteer \in Ids(volunteers')
          /\ \E s \in stops' : s.trip = p.trip /\ s.seq = p.seq
    BY <1>2 DEF Ids
  <2> QED BY <2>1, <2>2, <2>3, <2>4, <2>5, <2>6 DEF Ids
<1>5. TripsAreWhole'
  <2>1. stops' = stops \cup new BY DEF InsertTrip
  <2>2. \A s \in stops : s.trip # t BY <1>0 DEF ReferentialIntegrity
  <2>3. ASSUME NEW u \in Ids(trips)'
        PROVE  \E n \in 2 .. MaxStops : Positions(u)' = 0 .. n - 1
    <3>1. CASE u = t
      <4>1. Positions(u)' = {s.seq : s \in new}
        BY <3>1, <1>1, <2>1, <2>2 DEF Positions
      <4> QED BY <4>1, <1>1
    <3>2. CASE u # t
      <4>1. Positions(u)' = Positions(u)
        BY <3>2, <1>1, <2>1 DEF Positions
      <4>2. u \in Ids(trips) BY <3>2, <1>0
      <4> QED BY <4>1, <4>2 DEF TripsAreWhole
    <3> QED BY <3>1, <3>2
  <2>4. ASSUME NEW s \in stops', NEW x \in stops', s.trip = x.trip,
               s.seq = x.seq
        PROVE  s = x
    <3>1. CASE s \in new /\ x \in new
      BY <3>1, <2>4 DEF StopRows
    <3>2. CASE s \in stops /\ x \in stops
      BY <3>2, <2>4 DEF TripsAreWhole
    <3> QED BY <3>1, <3>2, <2>1, <2>2, <2>4, <1>1
  <2> QED BY <2>3, <2>4 DEF TripsAreWhole
<1>6. TripIdsIssued'
  BY <1>0 DEF TripIdsIssued, InsertTrip, Issue
<1> QED BY <1>3, <1>4, <1>5, <1>6

(* Replacing a trip removes every stop it had before the new ones come.      *)
LEMMA ReplaceTripInv ==
  ASSUME TablesInv, NEW t \in Trips, NEW d \in Volunteers, NEW c \in Cars,
         NEW route \in Routes, NEW riders \in SUBSET Riders(route),
         ReplaceTrip(t, d, c, route, riders)
  PROVE  TablesInv'
<1> USE DEF TablesInv
<1> DEFINE new == StopRows(t, route)
<1>0. Ids(trips)' = Ids(trips)
  <2> DEFINE x == TripRow(t, d, c)
  <2> HIDE DEF x
  <2>1. /\ trips' = {y \in trips : y.id # t} \cup {x} /\ x.id = t
        /\ t \in Ids(trips)
    BY DEF ReplaceTrip, TripRow, x
  <2> QED BY <2>1, IdsUpdate
<1>1. /\ new \subseteq [trip : Trips, seq : 0 .. MaxStops - 1, vs : VS]
      /\ \A s \in new : s.trip = t /\ s.vs = route[s.seq] /\ s.vs \in vs
      /\ \E n \in 2 .. MaxStops : {s.seq : s \in new} = 0 .. n - 1
  <2>1. \A s \in new : s.vs \in vs
    BY DEF ReplaceTrip, TripKeys, StopRows
  <2>2. \A k \in DOMAIN route : route[k] \in VS
    BY DEF ReplaceTrip, TripKeys, TablesOK
  <2>3. /\ new \subseteq [trip : Trips, seq : 0 .. MaxStops - 1, vs : VS]
        /\ \A s \in new : s.trip = t /\ s.vs = route[s.seq]
        /\ \E n \in 2 .. MaxStops : {s.seq : s \in new} = 0 .. n - 1
    <3> HIDE DEF TablesInv
    <3> QED BY <2>2, RouteRows
  <2> QED BY <2>1, <2>3
<1>2. /\ PassengerRows(t, riders) \subseteq
            [trip : Trips, seq : 0 .. MaxStops - 1, volunteer : Volunteers]
      /\ \A p \in PassengerRows(t, riders) :
           /\ p.volunteer \in Ids(volunteers)
           /\ \E s \in new : s.trip = p.trip /\ s.seq = p.seq
  BY RiderRows DEF ReplaceTrip, TripKeys
<1>3. TablesOK'
  BY <1>1, <1>2 DEF TablesOK, ReplaceTrip, TripRow
<1>4. ReferentialIntegrity'
  <2> USE DEF ReferentialIntegrity, ReplaceTrip, TripKeys
  <2>1. \A x \in cars' : DriverKey(x.driver)' BY DEF DriverKey, Ids
  <2>2. \A x \in missions' : x.vs \in vs' OBVIOUS
  <2>3. \A a \in assignments' : /\ a.mission \in Ids(missions')
                                /\ a.volunteer \in Ids(volunteers')
    BY DEF Ids
  <2>4. \A x \in trips' : x.driver \in Ids(volunteers') /\ x.car \in Ids(cars')
    BY DEF Ids, TripRow
  <2>5. \A s \in stops' : s.trip \in Ids(trips)' /\ s.vs \in vs'
    BY <1>0, <1>1
  <2>6. \A p \in passengers' :
          /\ p.volunteer \in Ids(volunteers')
          /\ \E s \in stops' : s.trip = p.trip /\ s.seq = p.seq
    BY <1>2 DEF Ids
  <2> QED BY <2>1, <2>2, <2>3, <2>4, <2>5, <2>6 DEF Ids
<1>5. TripsAreWhole'
  <2>1. stops' = {s \in stops : s.trip # t} \cup new BY DEF ReplaceTrip
  <2>2. ASSUME NEW u \in Ids(trips)'
        PROVE  \E n \in 2 .. MaxStops : Positions(u)' = 0 .. n - 1
    <3>1. CASE u = t
      <4>1. Positions(u)' = {s.seq : s \in new}
        BY <3>1, <1>1, <2>1 DEF Positions
      <4> QED BY <4>1, <1>1
    <3>2. CASE u # t
      <4>1. Positions(u)' = Positions(u)
        BY <3>2, <1>1, <2>1 DEF Positions
      <4> QED BY <4>1, <1>0 DEF TripsAreWhole
    <3> QED BY <3>1, <3>2
  <2>3. ASSUME NEW s \in stops', NEW x \in stops', s.trip = x.trip,
               s.seq = x.seq
        PROVE  s = x
    <3>1. CASE s \in new /\ x \in new
      BY <3>1, <2>3 DEF StopRows
    <3>2. CASE s \in stops /\ x \in stops
      BY <3>2, <2>3 DEF TripsAreWhole
    <3> QED BY <3>1, <3>2, <2>1, <2>3, <1>1
  <2> QED BY <2>2, <2>3 DEF TripsAreWhole
<1>6. TripIdsIssued'
  BY <1>0 DEF TripIdsIssued, ReplaceTrip
<1> QED BY <1>3, <1>4, <1>5, <1>6

LEMMA DeleteTripsInv ==
  ASSUME TablesInv, NEW gone, DeleteTrips(gone)
  PROVE  TablesInv'
<1> USE DEF TablesInv, DeleteTrips
<1>0. Ids(trips)' = Ids(trips) \ gone BY IdsDelete
<1>1. TablesOK' BY DEF TablesOK
<1>2. ReferentialIntegrity' BY <1>0 DEF ReferentialIntegrity, DriverKey
<1>3. TripsAreWhole'
  <2>1. ASSUME NEW u \in Ids(trips)'
        PROVE  Positions(u)' = Positions(u)
    BY <1>0 DEF Positions
  <2> QED BY <1>0, <2>1 DEF TripsAreWhole
<1>4. TripIdsIssued' BY <1>0 DEF TripIdsIssued
<1> QED BY <1>1, <1>2, <1>3, <1>4

(* What is left refers to another station: the missions at v go by the       *)
(* cascade, their assignments with them, and a stop at v forbids the delete. *)
LEMMA DeleteVSInv ==
  ASSUME TablesInv, NEW v \in VS, DeleteVS(v)
  PROVE  TablesInv'
<1> USE DEF TablesInv, DeleteVS
<1>1. TablesOK' BY DEF TablesOK
<1>2. ReferentialIntegrity'
  <2> USE DEF ReferentialIntegrity
  <2>1. ASSUME NEW a \in assignments'
        PROVE  a.mission \in Ids(missions')
    <3>1. a \in assignments /\ a.mission \notin MissionsAt(v)
      BY DEF AssignmentsAt
    <3>2. PICK m \in missions : m.id = a.mission BY <3>1 DEF Ids
    <3>3. m \in missions' BY <3>1, <3>2 DEF MissionsAt, Ids
    <3> QED BY <3>2, <3>3 DEF Ids
  <2>2. \A s \in stops' : s.vs \in vs' BY DEF VSRestricted
  <2> QED BY <2>1, <2>2 DEF DriverKey
<1>3. TripsAreWhole' BY TripsFrame
<1>4. TripIdsIssued' BY DEF TripIdsIssued
<1> QED BY <1>1, <1>2, <1>3, <1>4

LEMMA DeleteVolunteerInv ==
  ASSUME TablesInv, NEW p \in Volunteers, DeleteVolunteer(p)
  PROVE  TablesInv'
<1> USE DEF TablesInv, DeleteVolunteer
<1>0. Ids(volunteers)' = Ids(volunteers) \ {p}
  <2>1. volunteers' = {x \in volunteers : x.id \notin {p}} OBVIOUS
  <2> QED BY <2>1, IdsDelete
<1>1. TablesOK' BY DEF TablesOK
<1>2. Ids(cars)' = Ids(cars)
  <2> DEFINE cleared(c) ==
        [id |-> c.id, driver |-> IF c.driver = p THEN None ELSE c.driver]
  <2>1. cars' = {cleared(c) : c \in cars} OBVIOUS
  <2>2. \A c \in cars : cleared(c).id = c.id OBVIOUS
  <2> HIDE DEF cleared
  <2> QED BY ONLY <2>1, <2>2 DEF Ids
<1>3. ReferentialIntegrity'
  <2> USE DEF ReferentialIntegrity
  <2>1. \A c \in cars' : DriverKey(c.driver)' BY <1>0 DEF DriverKey
  <2>2. \A t \in trips' : /\ t.driver \in Ids(volunteers')
                          /\ t.car \in Ids(cars')
    BY <1>0, <1>2 DEF VolunteerRestricted
  <2>3. \A a \in assignments' : /\ a.mission \in Ids(missions')
                                /\ a.volunteer \in Ids(volunteers')
    BY <1>0
  <2>4. \A x \in passengers' :
          /\ x.volunteer \in Ids(volunteers')
          /\ \E s \in stops' : s.trip = x.trip /\ s.seq = x.seq
    BY <1>0
  <2> QED BY <2>1, <2>2, <2>3, <2>4
<1>4. TripsAreWhole' BY TripsFrame
<1>5. TripIdsIssued' BY DEF TripIdsIssued
<1> QED BY <1>1, <1>3, <1>4, <1>5

LEMMA DeleteCarInv ==
  ASSUME TablesInv, NEW c \in Cars, DeleteCar(c)
  PROVE  TablesInv'
<1> USE DEF TablesInv, DeleteCar
<1>0. Ids(cars)' = Ids(cars) \ {c}
  <2>1. cars' = {x \in cars : x.id \notin {c}} OBVIOUS
  <2> QED BY <2>1, IdsDelete
<1>1. TablesOK' BY DEF TablesOK
<1>2. ReferentialIntegrity'
  BY <1>0 DEF ReferentialIntegrity, DriverKey, CarRestricted
<1>3. TripsAreWhole' BY TripsFrame
<1>4. TripIdsIssued' BY DEF TripIdsIssued
<1> QED BY <1>1, <1>2, <1>3, <1>4

-------------------------------------------------------------------------------
LEMMA TablesInit == Init => TablesInv
BY DEF Init, TablesInv, TablesOK, ReferentialIntegrity, TripsAreWhole,
       TripIdsIssued, Ids

LEMMA TablesStutter ==
  ASSUME TablesInv, UNCHANGED tables
  PROVE  TablesInv'
<1> USE DEF TablesInv, tables
<1>1. TablesOK' BY DEF TablesOK
<1>2. ReferentialIntegrity' BY DEF ReferentialIntegrity, DriverKey
<1>3. TripsAreWhole' BY TripsFrame
<1>4. TripIdsIssued' BY DEF TripIdsIssued
<1> QED BY <1>1, <1>2, <1>3, <1>4

LEMMA TablesStep ==
  ASSUME TablesInv, [Next]_tables
  PROVE  TablesInv'
<1>1. CASE UNCHANGED tables BY <1>1, TablesStutter
<1>2. ASSUME NEW v \in VS, InsertVS(v) \/ DeleteVS(v) PROVE TablesInv'
  BY <1>2, InsertVSInv, DeleteVSInv
<1>3. ASSUME NEW p \in Volunteers,
             \/ \E e \in BOOLEAN : InsertVolunteer(p, e) \/ UpdateVolunteer(p, e)
             \/ DeleteVolunteer(p)
      PROVE  TablesInv'
  BY <1>3, InsertVolunteerInv, UpdateVolunteerInv, DeleteVolunteerInv
<1>4. ASSUME NEW c \in Cars,
             \/ \E d \in Volunteers \cup {None} : InsertCar(c, d) \/ UpdateCar(c, d)
             \/ DeleteCar(c)
      PROVE  TablesInv'
  BY <1>4, InsertCarInv, UpdateCarInv, DeleteCarInv
<1>5. ASSUME NEW m \in Missions, NEW v \in VS, InsertMission(m, v)
      PROVE  TablesInv'
  BY <1>5, InsertMissionInv
<1>6. ASSUME NEW m \in Missions, DeleteMission(m) PROVE TablesInv'
  BY <1>6, DeleteMissionInv
<1>7. ASSUME NEW m \in Missions, NEW p \in Volunteers,
             \/ InsertAssignment([mission |-> m, volunteer |-> p])
             \/ DeleteAssignment([mission |-> m, volunteer |-> p])
      PROVE  TablesInv'
  BY <1>7, InsertAssignmentInv, DeleteAssignmentInv
<1>8. ASSUME NEW t \in Trips, NEW d \in Volunteers, NEW c \in Cars,
             NEW route \in Routes, NEW riders \in SUBSET Riders(route),
             \/ InsertTrip(t, d, c, route, riders)
             \/ ReplaceTrip(t, d, c, route, riders)
      PROVE  TablesInv'
  BY <1>8, InsertTripInv, ReplaceTripInv
<1>9. ASSUME NEW gone \in SUBSET Trips, DeleteTrips(gone) PROVE TablesInv'
  BY <1>9, DeleteTripsInv
<1> QED
  BY <1>1, <1>2, <1>3, <1>4, <1>5, <1>6, <1>7, <1>8, <1>9 DEF Next

(* The tables' invariant holds whatever transactions are committed.         *)
THEOREM TablesCorrect == Spec => []TablesInv
<1>1. TablesInv /\ [Next]_tables => TablesInv' BY TablesStep
<1> QED BY <1>1, TablesInit, PTL DEF Spec

(* The rows of every table are of its type (TablesOK), for any ids: the      *)
(* statements of the stores write nothing else.                             *)
THEOREM TablesTypes == Spec => []TablesOK
BY TablesCorrect, PTL DEF TablesInv

(* Foreign keys always hold: the CASCADE and SET NULL clauses of the         *)
(* migrations reach all that a delete leaves behind, at every depth.         *)
THEOREM KeysHold == Spec => []ReferentialIntegrity
BY TablesCorrect, PTL DEF TablesInv

(* A trip that can be read is complete, whatever was replaced or deleted.    *)
THEOREM TripsWhole == Spec => []TripsAreWhole
BY TablesCorrect, PTL DEF TablesInv

-----------------------------------------------------------------------------
(* The handlers.                                                           *)
(* What a request record says of its own step: the row it is about is of    *)
(* the table its handler works on, and only a forced delete clears trips.   *)
Shape(x) ==
  /\ x.pc = "write" => x.id \in Cars
  /\ x.op = "deleteVS" /\ x.pc # "reply" => x.id \in VS
  /\ x.op = "deleteVolunteer" /\ x.pc # "reply" => x.id \in Volunteers
  /\ x.op = "deleteCar" /\ x.pc # "reply" => x.id \in Cars
  /\ x.pc \in {"cascade", "deleteTrips"} => x.force

RequestsInv == /\ req \in [Requests -> RequestRecord]
               /\ \A r \in Requests : Shape(req[r])

PlanningInv == TablesInv /\ RequestsInv

-------------------------------------------------------------------------------
LEMMA BeginInv ==
  ASSUME RequestsInv, NEW r \in Requests, NEW x \in RequestRecord, Shape(x),
         Begin(r, x)
  PROVE  RequestsInv'
<1>1. ASSUME NEW q \in Requests
      PROVE  /\ req'[q] \in RequestRecord
             /\ Shape(req'[q])
  <2>1. \/ req'[q] = [x EXCEPT !.disturbed = \E p \in Requests : InFlight(p)]
        \/ req'[q] = [req[q] EXCEPT !.disturbed = TRUE]
        \/ req'[q] = req[q]
    BY DEF Begin
  <2>2. ASSUME NEW y \in RequestRecord, NEW b \in BOOLEAN, Shape(y)
        PROVE  [y EXCEPT !.disturbed = b] \in RequestRecord
               /\ Shape([y EXCEPT !.disturbed = b])
    BY <2>2 DEF RequestRecord, Shape
  <2>3. req[q] \in RequestRecord /\ Shape(req[q]) BY DEF RequestsInv
  <2>4. (\E p \in Requests : InFlight(p)) \in BOOLEAN OBVIOUS
  <2>5. CASE req'[q] = [x EXCEPT !.disturbed = \E p \in Requests : InFlight(p)]
    BY <2>2, <2>4, <2>5, Zenon
  <2>6. CASE req'[q] = [req[q] EXCEPT !.disturbed = TRUE]
    BY <2>2, <2>3, <2>6
  <2> QED BY <2>1, <2>3, <2>5, <2>6
<1>2. req' = [q \in Requests |-> req'[q]]
  BY DEF Begin
<1> QED BY <1>1, <1>2 DEF RequestsInv

LEMMA MoveInv ==
  ASSUME RequestsInv, NEW r \in Requests, NEW x \in RequestRecord, Shape(x),
         req' = [req EXCEPT ![r] = x]
  PROVE  RequestsInv'
BY DEF RequestsInv

LEMMA StartedRecord ==
  ASSUME NEW op \in Ops, NEW id \in RowIds \cup {None}, NEW pc \in Steps
  PROVE  /\ Started(op, id, pc) \in RequestRecord
         /\ Wrote(Started(op, id, pc)) \in RequestRecord
         /\ Started(op, id, pc).op = op
         /\ Started(op, id, pc).id = id
         /\ Started(op, id, pc).pc = pc
         /\ Wrote(Started(op, id, pc)).op = op
         /\ Wrote(Started(op, id, pc)).id = id
         /\ Wrote(Started(op, id, pc)).pc = pc
BY DEF Started, Wrote, Free, RequestRecord, Replies

LEMMA RefusedRecord ==
  ASSUME NEW op \in Ops, NEW reply \in Replies
  PROVE  /\ Refused(op, reply) \in RequestRecord
         /\ Shape(Refused(op, reply))
         /\ Done(op) \in RequestRecord
         /\ Shape(Done(op))
BY DEF Refused, Done, Started, Wrote, Free, RequestRecord, Steps, Shape, Replies

LEMMA AnsweredRecord ==
  ASSUME NEW x \in RequestRecord, NEW reply \in Replies
  PROVE  /\ Answered(x, reply) \in RequestRecord
         /\ Shape(Answered(x, reply))
         /\ Wrote(Answered(x, reply)) \in RequestRecord
         /\ Shape(Wrote(Answered(x, reply)))
BY DEF Answered, Wrote, RequestRecord, Steps, Shape

(* What a handler does to its record keeps the invariant.                    *)
LEMMA AnswerInv ==
  ASSUME RequestsInv, NEW r \in Requests, NEW reply \in Replies,
         Answer(r, reply) \/ WroteAndAnswer(r, reply)
  PROVE  RequestsInv'
<1>1. req[r] \in RequestRecord BY DEF RequestsInv
<1> QED BY <1>1, AnsweredRecord, MoveInv DEF Answer, WroteAndAnswer

LEMMA GotoInv ==
  ASSUME RequestsInv, NEW r \in Requests, NEW pc \in Steps,
         pc \notin {"write", "cascade", "deleteTrips"}, req[r].pc # "reply",
         Goto(r, pc) \/ WroteAndGoto(r, pc)
  PROVE  RequestsInv'
<1>1. req[r] \in RequestRecord /\ Shape(req[r]) BY DEF RequestsInv
<1>2. PICK x \in RequestRecord :
        /\ req' = [req EXCEPT ![r] = x]
        /\ x.op = req[r].op /\ x.id = req[r].id /\ x.pc = pc
  <2>1. CASE Goto(r, pc)
    <3>1. [req[r] EXCEPT !.pc = pc] \in RequestRecord
      BY <1>1 DEF RequestRecord
    <3> QED BY <1>1, <2>1, <3>1 DEF Goto, RequestRecord
  <2>2. CASE WroteAndGoto(r, pc)
    <3> DEFINE y == [req[r] EXCEPT !.pc = pc, !.wrote = TRUE]
    <3>1. y \in RequestRecord /\ y.op = req[r].op /\ y.id = req[r].id /\ y.pc = pc
      BY <1>1 DEF RequestRecord
    <3>2. req' = [req EXCEPT ![r] = y]
      BY <1>1, <2>2 DEF WroteAndGoto, RequestRecord, RequestsInv
    <3> QED BY <3>1, <3>2
  <2> QED BY <2>1, <2>2
<1>3. Shape(x) BY <1>1, <1>2 DEF Shape
<1> QED BY <1>2, <1>3, MoveInv

-------------------------------------------------------------------------------
(* Each action: its record is well formed, and what it does to the tables is *)
(* a transaction of Schema or nothing.                                       *)

LEMMA ReadOnly ==
  ASSUME UNCHANGED tables
  PROVE  [Next]_tables
OBVIOUS

LEMMA ReadBackStep ==
  ASSUME PlanningInv, NEW r \in Requests, ReadBack(r)
  PROVE  RequestsInv' /\ [Next]_tables
<1>1. PICK reply \in Replies : Answer(r, reply) BY DEF ReadBack, Replies
<1> QED BY <1>1, AnswerInv DEF ReadBack, PlanningInv

LEMMA PatchRowStep ==
  ASSUME PlanningInv, NEW r \in Requests, NEW id \in IdSpace, PatchRow(r, id)
  PROVE  RequestsInv' /\ [Next]_tables
<1>1. "update" \in Ops /\ "readBack" \in Steps /\ "notFound" \in Replies
      /\ id \in RowIds
  BY DEF Ops, Steps, Replies, RowIds
<1>2. CASE Begin(r, Wrote(Started("update", id, "readBack")))
  <2>1. Shape(Wrote(Started("update", id, "readBack")))
    BY <1>1, StartedRecord DEF Shape
  <2> QED BY <1>1, <1>2, <2>1, StartedRecord, BeginInv
             DEF PatchRow, PlanningInv
<1>3. CASE Begin(r, Refused("update", "notFound"))
  BY <1>1, <1>3, RefusedRecord, BeginInv DEF PatchRow, PlanningInv
<1> QED BY <1>2, <1>3 DEF PatchRow

(* The handlers of one statement begin with the record of a write that       *)
(* succeeded, of a refusal or of a delete that is done.                      *)
LEMMA WrittenBegin ==
  ASSUME PlanningInv, NEW r \in Requests, NEW op \in {"create", "update"},
         NEW id \in RowIds, Begin(r, Wrote(Started(op, id, "readBack")))
  PROVE  RequestsInv'
<1>1. op \in Ops /\ "readBack" \in Steps BY DEF Ops, Steps
<1>2. Shape(Wrote(Started(op, id, "readBack")))
  BY <1>1, StartedRecord DEF Shape
<1> QED BY <1>1, <1>2, StartedRecord, BeginInv DEF PlanningInv

LEMMA RefusedBegin ==
  ASSUME PlanningInv, NEW r \in Requests, NEW op \in Ops, NEW reply \in Replies,
         Begin(r, Refused(op, reply)) \/ Begin(r, Done(op))
  PROVE  RequestsInv'
BY RefusedRecord, BeginInv DEF PlanningInv

LEMMA AssignmentStep ==
  ASSUME PlanningInv, NEW r \in Requests, NEW m \in Missions,
         NEW p \in Volunteers,
         \/ CreateAssignment(r, [mission |-> m, volunteer |-> p])
         \/ RemoveAssignment(r, [mission |-> m, volunteer |-> p])
  PROVE  RequestsInv' /\ [Next]_tables
<1> DEFINE a == [mission |-> m, volunteer |-> p]
<1>0. /\ a \in RowIds
      /\ {"create", "delete"} \subseteq Ops
      /\ {"notFound", "error", "conflict"} \subseteq Replies
  BY DEF RowIds, Ops, Replies
<1>1. RequestsInv'
  BY <1>0, WrittenBegin, RefusedBegin DEF CreateAssignment, RemoveAssignment
<1>2. InsertAssignment(a) \/ DeleteAssignment(a) \/ UNCHANGED tables
  BY DEF CreateAssignment, RemoveAssignment
<1> QED BY <1>1, <1>2 DEF Next

LEMMA TripStep ==
  ASSUME PlanningInv, NEW r \in Requests,
         NEW t \in Trips, NEW d \in Volunteers, NEW c \in Cars,
         NEW route \in Routes, NEW riders \in SUBSET Riders(route),
         \/ CreateTrip(r, t, d, c, route, riders)
         \/ PutTrip(r, t, d, c, route, riders)
  PROVE  RequestsInv' /\ [Next]_tables
<1>0. /\ t \in RowIds
      /\ {"create", "update"} \subseteq Ops
      /\ {"notFound", "error"} \subseteq Replies
  BY DEF RowIds, IdSpace, Ops, Replies
<1>1. RequestsInv'
  BY <1>0, WrittenBegin, RefusedBegin DEF CreateTrip, PutTrip
<1>2. \/ InsertTrip(t, d, c, route, riders)
      \/ ReplaceTrip(t, d, c, route, riders)
      \/ UNCHANGED tables
  BY DEF CreateTrip, PutTrip
<1> QED BY <1>1, <1>2 DEF Next

LEMMA RemoveTripStep ==
  ASSUME PlanningInv, NEW r \in Requests, NEW t \in Trips, RemoveTrip(r, t)
  PROVE  RequestsInv' /\ [Next]_tables
<1>0. "delete" \in Ops /\ "notFound" \in Replies BY DEF Ops, Replies
<1>1. RequestsInv' BY <1>0, RefusedBegin DEF RemoveTrip
<1>2. DeleteTrips({t}) \/ UNCHANGED tables BY DEF RemoveTrip
<1> QED BY <1>1, <1>2 DEF Next

LEMMA SaveCarStep ==
  ASSUME PlanningInv, NEW r \in Requests, NEW c \in Cars,
         NEW d \in Volunteers \cup {None},
         CreateCar(r, c, d) \/ PatchCar(r, c, d)
  PROVE  RequestsInv' /\ [Next]_tables
<1>1. PICK op \in {"createCar", "updateCar"} : SaveCar(r, op, c, d)
  BY DEF CreateCar, PatchCar
<1>2. op \in Ops /\ "write" \in Steps /\ c \in RowIds /\ "invalid" \in Replies
  BY DEF Ops, Steps, RowIds, IdSpace, Replies
<1>3. CASE Begin(r, [Started(op, c, "write") EXCEPT !.driver = d])
  <2> DEFINE x == [Started(op, c, "write") EXCEPT !.driver = d]
  <2>1. x \in RequestRecord
    BY <1>2 DEF Started, Free, RequestRecord, Replies
  <2>2. Shape(x)
    BY <1>2 DEF Shape, Started, Free
  <2> HIDE DEF x
  <2> QED BY <1>1, <1>3, <2>1, <2>2, BeginInv DEF PlanningInv, SaveCar, x
<1>4. CASE Begin(r, Refused(op, "invalid"))
  BY <1>1, <1>2, <1>4, RefusedBegin DEF SaveCar
<1> QED BY <1>1, <1>3, <1>4 DEF SaveCar

LEMMA WriteCarStep ==
  ASSUME PlanningInv, NEW r \in Requests, WriteNewCar(r) \/ WriteCar(r)
  PROVE  RequestsInv' /\ [Next]_tables
<1>0. /\ req[r].pc = "write" /\ req[r].id \in Cars
      /\ req[r].driver \in Volunteers \cup {None}
  BY DEF PlanningInv, RequestsInv, RequestRecord, Shape, At, WriteNewCar, WriteCar
<1>1. RequestsInv'
  <2>1. "readBack" \in Steps /\ {"error", "notFound"} \subseteq Replies
    BY DEF Steps, Replies
  <2>2. \/ WroteAndGoto(r, "readBack")
        \/ \E reply \in {"error", "notFound"} : Answer(r, reply)
    BY DEF WriteNewCar, WriteCar
  <2> QED BY <1>0, <2>1, <2>2, GotoInv, AnswerInv DEF PlanningInv
<1>2. \/ InsertCar(req[r].id, req[r].driver)
      \/ UpdateCar(req[r].id, req[r].driver)
      \/ UNCHANGED tables
  BY DEF WriteNewCar, WriteCar
<1> QED BY <1>0, <1>1, <1>2 DEF Next

-------------------------------------------------------------------------------
LEMMA BeginDeleteVSStep ==
  ASSUME PlanningInv, NEW r \in Requests, NEW v \in VS, NEW force \in BOOLEAN,
         BeginDeleteVS(r, v, force)
  PROVE  RequestsInv' /\ [Next]_tables
<1> DEFINE x == [Started("deleteVS", v, IF force THEN "cascade" ELSE "countMissions")
                 EXCEPT !.force = force]
<1>0. v \in RowIds BY DEF RowIds, IdSpace
<1>1. x \in RequestRecord
  BY <1>0 DEF Started, Free, RequestRecord, Replies, Ops, Steps
<1>2. Shape(x)
  BY DEF Shape, Started, Free
<1> HIDE DEF x
<1> QED BY <1>1, <1>2, BeginInv DEF PlanningInv, BeginDeleteVS, x

LEMMA CountStep ==
  ASSUME PlanningInv, NEW r \in Requests,
         CountMissions(r) \/ CountAssignments(r)
  PROVE  RequestsInv' /\ [Next]_tables
<1>0. req[r] \in RequestRecord /\ Shape(req[r])
  BY DEF PlanningInv, RequestsInv
<1>1. /\ MissionsAt(req[r].id) \subseteq RowIds
      /\ AssignmentsAt(req[r].id) \subseteq RowIds
  BY DEF PlanningInv, TablesInv, TablesOK, MissionsAt, AssignmentsAt, Ids,
         RowIds, IdSpace
<1>2. PICK rows \in SUBSET RowIds, to \in {"countAssignments", "countTrips"} :
        /\ req[r].op = "deleteVS" /\ req[r].pc # "reply"
        /\ req' = [req EXCEPT ![r].pc = to, ![r].pending = @ \cup rows]
        /\ UNCHANGED tables
  BY <1>1 DEF CountMissions, CountAssignments, Count, At
<1> DEFINE x == [req[r] EXCEPT !.pc = to, !.pending = req[r].pending \cup rows]
<1>3. x \in RequestRecord BY <1>0 DEF RequestRecord, Steps
<1>4. Shape(x) BY <1>0, <1>2 DEF Shape, RequestRecord
<1>5. req' = [req EXCEPT ![r] = x]
  BY <1>0, <1>2 DEF PlanningInv, RequestsInv, RequestRecord
<1> HIDE DEF x
<1> QED BY <1>2, <1>3, <1>4, <1>5, MoveInv DEF PlanningInv

LEMMA CountTripsStep ==
  ASSUME PlanningInv, NEW r \in Requests, CountTrips(r)
  PROVE  RequestsInv' /\ [Next]_tables
<1>1. "conflict" \in Replies /\ "deleteRow" \in Steps /\ req[r].pc # "reply"
  BY DEF Replies, Steps, CountTrips, At
<1>2. Answer(r, "conflict") \/ Goto(r, "deleteRow")
  BY DEF CountTrips
<1> QED BY <1>1, <1>2, AnswerInv, GotoInv DEF PlanningInv, CountTrips

LEMMA ForceCascadeStep ==
  ASSUME PlanningInv, NEW r \in Requests, ForceCascade(r)
  PROVE  RequestsInv' /\ [Next]_tables
<1>1. "deleteRow" \in Steps /\ req[r].pc # "reply"
  BY DEF Steps, ForceCascade, At
<1>2. WroteAndGoto(r, "deleteRow") \/ Goto(r, "deleteRow")
  BY DEF ForceCascade
<1>3. TripsAt(req[r].id) \in SUBSET Trips
  BY DEF PlanningInv, TablesInv, TablesOK, TripsAt
<1>4. DeleteTrips(TripsAt(req[r].id)) BY DEF ForceCascade
<1> QED BY <1>1, <1>2, <1>3, <1>4, GotoInv DEF PlanningInv, Next

LEMMA DeleteVSRowStep ==
  ASSUME PlanningInv, NEW r \in Requests, DeleteVSRow(r)
  PROVE  RequestsInv' /\ [Next]_tables
<1>1. req[r].id \in VS
  BY DEF PlanningInv, RequestsInv, Shape, DeleteVSRow, At
<1>2. PICK reply \in Replies : Answer(r, reply) \/ WroteAndAnswer(r, reply)
  BY DEF DeleteVSRow, Replies
<1>3. DeleteVS(req[r].id) \/ UNCHANGED tables BY DEF DeleteVSRow
<1> QED BY <1>1, <1>2, <1>3, AnswerInv DEF PlanningInv, Next

-------------------------------------------------------------------------------
LEMMA BeginDeleteStep ==
  ASSUME PlanningInv, NEW r \in Requests, NEW force \in BOOLEAN,
         \/ \E p \in Volunteers : BeginDeleteVolunteer(r, p, force)
         \/ \E c \in Cars : BeginDeleteCar(r, c, force)
  PROVE  RequestsInv' /\ [Next]_tables
<1>1. PICK op \in {"deleteVolunteer", "deleteCar"}, id \in RowIds,
           used \in SUBSET Trips :
        /\ op = "deleteVolunteer" => id \in Volunteers
        /\ op = "deleteCar" => id \in Cars
        /\ BeginDelete(r, op, id, force, used)
  BY DEF BeginDeleteVolunteer, BeginDeleteCar, PlanningInv, TablesInv, TablesOK,
         TripsOf, TripsIn, Ids, RowIds, IdSpace
<1>2. CASE used # {} /\ ~force
  <2>1. op \in Ops /\ "conflict" \in Replies BY DEF Ops, Replies
  <2>2. Begin(r, Refused(op, "conflict")) BY <1>1, <1>2 DEF BeginDelete
  <2> QED BY <1>1, <2>1, <2>2, RefusedBegin DEF BeginDelete
<1>3. CASE ~(used # {} /\ ~force)
  <2> DEFINE pc == IF used = {} THEN AfterTrips(op) ELSE "deleteTrips"
             x == [Started(op, id, pc) EXCEPT !.force = force, !.pending = used]
  <2>1. /\ pc \in {"readCars", "deleteRow", "deleteTrips"}
        /\ pc = "deleteTrips" => force
    BY <1>3 DEF AfterTrips
  <2>2. used \in SUBSET RowIds BY DEF RowIds, IdSpace
  <2> HIDE DEF pc
  <2>3. x \in RequestRecord
    BY <2>1, <2>2 DEF Started, Free, RequestRecord, Replies, Ops, Steps
  <2>4. Shape(x)
    BY <1>1, <2>1 DEF Shape, Started, Free
  <2>5. Begin(r, x) BY <1>1, <1>3 DEF BeginDelete, pc
  <2> HIDE DEF x
  <2> QED BY <1>1, <2>3, <2>4, <2>5, BeginInv DEF PlanningInv, BeginDelete
<1> QED BY <1>2, <1>3

LEMMA DeletePendingTripStep ==
  ASSUME PlanningInv, NEW r \in Requests, NEW t \in Trips,
         DeletePendingTrip(r, t)
  PROVE  RequestsInv' /\ [Next]_tables
<1>0. req[r] \in RequestRecord /\ Shape(req[r])
  BY DEF PlanningInv, RequestsInv
<1> DEFINE pc == IF req[r].pending = {t} THEN AfterTrips(req[r].op)
                                        ELSE req[r].pc
           wrote == req[r].wrote \/ t \in Ids(trips)
           x == [req[r] EXCEPT !.pending = req[r].pending \ {t}, !.pc = pc,
                               !.wrote = wrote]
<1>1. /\ pc \in {"readCars", "deleteRow", "deleteTrips"}
      /\ pc = "deleteTrips" => req[r].force
  BY <1>0 DEF AfterTrips, DeletePendingTrip, Shape
<1>2. wrote \in BOOLEAN BY <1>0 DEF RequestRecord
<1> HIDE DEF pc, wrote
<1>3. x \in RequestRecord BY <1>0, <1>1, <1>2 DEF RequestRecord, Steps
<1>4. Shape(x)
  BY <1>0, <1>1 DEF Shape, RequestRecord, DeletePendingTrip
<1>5. req' = [req EXCEPT ![r] = x]
  BY <1>0 DEF DeletePendingTrip, PlanningInv, RequestsInv, RequestRecord,
              pc, wrote
<1>6. DeleteTrips({t}) /\ {t} \in SUBSET Trips BY DEF DeletePendingTrip
<1> HIDE DEF x
<1> QED BY <1>3, <1>4, <1>5, <1>6, MoveInv DEF PlanningInv, Next

LEMMA ReadCarsStep ==
  ASSUME PlanningInv, NEW r \in Requests, ReadCars(r)
  PROVE  RequestsInv' /\ [Next]_tables
<1>1. "conflict" \in Replies /\ "deleteRow" \in Steps /\ req[r].pc # "reply"
  BY DEF Replies, Steps, ReadCars, At
<1>2. Answer(r, "conflict") \/ Goto(r, "deleteRow")
  BY DEF ReadCars
<1> QED BY <1>1, <1>2, AnswerInv, GotoInv DEF PlanningInv, ReadCars

LEMMA DeleteRowStep ==
  ASSUME PlanningInv, NEW r \in Requests,
         DeleteVolunteerRow(r) \/ DeleteCarRow(r)
  PROVE  RequestsInv' /\ [Next]_tables
<1>1. /\ DeleteVolunteerRow(r) => req[r].id \in Volunteers
      /\ DeleteCarRow(r) => req[r].id \in Cars
  BY DEF PlanningInv, RequestsInv, Shape, DeleteVolunteerRow, DeleteCarRow, At
<1>2. PICK reply \in Replies : Answer(r, reply) \/ WroteAndAnswer(r, reply)
  BY DEF DeleteVolunteerRow, DeleteCarRow, Replies
<1>3. \/ DeleteVolunteerRow(r) /\ DeleteVolunteer(req[r].id)
      \/ DeleteCarRow(r) /\ DeleteCar(req[r].id)
      \/ UNCHANGED tables
  BY DEF DeleteVolunteerRow, DeleteCarRow
<1> QED BY <1>1, <1>2, <1>3, AnswerInv DEF PlanningInv, Next

-------------------------------------------------------------------------------
LEMMA RejectInputStep ==
  ASSUME PlanningInv, NEW r \in Requests, RejectInput(r)
  PROVE  RequestsInv' /\ [Next]_tables
<1>1. "create" \in Ops /\ "invalid" \in Replies BY DEF Ops, Replies
<1> QED BY <1>1, RefusedBegin DEF RejectInput

LEMMA StatementFailsStep ==
  ASSUME PlanningInv, NEW r \in Requests, StatementFails(r)
  PROVE  RequestsInv' /\ [Next]_tables
<1>1. req[r] \in RequestRecord /\ "error" \in Replies
  BY DEF PlanningInv, RequestsInv, Replies
<1> DEFINE y == Answered(req[r], "error")
           x == [y EXCEPT !.disturbed = TRUE]
<1>2. y \in RequestRecord /\ Shape(y) BY <1>1, AnsweredRecord
<1> HIDE DEF y
<1>3. x \in RequestRecord /\ Shape(x) BY <1>2 DEF RequestRecord, Shape
<1>4. req' = [req EXCEPT ![r] = x] BY DEF StatementFails, y
<1> HIDE DEF x
<1> QED BY <1>3, <1>4, MoveInv DEF PlanningInv, StatementFails

LEMMA RespondStep ==
  ASSUME PlanningInv, NEW r \in Requests, Respond(r)
  PROVE  RequestsInv' /\ [Next]_tables
<1>1. Free \in RequestRecord /\ Shape(Free)
  BY DEF Free, RequestRecord, Shape, Steps, Replies
<1> QED BY <1>1, MoveInv DEF PlanningInv, Respond

-------------------------------------------------------------------------------
LEMMA HandleStep ==
  ASSUME PlanningInv, NEW r \in Requests, Handle(r)
  PROVE  RequestsInv' /\ [Next]_tables
BY ReadBackStep, WriteCarStep, CountStep, CountTripsStep, ForceCascadeStep,
   DeleteVSRowStep, DeletePendingTripStep, ReadCarsStep, DeleteRowStep,
   StatementFailsStep, RespondStep
   DEF Handle

LEMMA ArriveStep ==
  ASSUME PlanningInv, NEW r \in Requests, Arrive(r)
  PROVE  RequestsInv' /\ [Next]_tables
<1>0. VS \cup Cars \cup Missions \subseteq IdSpace BY DEF IdSpace
<1>1. CASE RejectInput(r) BY <1>1, RejectInputStep
<1>2. ASSUME NEW v \in VS,
             \/ CreateVS(r, v) \/ PatchRow(r, v)
             \/ \E force \in BOOLEAN : BeginDeleteVS(r, v, force)
      PROVE  RequestsInv' /\ [Next]_tables
  <2>1. CASE CreateVS(r, v)
    <3>1. /\ v \in RowIds /\ "create" \in Ops
      BY DEF RowIds, IdSpace, Ops
    <3> QED BY <2>1, <3>1, WrittenBegin DEF CreateVS, Next
  <2> QED BY <1>0, <1>2, <2>1, PatchRowStep, BeginDeleteVSStep
<1>3. ASSUME NEW p \in Volunteers, NEW b \in BOOLEAN,
             CreateVolunteer(r, p, b) \/ PatchVolunteer(r, p, b)
      PROVE  RequestsInv' /\ [Next]_tables
  <2>1. /\ p \in RowIds /\ {"create", "update"} \subseteq Ops
        /\ "notFound" \in Replies
    BY DEF RowIds, IdSpace, Ops, Replies
  <2>2. CASE CreateVolunteer(r, p, b)
    BY <2>1, <2>2, WrittenBegin DEF CreateVolunteer, Next
  <2>3. CASE PatchVolunteer(r, p, b)
    BY <2>1, <2>3, WrittenBegin, RefusedBegin DEF PatchVolunteer, Next
  <2> QED BY <1>3, <2>2, <2>3
<1>4. ASSUME NEW p \in Volunteers, NEW b \in BOOLEAN,
             BeginDeleteVolunteer(r, p, b)
      PROVE  RequestsInv' /\ [Next]_tables
  BY <1>4, BeginDeleteStep
<1>5. ASSUME NEW c \in Cars,
             \/ PatchRow(r, c)
             \/ \E d \in Volunteers \cup {None} : CreateCar(r, c, d) \/ PatchCar(r, c, d)
             \/ \E force \in BOOLEAN : BeginDeleteCar(r, c, force)
      PROVE  RequestsInv' /\ [Next]_tables
  BY <1>0, <1>5, PatchRowStep, SaveCarStep, BeginDeleteStep
<1>6. ASSUME NEW m \in Missions, NEW v \in VS, CreateMission(r, m, v)
      PROVE  RequestsInv' /\ [Next]_tables
  <2>1. /\ m \in RowIds /\ "create" \in Ops /\ "error" \in Replies
    BY DEF RowIds, IdSpace, Ops, Replies
  <2> QED BY <1>6, <2>1, WrittenBegin, RefusedBegin DEF CreateMission, Next
<1>7. ASSUME NEW m \in Missions, RemoveMission(r, m) \/ PatchRow(r, m)
      PROVE  RequestsInv' /\ [Next]_tables
  <2>1. "delete" \in Ops /\ "notFound" \in Replies BY DEF Ops, Replies
  <2>2. CASE RemoveMission(r, m)
    BY <2>1, <2>2, RefusedBegin DEF RemoveMission, Next
  <2> QED BY <1>0, <1>7, <2>2, PatchRowStep
<1>8. ASSUME NEW m \in Missions, NEW p \in Volunteers,
             \/ CreateAssignment(r, [mission |-> m, volunteer |-> p])
             \/ RemoveAssignment(r, [mission |-> m, volunteer |-> p])
      PROVE  RequestsInv' /\ [Next]_tables
  BY <1>8, AssignmentStep
<1>9. ASSUME NEW t \in Trips, RemoveTrip(r, t)
      PROVE  RequestsInv' /\ [Next]_tables
  BY <1>9, RemoveTripStep
<1>10. ASSUME NEW t \in Trips, NEW d \in Volunteers, NEW c \in Cars,
              NEW route \in Routes, NEW riders \in SUBSET Riders(route),
              \/ CreateTrip(r, t, d, c, route, riders)
              \/ PutTrip(r, t, d, c, route, riders)
       PROVE  RequestsInv' /\ [Next]_tables
  BY <1>10, TripStep
<1> QED
  BY <1>1, <1>2, <1>3, <1>4, <1>5, <1>6, <1>7, <1>8, <1>9, <1>10 DEF Arrive

LEMMA PlanningStep ==
  ASSUME PlanningInv, [PlanningNext]_vars
  PROVE  PlanningInv' /\ [Next]_tables
<1>1. RequestsInv' /\ [Next]_tables
  <2>1. CASE UNCHANGED vars
    BY <2>1 DEF vars, PlanningInv, RequestsInv, Shape
  <2>2. CASE PlanningNext
    BY <2>2, HandleStep, ArriveStep DEF PlanningNext
  <2> QED BY <2>1, <2>2
<1> QED BY <1>1, TablesStep DEF PlanningInv

LEMMA PlanningStart == PlanningInit => PlanningInv
<1> SUFFICES ASSUME PlanningInit PROVE PlanningInv
  OBVIOUS
<1>1. Free \in RequestRecord /\ Shape(Free)
  BY DEF Free, RequestRecord, Shape, Steps, Replies
<1> QED BY <1>1, TablesInit DEF PlanningInit, PlanningInv, RequestsInv

(* The invariant of the handlers, for any number of overlapping requests.    *)
THEOREM PlanningCorrect == PlanningSpec => []PlanningInv
<1>1. PlanningInv /\ [PlanningNext]_vars => PlanningInv' BY PlanningStep
<1> QED BY <1>1, PlanningStart, PTL DEF PlanningSpec

(* The handlers implement the schema: seen from the tables, every            *)
(* interleaving of requests is a sequence of its transactions.               *)
THEOREM PlanningImplementsSchema == PlanningSpec => Spec
<1>1. PlanningInit => Init BY DEF PlanningInit
<1>2. PlanningInv /\ [PlanningNext]_vars => [Next]_tables BY PlanningStep
<1> QED BY <1>1, <1>2, PlanningCorrect, PTL DEF PlanningSpec, Spec

(* Tables and request records keep their types (TypeOK).                     *)
THEOREM PlanningTypes == PlanningSpec => []TypeOK
<1>1. PlanningInv => TypeOK BY DEF PlanningInv, TablesInv, RequestsInv, TypeOK
<1> QED BY <1>1, PlanningCorrect, PTL

(* No interleaving of handlers leaves a row whose parent is gone.            *)
THEOREM PlanningKeysHold == PlanningSpec => []ReferentialIntegrity
<1>1. PlanningInv => ReferentialIntegrity BY DEF PlanningInv, TablesInv
<1> QED BY <1>1, PlanningCorrect, PTL

(* No interleaving of handlers leaves a trip half written.                   *)
THEOREM PlanningTripsWhole == PlanningSpec => []TripsAreWhole
<1>1. PlanningInv => TripsAreWhole BY DEF PlanningInv, TablesInv
<1> QED BY <1>1, PlanningCorrect, PTL

-------------------------------------------------------------------------------
(* A request that arrives moves no other request to another statement.       *)
LEMMA ArriveBegins ==
  ASSUME NEW r \in Requests, Arrive(r), NEW q \in Requests, InFlight(q)
  PROVE  req'[q].pc = req[q].pc
<1> DEFINE Begun == \E x : Begin(r, x)
<1>1. Begun
  <2>1. RejectInput(r) => Begun BY DEF RejectInput
  <2>2. \A v : \/ CreateVS(r, v) \/ PatchRow(r, v)
               \/ \E force \in BOOLEAN : BeginDeleteVS(r, v, force)
               => Begun
    BY DEF CreateVS, PatchRow, BeginDeleteVS
  <2>3. \A p, b : \/ CreateVolunteer(r, p, b) \/ PatchVolunteer(r, p, b)
                  \/ BeginDeleteVolunteer(r, p, b)
                  => Begun
    BY DEF CreateVolunteer, PatchVolunteer, BeginDeleteVolunteer, BeginDelete
  <2>4. \A c, d : CreateCar(r, c, d) \/ PatchCar(r, c, d) => Begun
    BY DEF CreateCar, PatchCar, SaveCar
  <2>5. \A c, force : BeginDeleteCar(r, c, force) => Begun
    BY DEF BeginDeleteCar, BeginDelete
  <2>6. \A m, v : CreateMission(r, m, v) \/ RemoveMission(r, m)
                  => Begun
    BY DEF CreateMission, RemoveMission
  <2>7. \A a : CreateAssignment(r, a) \/ RemoveAssignment(r, a)
               => Begun
    BY DEF CreateAssignment, RemoveAssignment
  <2>8. \A t : RemoveTrip(r, t) => Begun BY DEF RemoveTrip
  <2>9. \A t, d, c, route, riders :
          CreateTrip(r, t, d, c, route, riders)
            \/ PutTrip(r, t, d, c, route, riders)
          => Begun
    BY DEF CreateTrip, PutTrip
  <2> HIDE DEF Begun
  <2> QED
    BY <2>1, <2>2, <2>3, <2>4, <2>5, <2>6, <2>7, <2>8, <2>9 DEF Arrive
<1>2. PICK x : Begin(r, x) BY <1>1
<1>3. req'[q] = [req[q] EXCEPT !.disturbed = TRUE]
  BY <1>2 DEF Begin
<1> QED BY <1>3

(* A statement of one request leaves the record of every other alone.        *)
LEMMA HandleOwn ==
  ASSUME RequestsInv, NEW r \in Requests, Handle(r), NEW q \in Requests, q # r
  PROVE  req'[q] = req[q]
<1>1. \E x : req' = [req EXCEPT ![r] = x]
  BY DEF Handle, ReadBack, WriteNewCar, WriteCar, CountMissions,
         CountAssignments, Count, CountTrips, ForceCascade, DeleteVSRow,
         DeletePendingTrip, ReadCars, DeleteVolunteerRow, DeleteCarRow,
         StatementFails, Respond, Answer, Goto, WroteAndGoto, WroteAndAnswer
<1> QED BY <1>1 DEF RequestsInv

(* Only the two clearing statements of a forced delete touch a trip.         *)
LEMMA UnforcedHandleKeepsTrips ==
  ASSUME RequestsInv, NEW r \in Requests, Handle(r), ~req[r].force
  PROVE  trips' = trips /\ stops' = stops
<1>1. req[r].pc \notin {"cascade", "deleteTrips"}
  BY DEF RequestsInv, Shape
<1>2. /\ ~ForceCascade(r)
      /\ \A t \in Trips : ~DeletePendingTrip(r, t)
  BY <1>1 DEF ForceCascade, DeletePendingTrip, At
<1> USE DEF tables
<1>3. CASE ReadBack(r) BY <1>3 DEF ReadBack
<1>4. CASE WriteNewCar(r) BY <1>4 DEF WriteNewCar, InsertCar
<1>5. CASE WriteCar(r) BY <1>5 DEF WriteCar, UpdateCar
<1>6. CASE CountMissions(r) BY <1>6 DEF CountMissions, Count
<1>7. CASE CountAssignments(r) BY <1>7 DEF CountAssignments, Count
<1>8. CASE CountTrips(r) BY <1>8 DEF CountTrips
<1>9. CASE DeleteVSRow(r) BY <1>9 DEF DeleteVSRow, DeleteVS
<1>10. CASE ReadCars(r) BY <1>10 DEF ReadCars
<1>11. CASE DeleteVolunteerRow(r) BY <1>11 DEF DeleteVolunteerRow, DeleteVolunteer
<1>12. CASE DeleteCarRow(r) BY <1>12 DEF DeleteCarRow, DeleteCar
<1>13. CASE StatementFails(r) BY <1>13 DEF StatementFails
<1>14. CASE Respond(r) BY <1>14 DEF Respond
<1> QED
  BY <1>2, <1>3, <1>4, <1>5, <1>6, <1>7, <1>8, <1>9, <1>10, <1>11, <1>12,
     <1>13, <1>14 DEF Handle

(* A delete that was not forced removes no trip and no stop of one, in any   *)
(* interleaving with any number of other requests.                           *)
THEOREM UnforcedDeletesSafe == PlanningSpec => UnforcedDeletesKeepTrips
<1>1. ASSUME PlanningInv, [PlanningNext]_vars
      PROVE  UnforcedStepKeepsTrips
  <2> SUFFICES ASSUME NEW q \in Requests, InFlight(q), ~req[q].force,
                      req'[q].pc # req[q].pc
               PROVE  trips' = trips /\ stops' = stops
    BY DEF UnforcedStepKeepsTrips
  <2>1. CASE UNCHANGED vars BY <2>1 DEF vars, tables
  <2>2. ASSUME NEW r \in Requests, Arrive(r)
        PROVE  FALSE
    BY <2>2, ArriveBegins
  <2>3. ASSUME NEW r \in Requests, Handle(r)
        PROVE  trips' = trips /\ stops' = stops
    <3>1. r = q BY <1>1, <2>3, HandleOwn DEF PlanningInv
    <3> QED BY <1>1, <2>3, <3>1, UnforcedHandleKeepsTrips DEF PlanningInv
  <2> QED BY <1>1, <2>1, <2>2, <2>3 DEF PlanningNext
<1>2. PlanningInv /\ [PlanningNext]_vars => [UnforcedStepKeepsTrips]_vars
  BY <1>1
<1> QED
  BY <1>2, PlanningCorrect, PTL
     DEF PlanningSpec, UnforcedDeletesKeepTrips
-------------------------------------------------------------------------------
(* A request that nobody disturbs: no other is in flight, so what its        *)
(* handler has read still holds when it writes.                              *)
Counted(r) ==
  CASE req[r].pc = "countMissions" -> {}
    [] req[r].pc = "countAssignments" -> MissionsAt(req[r].id)
    [] OTHER -> MissionsAt(req[r].id) \cup AssignmentsAt(req[r].id)
SoundVS(r) ==
  /\ req[r].pc \in {"countMissions", "countAssignments", "countTrips"} =>
       ~req[r].force /\ ~req[r].wrote /\ req[r].pending = Counted(r)
  /\ req[r].pc = "cascade" => ~req[r].wrote
  /\ req[r].pc = "deleteRow" =>
       IF req[r].force THEN ~VSRestricted(req[r].id) /\ (req[r].wrote => req[r].id \in vs)
                       ELSE ~req[r].wrote /\ MissionsAt(req[r].id) = {}
SoundDelete(r, used, rows) ==
  /\ req[r].pc = "deleteTrips" => req[r].pending = used
  /\ req[r].pc \in {"readCars", "deleteRow"} => used = {}
  /\ req[r].pc \in {"deleteTrips", "readCars", "deleteRow"} /\ req[r].wrote =>
       req[r].force /\ req[r].id \in Ids(rows)
Sound(r) ==
  /\ req[r].pc = "readBack" => Present(req[r].id)
  /\ req[r].pc = "write" => ~req[r].wrote
  /\ req[r].pc = "deleteTrips" => req[r].op \in {"deleteVolunteer", "deleteCar"}
  /\ req[r].op = "deleteVS" => SoundVS(r)
  /\ req[r].op = "deleteVolunteer" => SoundDelete(r, TripsOf(req[r].id), volunteers)
  /\ req[r].op = "deleteCar" => SoundDelete(r, TripsIn(req[r].id), cars)
  /\ req[r].pc = "reply" =>
       /\ req[r].reply # "ok" => ~req[r].wrote
       /\ req[r].force /\ req[r].op \in Deletes => req[r].reply \in {"ok", "notFound"}
Alone(r) == \A q \in Requests \ {r} : ~InFlight(q)
SerialInv ==
  /\ PlanningInv
  /\ \A r \in Requests : InFlight(r) /\ Serial(r) => Sound(r) /\ Alone(r)

LEMMA RecordFields ==
  ASSUME RequestsInv, NEW r \in Requests
  PROVE  /\ DOMAIN req = Requests /\ req[r] \in RequestRecord
         /\ req[r].wrote \in BOOLEAN /\ req[r].force \in BOOLEAN /\ req[r].disturbed \in BOOLEAN
BY DEF RequestsInv, RequestRecord

(* An answer ends a sound handler when it says what was done.                *)
LEMMA AnswerSound ==
  ASSUME RequestsInv, NEW r \in Requests, NEW reply \in Replies,
         \/ Answer(r, reply) /\ (reply # "ok" => ~req[r].wrote)
         \/ WroteAndAnswer(r, reply) /\ reply = "ok",
         req[r].force /\ req[r].op \in Deletes => reply \in {"ok", "notFound"}
  PROVE  Sound(r)'
<1>1. req[r] \in RequestRecord /\ DOMAIN req = Requests
  BY RecordFields
<1>2. req'[r] = Answered(req[r], reply) \/ (req'[r] = Wrote(Answered(req[r], reply)) /\ reply = "ok")
  BY <1>1 DEF Answer, WroteAndAnswer
<1>3. /\ req'[r].pc = "reply" /\ req'[r].reply = reply
      /\ req'[r].op = req[r].op /\ req'[r].force = req[r].force
      /\ reply # "ok" => req'[r].wrote = req[r].wrote
  BY <1>1, <1>2 DEF Answered, Wrote, RequestRecord
<1>4. reply # "ok" => ~req[r].wrote
  OBVIOUS
<1> QED
  BY <1>3, <1>4 DEF Sound, SoundVS, SoundDelete

LEMMA GotoFields ==
  ASSUME RequestsInv, NEW r \in Requests, NEW pc, Goto(r, pc) \/ WroteAndGoto(r, pc)
  PROVE  /\ req'[r].pc = pc /\ req'[r].op = req[r].op /\ req'[r].id = req[r].id
         /\ req'[r].force = req[r].force /\ req'[r].pending = req[r].pending
         /\ Goto(r, pc) => req'[r].wrote = req[r].wrote
<1>1. req[r] \in RequestRecord /\ DOMAIN req = Requests
  BY RecordFields
<1> QED
  BY <1>1 DEF Goto, WroteAndGoto, RequestRecord

-------------------------------------------------------------------------------
(* The statements of an undisturbed request.                                 *)
LEMMA SerialReadBack ==
  ASSUME SerialInv, NEW r \in Requests, Sound(r), ReadBack(r)
  PROVE  Sound(r)'
<1>1. Answer(r, "ok") /\ "ok" \in Replies
  BY DEF ReadBack, Sound, Replies
<1> QED
  BY <1>1, AnswerSound DEF SerialInv, PlanningInv

LEMMA SerialWriteCar ==
  ASSUME SerialInv, NEW r \in Requests, Sound(r), WriteNewCar(r) \/ WriteCar(r)
  PROVE  Sound(r)'
<1>1. req[r].pc = "write" /\ ~req[r].wrote /\ req[r].op \in {"createCar", "updateCar"}
  BY DEF Sound, WriteNewCar, WriteCar, At
<1>2. ASSUME NEW reply \in {"error", "notFound"}, Answer(r, reply) PROVE Sound(r)'
  BY <1>1, <1>2, AnswerSound DEF SerialInv, PlanningInv, Replies, Deletes
<1>3. ASSUME WroteAndGoto(r, "readBack"), InsertCar(req[r].id, req[r].driver) \/ UpdateCar(req[r].id, req[r].driver)
      PROVE  Sound(r)'
  <2>1. req'[r].pc = "readBack" /\ req'[r].op = req[r].op /\ req'[r].id = req[r].id
    BY <1>3, GotoFields DEF SerialInv, PlanningInv
  <2>2. [id |-> req[r].id, driver |-> req[r].driver] \in cars'
    BY <1>3 DEF InsertCar, UpdateCar
  <2>3. req[r].id \in Ids(cars')
    BY <2>2 DEF Ids
  <2> QED
    BY <1>1, <2>1, <2>3 DEF Sound, Present
<1> QED
  BY <1>2, <1>3 DEF WriteNewCar, WriteCar

LEMMA SerialCount ==
  ASSUME SerialInv, NEW r \in Requests, Sound(r),
         CountMissions(r) \/ CountAssignments(r) \/ CountTrips(r)
  PROVE  Sound(r)'
<1>1. req[r].op = "deleteVS" /\ UNCHANGED tables /\ RequestsInv
      /\ req[r].pc \in {"countMissions", "countAssignments", "countTrips"}
  BY DEF CountMissions, CountAssignments, CountTrips, Count, At, SerialInv, PlanningInv
<1>2. ~req[r].force /\ ~req[r].wrote /\ req[r].pending = Counted(r)
  BY <1>1 DEF Sound, SoundVS
<1>3. CASE CountMissions(r) \/ CountAssignments(r)
  <2> DEFINE rows == IF req[r].pc = "countMissions" THEN MissionsAt(req[r].id) ELSE AssignmentsAt(req[r].id)
             to == IF req[r].pc = "countMissions" THEN "countAssignments" ELSE "countTrips"
  <2>1. req' = [req EXCEPT ![r].pc = to, ![r].pending = @ \cup rows] /\ req[r].pc \in {"countMissions", "countAssignments"}
    BY <1>3 DEF CountMissions, CountAssignments, Count, At
  <2>2. /\ req'[r].pc = to /\ req'[r].pending = req[r].pending \cup rows
        /\ req'[r].op = req[r].op /\ req'[r].id = req[r].id
        /\ req'[r].force = req[r].force /\ req'[r].wrote = req[r].wrote
    BY <1>1, <2>1, RecordFields DEF RequestRecord
  <2>3. MissionsAt(req[r].id)' = MissionsAt(req'[r].id) /\ AssignmentsAt(req[r].id)' = AssignmentsAt(req'[r].id)
    BY <1>1, <2>2 DEF tables, MissionsAt, AssignmentsAt
  <2>4. req'[r].pending = Counted(r)'
    <3>1. CASE req[r].pc = "countMissions"
      BY <1>2, <2>2, <2>3, <3>1 DEF Counted
    <3>2. CASE req[r].pc = "countAssignments"
      BY <1>2, <2>2, <2>3, <3>2 DEF Counted
    <3> QED
      BY <2>1, <3>1, <3>2
  <2> QED
    BY <1>1, <1>2, <2>1, <2>2, <2>4 DEF Sound, SoundVS
<1>4. CASE CountTrips(r)
  <2>1. CASE Answer(r, "conflict")
    BY <1>1, <1>2, <2>1, AnswerSound DEF Replies
  <2>2. CASE Goto(r, "deleteRow") /\ req[r].pending = {}
    <3>1. MissionsAt(req[r].id) = {}
      BY <1>2, <1>4, <2>2 DEF Counted, CountTrips, At
    <3>2. /\ req'[r].pc = "deleteRow" /\ req'[r].op = "deleteVS" /\ req'[r].id = req[r].id
          /\ ~req'[r].force /\ ~req'[r].wrote
      BY <1>1, <1>2, <2>2, GotoFields
    <3>3. MissionsAt(req[r].id)' = {}
      BY <1>1, <3>1, <3>2 DEF tables, MissionsAt
    <3> QED
      BY <3>2, <3>3 DEF Sound, SoundVS
  <2> QED
    BY <1>4, <2>1, <2>2 DEF CountTrips
<1> QED
  BY <1>3, <1>4

LEMMA SerialCascade ==
  ASSUME SerialInv, NEW r \in Requests, Sound(r), ForceCascade(r)
  PROVE  Sound(r)'
<1> DEFINE v == req[r].id
           to == TripsAt(v)
<1>1. /\ req[r].op = "deleteVS" /\ req[r].pc = "cascade" /\ ~req[r].wrote /\ req[r].force
      /\ DeleteTrips(to) /\ RequestsInv
  BY DEF ForceCascade, At, Sound, SoundVS, SerialInv, PlanningInv, RequestsInv, Shape
<1>2. /\ req'[r].pc = "deleteRow" /\ req'[r].op = "deleteVS" /\ req'[r].id = v /\ req'[r].force
      /\ req'[r].wrote => to # {}
  BY <1>1, GotoFields DEF ForceCascade
<1>3. to # {} => v \in vs
  BY DEF TripsAt, SerialInv, PlanningInv, TablesInv, ReferentialIntegrity
<1>4. vs' = vs /\ \A s \in stops' : s \in stops /\ s.trip \notin to
  BY <1>1 DEF DeleteTrips
<1>5. \A s \in stops' : s.vs # v
  BY <1>4 DEF TripsAt
<1> QED
  BY <1>2, <1>3, <1>4, <1>5 DEF Sound, SoundVS, VSRestricted

LEMMA SerialDeleteVS ==
  ASSUME SerialInv, NEW r \in Requests, Sound(r), DeleteVSRow(r)
  PROVE  Sound(r)'
<1>1. /\ req[r].op = "deleteVS" /\ req[r].pc = "deleteRow" /\ RequestsInv
      /\ IF req[r].force THEN ~VSRestricted(req[r].id) /\ (req[r].wrote => req[r].id \in vs)
                         ELSE ~req[r].wrote
  BY DEF DeleteVSRow, At, Sound, SoundVS, SerialInv, PlanningInv
<1>2. {"ok", "notFound", "conflict"} \subseteq Replies
  BY DEF Replies
<1> QED
  BY <1>1, <1>2, AnswerSound DEF DeleteVSRow

LEMMA SerialDeleteTrip ==
  ASSUME SerialInv, NEW r \in Requests, Sound(r), NEW t \in Trips, DeletePendingTrip(r, t)
  PROVE  Sound(r)'
<1>1. /\ req[r].pc = "deleteTrips" /\ req[r].op \in {"deleteVolunteer", "deleteCar"} /\ req[r].force
      /\ DeleteTrips({t}) /\ RequestsInv /\ ReferentialIntegrity /\ t \in req[r].pending
  BY DEF DeletePendingTrip, Sound, SerialInv, PlanningInv, TablesInv, RequestsInv, Shape
<1>2. trips' = {x \in trips : x.id # t} /\ volunteers' = volunteers /\ cars' = cars
  BY <1>1 DEF DeleteTrips
<1>3. /\ req'[r].pending = req[r].pending \ {t} /\ req'[r].id = req[r].id
      /\ req'[r].op = req[r].op /\ req'[r].force = req[r].force
      /\ req'[r].pc = IF req[r].pending = {t} THEN AfterTrips(req[r].op) ELSE "deleteTrips"
  <2>1. /\ DOMAIN req = Requests
        /\ DOMAIN req[r] = {"op", "pc", "id", "driver", "force", "pending", "reply", "wrote", "disturbed"}
    BY <1>1, RecordFields DEF RequestRecord
  <2> HIDE DEF RequestsInv
  <2> QED
    BY <1>1, <2>1 DEF DeletePendingTrip
<1>4. CASE req[r].op = "deleteVolunteer"
  <2>1. req[r].pending = TripsOf(req[r].id)
    BY <1>1, <1>4 DEF Sound, SoundDelete
  <2>2. TripsOf(req[r].id)' = TripsOf(req[r].id) \ {t}
    BY <1>2, <1>3 DEF TripsOf, Ids
  <2>3. req[r].id \in Ids(volunteers)
    BY <1>1, <2>1 DEF TripsOf, Ids, ReferentialIntegrity
  <2>4. req'[r].pc = IF req[r].pending = {t} THEN "readCars" ELSE "deleteTrips"
    BY <1>3, <1>4 DEF AfterTrips
  <2> QED
    BY <1>1, <1>2, <1>3, <1>4, <2>1, <2>2, <2>3, <2>4 DEF Sound, SoundDelete
<1>5. CASE req[r].op = "deleteCar"
  <2>1. req[r].pending = TripsIn(req[r].id)
    BY <1>1, <1>5 DEF Sound, SoundDelete
  <2>2. TripsIn(req[r].id)' = TripsIn(req[r].id) \ {t}
    BY <1>2, <1>3 DEF TripsIn, Ids
  <2>3. req[r].id \in Ids(cars)
    BY <1>1, <2>1 DEF TripsIn, Ids, ReferentialIntegrity
  <2>4. req'[r].pc = IF req[r].pending = {t} THEN "deleteRow" ELSE "deleteTrips"
    BY <1>3, <1>5 DEF AfterTrips
  <2> QED
    BY <1>1, <1>2, <1>3, <1>5, <2>1, <2>2, <2>3, <2>4 DEF Sound, SoundDelete
<1> QED
  BY <1>1, <1>4, <1>5

LEMMA SerialReadCars ==
  ASSUME SerialInv, NEW r \in Requests, Sound(r), ReadCars(r)
  PROVE  Sound(r)'
<1>1. /\ req[r].op = "deleteVolunteer" /\ req[r].pc = "readCars" /\ UNCHANGED tables /\ RequestsInv
      /\ TripsOf(req[r].id) = {} /\ (req[r].wrote => req[r].force /\ req[r].id \in Ids(volunteers))
  BY DEF ReadCars, At, Sound, SoundDelete, SerialInv, PlanningInv
<1>2. CASE Answer(r, "conflict") /\ ~req[r].force
  BY <1>1, <1>2, AnswerSound DEF Replies
<1>3. CASE Goto(r, "deleteRow")
  <2>1. /\ req'[r].pc = "deleteRow" /\ req'[r].op = "deleteVolunteer" /\ req'[r].id = req[r].id
        /\ req'[r].force = req[r].force /\ req'[r].wrote = req[r].wrote
    BY <1>1, <1>3, GotoFields
  <2>2. TripsOf(req[r].id)' = {} /\ volunteers' = volunteers
    BY <1>1, <2>1 DEF tables, TripsOf
  <2> QED
    BY <1>1, <2>1, <2>2 DEF Sound, SoundDelete
<1> QED
  BY <1>2, <1>3 DEF ReadCars

LEMMA SerialDeleteRow ==
  ASSUME SerialInv, NEW r \in Requests, Sound(r), DeleteVolunteerRow(r) \/ DeleteCarRow(r)
  PROVE  Sound(r)'
<1>1. RequestsInv /\ {"ok", "notFound", "error"} \subseteq Replies
  BY DEF Replies, SerialInv, PlanningInv
<1>2. CASE DeleteVolunteerRow(r)
  <2>1. TripsOf(req[r].id) = {} /\ (req[r].wrote => req[r].id \in Ids(volunteers))
    BY <1>2 DEF DeleteVolunteerRow, At, Sound, SoundDelete
  <2>2. ~VolunteerRestricted(req[r].id)
    BY <2>1 DEF TripsOf, Ids, VolunteerRestricted
  <2> QED
    BY <1>1, <1>2, <2>1, <2>2, AnswerSound DEF DeleteVolunteerRow
<1>3. CASE DeleteCarRow(r)
  <2>1. TripsIn(req[r].id) = {} /\ (req[r].wrote => req[r].id \in Ids(cars))
    BY <1>3 DEF DeleteCarRow, At, Sound, SoundDelete
  <2>2. ~CarRestricted(req[r].id)
    BY <2>1 DEF TripsIn, Ids, CarRestricted
  <2> QED
    BY <1>1, <1>3, <2>1, <2>2, AnswerSound DEF DeleteCarRow
<1> QED
  BY <1>2, <1>3

LEMMA SerialHandle ==
  ASSUME SerialInv, NEW r \in Requests, Handle(r),
         NEW q \in Requests, InFlight(q)', Serial(q)'
  PROVE  Sound(q)' /\ Alone(q)'
<1>1. RequestsInv /\ req[r] \in RequestRecord /\ DOMAIN req = Requests
  BY RecordFields DEF SerialInv, PlanningInv
<1>2. InFlight(r)
  BY DEF Handle, ReadBack, WriteNewCar, WriteCar, CountMissions, CountAssignments, Count, CountTrips,
         ForceCascade, DeleteVSRow, DeletePendingTrip, ReadCars, DeleteVolunteerRow, DeleteCarRow,
         StatementFails, Respond, At, InFlight
<1>3. CASE q # r
  <2>1. req'[q] = req[q]
    BY <1>1, <1>3, HandleOwn
  <2>2. Alone(q)
    BY <2>1 DEF SerialInv, InFlight, Serial
  <2> QED
    BY <1>2, <1>3, <2>2 DEF Alone
<1>4. CASE q = r
  <2>1. ~StatementFails(r) /\ ~Respond(r)
    <3>1. ASSUME Respond(r) PROVE FALSE
      BY <1>1, <1>4, <3>1 DEF Respond, Free, InFlight
    <3>2. ASSUME StatementFails(r) PROVE FALSE
      <4>1. req'[r] = [Answered(req[r], "error") EXCEPT !.disturbed = TRUE]
        BY <1>1, <3>2 DEF StatementFails
      <4> QED
        BY <1>1, <1>4, <4>1 DEF Serial, Answered, RequestRecord
    <3> QED
      BY <3>1, <3>2
  <2>2. Serial(r)
    <3>1. ASSUME NEW x, Answer(r, x) \/ WroteAndAnswer(r, x) \/ Goto(r, x) \/ WroteAndGoto(r, x)
          PROVE  req'[r].disturbed = req[r].disturbed
      <4>1. CASE Answer(r, x)
        <5>1. req'[r] = Answered(req[r], x)
          BY <1>1, <4>1 DEF Answer
        <5> QED
          BY <1>1, <5>1 DEF Answered, RequestRecord
      <4>2. CASE WroteAndAnswer(r, x)
        <5>1. req'[r] = Wrote(Answered(req[r], x))
          BY <1>1, <4>2 DEF WroteAndAnswer
        <5> QED
          BY <1>1, <5>1 DEF Answered, Wrote, RequestRecord
      <4>3. CASE Goto(r, x)
        BY <1>1, <4>3 DEF Goto, RequestRecord
      <4>4. CASE WroteAndGoto(r, x)
        BY <1>1, <4>4 DEF WroteAndGoto, RequestRecord
      <4> QED
        BY <3>1, <4>1, <4>2, <4>3, <4>4
    <3>2. ASSUME \E t \in Trips : DeletePendingTrip(r, t) PROVE req'[r].disturbed = req[r].disturbed
      <4>1. PICK t \in Trips : DeletePendingTrip(r, t)
        BY <3>2
      <4> DEFINE pc == IF req[r].pending = {t} THEN AfterTrips(req[r].op) ELSE req[r].pc
                 wrote == req[r].wrote \/ t \in Ids(trips)
      <4>2. req'[r] = [req[r] EXCEPT !.pending = req[r].pending \ {t}, !.pc = pc, !.wrote = wrote]
        BY <1>1, <4>1 DEF DeletePendingTrip, RequestRecord
      <4> HIDE DEF pc, wrote
      <4> QED
        BY <1>1, <4>2 DEF RequestRecord
    <3>3. ASSUME CountMissions(r) \/ CountAssignments(r) PROVE req'[r].disturbed = req[r].disturbed
      BY <1>1, <3>3 DEF CountMissions, CountAssignments, Count, RequestRecord
    <3>4. \/ \E x : Answer(r, x) \/ WroteAndAnswer(r, x) \/ Goto(r, x) \/ WroteAndGoto(r, x)
          \/ \E t \in Trips : DeletePendingTrip(r, t)
          \/ CountMissions(r) \/ CountAssignments(r)
      BY <2>1 DEF Handle, ReadBack, WriteNewCar, WriteCar, CountTrips, ForceCascade, DeleteVSRow,
                  ReadCars, DeleteVolunteerRow, DeleteCarRow
    <3>5. req'[r].disturbed = req[r].disturbed
      BY <3>1, <3>2, <3>3, <3>4
    <3> QED
      BY <1>4, <3>5 DEF Serial
  <2>3. Sound(r) /\ Alone(r)
    BY <1>2, <2>2 DEF SerialInv
  <2>4. Sound(r)'
    BY <2>1, <2>3, SerialReadBack, SerialWriteCar, SerialCount, SerialCascade, SerialDeleteVS,
       SerialDeleteTrip, SerialReadCars, SerialDeleteRow DEF Handle
  <2>5. Alone(r)'
    BY <1>1, <2>3, HandleOwn DEF Alone, InFlight
  <2> QED
    BY <1>4, <2>4, <2>5
<1> QED
  BY <1>3, <1>4

-------------------------------------------------------------------------------
(* The arrivals.                                                             *)
LEMMA BeginAlone ==
  ASSUME RequestsInv, NEW r \in Requests, NEW x \in RequestRecord, Begin(r, x),
         NEW q \in Requests, InFlight(q)', Serial(q)'
  PROVE  q = r /\ Alone(r)' /\ req'[r] = [x EXCEPT !.disturbed = FALSE]
<1>0. req \in [Requests -> RequestRecord]
  BY DEF RequestsInv
<1>1. CASE q # r
  <2>1. req'[q] = IF InFlight(q) THEN [req[q] EXCEPT !.disturbed = TRUE] ELSE req[q]
    BY <1>1 DEF Begin
  <2> QED
    BY <1>0, <2>1 DEF InFlight, Serial, RequestRecord
<1>2. CASE q = r
  <2> DEFINE busy == \E p \in Requests : InFlight(p)
  <2>1. req'[r] = [x EXCEPT !.disturbed = busy]
    BY DEF Begin
  <2>2. req'[r].disturbed = busy
    <3> HIDE DEF busy
    <3> QED
      BY <2>1 DEF RequestRecord
  <2>3. busy = FALSE
    BY <1>2, <2>2, Zenon DEF Serial
  <2>4. \A p \in Requests \ {r} : req'[p] = req[p]
    BY <2>3 DEF Begin
  <2>5. Alone(r)'
    BY <2>3, <2>4 DEF Alone, InFlight
  <2> HIDE DEF busy
  <2> QED
    BY <1>2, <2>1, <2>3, <2>5
<1> QED
  BY <1>1, <1>2

(* A request that arrives undisturbed is in flight alone, and it is sound    *)
(* when its first record is.                                                 *)
SoundStart(r) ==
  \A q \in Requests : InFlight(q)' /\ Serial(q)' => Sound(q)' /\ Alone(q)'

LEMMA WrittenStart ==
  ASSUME RequestsInv, NEW r \in Requests, NEW op \in {"create", "update"}, NEW id \in RowIds,
         Begin(r, Wrote(Started(op, id, "readBack"))), Present(id)'
  PROVE  SoundStart(r)
<1> DEFINE x == Wrote(Started(op, id, "readBack"))
<1>1. x \in RequestRecord /\ x.op = op /\ x.id = id /\ x.pc = "readBack"
  <2>1. op \in Ops /\ "readBack" \in Steps
    BY DEF Ops, Steps
  <2> QED
    BY <2>1, StartedRecord
<1> HIDE DEF x
<1>2. ASSUME req'[r] = [x EXCEPT !.disturbed = FALSE] PROVE Sound(r)'
  <2>1. req'[r].op = op /\ req'[r].id = id /\ req'[r].pc = "readBack"
    BY <1>1, <1>2 DEF RequestRecord
  <2> QED
    BY <2>1 DEF Sound, Present
<1>3. Begin(r, x)
  BY DEF x
<1> QED
  BY <1>1, <1>2, <1>3, BeginAlone DEF SoundStart

LEMMA AnsweredStart ==
  ASSUME RequestsInv, NEW r \in Requests, NEW op \in Ops, NEW reply \in Replies,
         Begin(r, Refused(op, reply)) \/ Begin(r, Done(op))
  PROVE  SoundStart(r)
<1>1. ASSUME NEW x \in {Refused(op, reply), Done(op)}, Begin(r, x) PROVE SoundStart(r)
  <2>1. x \in RequestRecord
    BY RefusedRecord
  <2>2. /\ x.pc = "reply" /\ x.op = op /\ x.force = FALSE
        /\ x.reply # "ok" => x.wrote = FALSE
    BY DEF Refused, Done, Wrote, Started, Free
  <2>3. ASSUME req'[r] = [x EXCEPT !.disturbed = FALSE] PROVE Sound(r)'
    <3>1. /\ req'[r].pc = "reply" /\ req'[r].op = op /\ req'[r].force = FALSE
          /\ req'[r].reply # "ok" => req'[r].wrote = FALSE
      BY <2>1, <2>2, <2>3 DEF RequestRecord
    <3> QED
      BY <3>1 DEF Sound, SoundVS, SoundDelete
  <2> QED
    BY <1>1, <2>1, <2>3, BeginAlone DEF SoundStart
<1> QED
  BY <1>1

LEMMA SaveCarStart ==
  ASSUME RequestsInv, NEW r \in Requests, NEW op \in {"createCar", "updateCar"},
         NEW c \in Cars, NEW d \in Volunteers \cup {None}, SaveCar(r, op, c, d)
  PROVE  SoundStart(r)
<1>1. op \in Ops /\ "write" \in Steps /\ c \in RowIds /\ "invalid" \in Replies
  BY DEF Ops, Steps, RowIds, IdSpace, Replies
<1> DEFINE x == [Started(op, c, "write") EXCEPT !.driver = d]
<1>2. CASE Begin(r, x)
  <2>1. x \in RequestRecord
    BY <1>1 DEF Started, Free, RequestRecord, Replies
  <2>2. x.pc = "write" /\ x.op = op /\ x.wrote = FALSE
    BY DEF Started, Free
  <2> HIDE DEF x
  <2>3. ASSUME req'[r] = [x EXCEPT !.disturbed = FALSE] PROVE Sound(r)'
    <3>1. req'[r].pc = "write" /\ req'[r].op = op /\ req'[r].wrote = FALSE
      BY <2>1, <2>2, <2>3 DEF RequestRecord
    <3> QED
      BY <3>1 DEF Sound
  <2> QED
    BY <1>2, <2>1, <2>3, BeginAlone DEF SoundStart
<1>3. CASE Begin(r, Refused(op, "invalid"))
  BY <1>1, <1>3, AnsweredStart
<1> QED
  BY <1>2, <1>3 DEF SaveCar

LEMMA DeleteVSStart ==
  ASSUME RequestsInv, NEW r \in Requests, NEW v \in VS, NEW force \in BOOLEAN,
         BeginDeleteVS(r, v, force)
  PROVE  SoundStart(r)
<1> DEFINE to == IF force THEN "cascade" ELSE "countMissions"
           x == [Started("deleteVS", v, to) EXCEPT !.force = force]
<1>1. x \in RequestRecord
  BY DEF Started, Free, RequestRecord, Replies, Ops, Steps, RowIds, IdSpace
<1>2. x.pc = to /\ x.op = "deleteVS" /\ x.wrote = FALSE /\ x.force = force /\ x.pending = {}
  BY DEF Started, Free
<1>3. Begin(r, x)
  BY DEF BeginDeleteVS
<1> HIDE DEF x
<1>4. ASSUME req'[r] = [x EXCEPT !.disturbed = FALSE] PROVE Sound(r)'
  <2>1. /\ req'[r].pc = to /\ req'[r].op = "deleteVS" /\ req'[r].wrote = FALSE
        /\ req'[r].force = force /\ req'[r].pending = {}
    BY <1>1, <1>2, <1>4 DEF RequestRecord
  <2>2. to = "countMissions" => Counted(r)' = {}
    BY <2>1 DEF Counted
  <2> QED
    BY <2>1, <2>2 DEF Sound, SoundVS
<1> QED
  BY <1>1, <1>3, <1>4, BeginAlone DEF SoundStart

LEMMA DeleteStart ==
  ASSUME RequestsInv, TablesOK, NEW r \in Requests, NEW force \in BOOLEAN,
         \/ \E p \in Volunteers : BeginDeleteVolunteer(r, p, force)
         \/ \E c \in Cars : BeginDeleteCar(r, c, force)
  PROVE  SoundStart(r)
<1>1. PICK op \in {"deleteVolunteer", "deleteCar"}, id \in RowIds, used \in SUBSET RowIds :
        /\ used = IF op = "deleteVolunteer" THEN TripsOf(id) ELSE TripsIn(id)
        /\ BeginDelete(r, op, id, force, used)
  <2>1. /\ \A id : TripsOf(id) \in SUBSET RowIds /\ TripsIn(id) \in SUBSET RowIds
        /\ Volunteers \cup Cars \subseteq RowIds
    BY DEF TablesOK, TripsOf, TripsIn, Ids, RowIds, IdSpace
  <2>2. CASE \E p \in Volunteers : BeginDeleteVolunteer(r, p, force)
    BY <2>1, <2>2 DEF BeginDeleteVolunteer
  <2>3. CASE \E c \in Cars : BeginDeleteCar(r, c, force)
    BY <2>1, <2>3 DEF BeginDeleteCar
  <2> QED
    BY <2>2, <2>3
<1>2. CASE used # {} /\ ~force
  <2>1. op \in Ops /\ "conflict" \in Replies
    BY DEF Ops, Replies
  <2> QED
    BY <1>1, <1>2, <2>1, AnsweredStart DEF BeginDelete
<1>3. CASE ~(used # {} /\ ~force)
  <2> DEFINE to == IF used = {} THEN AfterTrips(op) ELSE "deleteTrips"
             x == [Started(op, id, to) EXCEPT !.force = force, !.pending = used]
  <2>1. to \in {"readCars", "deleteRow", "deleteTrips"} /\ (to = "deleteTrips" <=> used # {})
    BY DEF AfterTrips
  <2>2. Begin(r, x) /\ UNCHANGED tables
    BY <1>1, <1>3 DEF BeginDelete
  <2> HIDE DEF to
  <2>3. x \in RequestRecord
    BY <2>1 DEF Started, Free, RequestRecord, Replies, Ops, Steps
  <2>4. x.pc = to /\ x.op = op /\ x.id = id /\ x.wrote = FALSE /\ x.pending = used
    BY DEF Started, Free
  <2> HIDE DEF x
  <2>5. ASSUME req'[r] = [x EXCEPT !.disturbed = FALSE] PROVE Sound(r)'
    <3>1. /\ req'[r].pc = to /\ req'[r].op = op /\ req'[r].id = id
          /\ req'[r].wrote = FALSE /\ req'[r].pending = used
      BY <2>3, <2>4, <2>5 DEF RequestRecord
    <3>2. TripsOf(req[r].id)' = TripsOf(id) /\ TripsIn(req[r].id)' = TripsIn(id)
      BY <2>2, <3>1 DEF tables, TripsOf, TripsIn
    <3> QED
      BY <1>1, <2>1, <3>1, <3>2 DEF Sound, SoundDelete
  <2> QED
    BY <2>2, <2>3, <2>5, BeginAlone DEF SoundStart
<1> QED
  BY <1>2, <1>3

LEMMA SerialArrive == ASSUME SerialInv, NEW r \in Requests, Arrive(r) PROVE SoundStart(r)
<1>0. /\ RequestsInv /\ TablesOK
      /\ VS \cup Volunteers \cup Cars \cup Missions \cup Trips \subseteq RowIds
      /\ {"create", "update", "delete"} \subseteq Ops
      /\ {"notFound", "error", "conflict", "invalid", "ok"} \subseteq Replies
  BY DEF SerialInv, PlanningInv, TablesInv, RowIds, IdSpace, Ops, Replies
<1>1. CASE RejectInput(r)
  BY <1>0, <1>1, AnsweredStart DEF RejectInput
<1>2. ASSUME NEW id \in RowIds, PatchRow(r, id) PROVE SoundStart(r)
  <2>1. CASE Begin(r, Wrote(Started("update", id, "readBack"))) /\ Present(id)
    <3>1. Present(id)'
      BY <1>2, <2>1 DEF PatchRow, Present, tables, Ids
    <3> QED
      BY <1>0, <2>1, <3>1, WrittenStart
  <2>2. CASE Begin(r, Refused("update", "notFound"))
    BY <1>0, <2>2, AnsweredStart
  <2> QED
    BY <1>2, <2>1, <2>2 DEF PatchRow
<1>3. ASSUME NEW v \in VS, CreateVS(r, v) PROVE SoundStart(r)
  BY <1>0, <1>3, WrittenStart DEF CreateVS, InsertVS, Present
<1>4. ASSUME NEW p \in Volunteers, NEW b \in BOOLEAN, CreateVolunteer(r, p, b) \/ PatchVolunteer(r, p, b)
      PROVE  SoundStart(r)
  <2>1. ASSUME InsertVolunteer(p, b) \/ UpdateVolunteer(p, b) PROVE Present(p)'
    <3>1. [id |-> p, eligible |-> b] \in volunteers'
      BY <2>1 DEF InsertVolunteer, UpdateVolunteer
    <3> QED
      BY <3>1 DEF Present, Ids
  <2> QED
    BY <1>0, <1>4, <2>1, WrittenStart, AnsweredStart DEF CreateVolunteer, PatchVolunteer
<1>5. ASSUME NEW m \in Missions, NEW v \in VS, CreateMission(r, m, v) PROVE SoundStart(r)
  <2>1. ASSUME InsertMission(m, v) PROVE Present(m)'
    <3>1. [id |-> m, vs |-> v] \in missions'
      BY <2>1 DEF InsertMission
    <3> QED
      BY <3>1 DEF Present, Ids
  <2> QED
    BY <1>0, <1>5, <2>1, WrittenStart, AnsweredStart DEF CreateMission
<1>6. ASSUME NEW m \in Missions, RemoveMission(r, m) PROVE SoundStart(r)
  BY <1>0, <1>6, AnsweredStart DEF RemoveMission
<1>7. ASSUME NEW m \in Missions, NEW p \in Volunteers, NEW a, a = [mission |-> m, volunteer |-> p],
             CreateAssignment(r, a) \/ RemoveAssignment(r, a)
      PROVE  SoundStart(r)
  <2>1. a \in RowIds
    BY <1>7 DEF RowIds
  <2>2. InsertAssignment(a) => Present(a)'
    BY DEF InsertAssignment, Present
  <2> QED
    BY <1>0, <1>7, <2>1, <2>2, WrittenStart, AnsweredStart DEF CreateAssignment, RemoveAssignment
<1>8. ASSUME NEW t \in Trips, NEW d, NEW c, NEW route, NEW riders,
             CreateTrip(r, t, d, c, route, riders) \/ PutTrip(r, t, d, c, route, riders)
      PROVE  SoundStart(r)
  <2>1. ASSUME InsertTrip(t, d, c, route, riders) \/ ReplaceTrip(t, d, c, route, riders) PROVE Present(t)'
    <3>1. TripRow(t, d, c) \in trips' /\ TripRow(t, d, c).id = t
      BY <2>1 DEF InsertTrip, ReplaceTrip, TripRow
    <3> QED
      BY <3>1 DEF Present, Ids
  <2> QED
    BY <1>0, <1>8, <2>1, WrittenStart, AnsweredStart DEF CreateTrip, PutTrip
<1>9. ASSUME NEW t \in Trips, RemoveTrip(r, t) PROVE SoundStart(r)
  BY <1>0, <1>9, AnsweredStart DEF RemoveTrip
<1>10. ASSUME NEW c \in Cars, NEW d \in Volunteers \cup {None}, CreateCar(r, c, d) \/ PatchCar(r, c, d)
       PROVE  SoundStart(r)
  BY <1>0, <1>10, SaveCarStart DEF CreateCar, PatchCar
<1>11. ASSUME NEW v \in VS, NEW force \in BOOLEAN, BeginDeleteVS(r, v, force) PROVE SoundStart(r)
  BY <1>0, <1>11, DeleteVSStart
<1>12. ASSUME NEW force \in BOOLEAN,
              \/ \E p \in Volunteers : BeginDeleteVolunteer(r, p, force)
              \/ \E c \in Cars : BeginDeleteCar(r, c, force)
       PROVE  SoundStart(r)
  BY <1>0, <1>12, DeleteStart
<1> QED
  BY <1>0, <1>1, <1>2, <1>3, <1>4, <1>5, <1>6, <1>7, <1>8, <1>9, <1>10, <1>11, <1>12 DEF Arrive

LEMMA SerialStep == SerialInv /\ [PlanningNext]_vars => SerialInv'
<1> SUFFICES ASSUME SerialInv, [PlanningNext]_vars PROVE SerialInv'
  OBVIOUS
<1>1. PlanningInv'
  BY PlanningStep DEF SerialInv
<1>2. ASSUME NEW q \in Requests, InFlight(q)', Serial(q)' PROVE Sound(q)' /\ Alone(q)'
  <2>1. CASE \E r \in Requests : Handle(r)
    BY <1>2, <2>1, SerialHandle
  <2>2. CASE \E r \in Requests : Arrive(r)
    BY <1>2, <2>2, SerialArrive DEF SoundStart
  <2>3. CASE UNCHANGED vars
    BY <1>2, <2>3 DEF vars, tables, SerialInv, InFlight, Serial, Alone, Sound, SoundVS, SoundDelete,
                      Counted, Present, Ids, TripsOf, TripsIn, MissionsAt, AssignmentsAt, VSRestricted
  <2> QED
    BY <2>1, <2>2, <2>3 DEF PlanningNext
<1> QED
  BY <1>1, <1>2 DEF SerialInv

LEMMA SerialStart == PlanningInit => SerialInv
<1>1. PlanningInit => \A r \in Requests : ~InFlight(r)
  BY DEF PlanningInit, InFlight, Free
<1> QED
  BY <1>1, PlanningStart DEF SerialInv

LEMMA SerialHolds == PlanningSpec => []SerialInv
  BY SerialStart, SerialStep, PTL DEF PlanningSpec

(* A refusal that nobody disturbed has written nothing, in any handler: the  *)
(* middleware may pass a non-2xx answer on without a recompute.              *)
THEOREM RefusalsChangeNothing == PlanningSpec => []SerialRefusalsChangeNothing
<1>1. SerialInv => SerialRefusalsChangeNothing
  BY DEF SerialInv, Sound, InFlight, SerialRefusalsChangeNothing
<1> QED
  BY <1>1, SerialHolds, PTL

(* The trips that ?force=true clears are all that could block the delete of  *)
(* a station, a volunteer or a car.                                          *)
THEOREM ForcedDeletesSucceed == PlanningSpec => []SerialForcedDeletesSucceed
<1>1. SerialInv => SerialForcedDeletesSucceed
  BY DEF SerialInv, Sound, InFlight, SerialForcedDeletesSucceed
<1> QED
  BY <1>1, SerialHolds, PTL

(* Unforced, deleting a station takes nothing with it that its three COUNTs  *)
(* did not see.                                                              *)
THEOREM UnforcedStationsSpare == PlanningSpec => SerialUnforcedSpares
<1> DEFINE Spares == \A r \in Requests :
       At(r, "deleteVS", "deleteRow") /\ req'[r].pc = "reply" /\ ~req[r].force /\ Serial(r)
       => UNCHANGED <<missions, assignments, trips>>
<1>1. ASSUME SerialInv, [PlanningNext]_vars PROVE Spares
  <2> SUFFICES ASSUME NEW r \in Requests, At(r, "deleteVS", "deleteRow"), req'[r].pc = "reply",
                      ~req[r].force, Serial(r)
               PROVE  UNCHANGED <<missions, assignments, trips>>
    OBVIOUS
  <2>1. Sound(r) /\ Alone(r) /\ InFlight(r) /\ RequestsInv
    BY <1>1 DEF SerialInv, PlanningInv, At, InFlight
  <2>2. MissionsAt(req[r].id) = {}
    BY <2>1 DEF Sound, SoundVS, At
  <2>3. CASE UNCHANGED vars
    BY <2>3 DEF vars, tables
  <2>4. ASSUME NEW q \in Requests, Arrive(q) PROVE FALSE
    BY <2>1, <2>4, ArriveBegins DEF At
  <2>5. ASSUME NEW q \in Requests, Handle(q) PROVE UNCHANGED <<missions, assignments, trips>>
    <3>1. q = r
      BY <2>1, <2>5, HandleOwn DEF At
    <3>2. DeleteVSRow(r) \/ StatementFails(r)
      BY <2>5, <3>1 DEF Handle, ReadBack, WriteNewCar, WriteCar, CountMissions, CountAssignments, Count,
                        CountTrips, ForceCascade, DeletePendingTrip, ReadCars, DeleteVolunteerRow,
                        DeleteCarRow, Respond, At
    <3>3. CASE DeleteVS(req[r].id)
      BY <2>2, <3>3 DEF DeleteVS, AssignmentsAt, MissionsAt, Ids
    <3>4. CASE UNCHANGED tables
      BY <3>4 DEF tables
    <3> QED
      BY <3>2, <3>3, <3>4 DEF DeleteVSRow, StatementFails
  <2> QED
    BY <1>1, <2>3, <2>4, <2>5 DEF PlanningNext
<1>2. SerialInv /\ [PlanningNext]_vars => [Spares]_vars
  BY <1>1
<1> QED
  BY <1>2, SerialHolds, PTL DEF PlanningSpec, SerialUnforcedSpares
=============================================================================
