------------------------------- MODULE Planning -------------------------------
(***************************************************************************)
(* The mutation handlers of the planning features (stations, volunteers,    *)
(* cars, missions, assignments, trips) running for concurrent requests over *)
(* the tables of Schema.  net/http gives each request a goroutine and no    *)
(* handler takes a lock, so requests interleave statement by statement: an  *)
(* action is one statement (or one transaction) of one handler together     *)
(* with the branch the handler takes on its result.                         *)
(***************************************************************************)
EXTENDS Schema

CONSTANT Requests          \* request slots: how many requests overlap

VARIABLE req               \* what each slot is doing

vars == <<tables, req>>

(* op      the handler, "none" for a free slot                              *)
(* pc      the statement it runs next; "reply" when only writeJSON is left  *)
(* id      the row it is about;  driver: the driver a car is to get         *)
(* force   ?force=true;  pending: rows it read: the dependents counted so   *)
(*         far, or the trips its delete loop has still to delete            *)
(* reply   the outcome it answers with                                      *)
(* wrote, disturbed   history: it changed a row; another request was in     *)
(*         flight during its life, or a statement of its failed             *)
Free == [op |-> "none", pc |-> "free", id |-> None, driver |-> None,
         force |-> FALSE, pending |-> {}, reply |-> "none",
         wrote |-> FALSE, disturbed |-> FALSE]

Ops == {"create", "update", "createCar", "updateCar", "delete", "deleteVS",
        "deleteVolunteer", "deleteCar"}
Steps == {"free", "readBack", "write", "countMissions", "countAssignments",
          "countTrips", "cascade", "deleteTrips", "readCars", "deleteRow",
          "reply"}
Replies == {"none", "ok", "conflict", "notFound", "invalid", "error"}

InFlight(r) == req[r].pc # "free"
At(r, op, pc) == req[r].op = op /\ req[r].pc = pc

(* A request comes in: its handler starts with the fields given.            *)
Begin(r, fields) ==
  /\ ~InFlight(r)
  /\ req' = [q \in Requests |->
       IF q = r
       THEN [fields EXCEPT !.disturbed = \E p \in Requests : InFlight(p)]
       ELSE IF InFlight(q) THEN [req[q] EXCEPT !.disturbed = TRUE]
       ELSE req[q]]

Started(op, id, pc) == [Free EXCEPT !.op = op, !.id = id, !.pc = pc]
Wrote(rec) == [rec EXCEPT !.wrote = TRUE]
Refused(op, reply) == [Started(op, None, "reply") EXCEPT !.reply = reply]
Done(op) == Wrote(Refused(op, "ok"))

(* Once the outcome is known the rows and ids the handler held are dropped.  *)
Answered(rec, reply) ==
  [rec EXCEPT !.pc = "reply", !.reply = reply, !.id = None, !.driver = None,
              !.pending = {}]

Goto(r, pc) == req' = [req EXCEPT ![r].pc = pc]
WroteAndGoto(r, pc) == req' = [req EXCEPT ![r].pc = pc, ![r].wrote = TRUE]
Answer(r, reply) == req' = [req EXCEPT ![r] = Answered(@, reply)]
WroteAndAnswer(r, reply) == req' = [req EXCEPT ![r] = Wrote(Answered(@, reply))]

-------------------------------------------------------------------------------
(* Handlers of one statement.  Those that answer with the row read it back  *)
(* in a statement of its own, after the write has committed.  (What the     *)
(* station handlers do after that, the matrix and the race times, is left   *)
(* to the modules of those.)  An assignment is known by its pair.           *)

Present(id) ==
  \/ id \in vs
  \/ id \in Ids(volunteers) \/ id \in Ids(cars)
  \/ id \in Ids(missions) \/ id \in Ids(trips)
  \/ id \in assignments

ReadBack(r) ==
  /\ req[r].pc = "readBack"
  /\ Answer(r, IF Present(req[r].id) THEN "ok"
               ELSE IF req[r].op \in {"update", "updateCar"} THEN "notFound" ELSE "error")
  /\ UNCHANGED tables

CreateVS(r, v) ==
  /\ InsertVS(v)
  /\ Begin(r, Wrote(Started("create", v, "readBack")))

CreateVolunteer(r, p, eligible) ==
  /\ InsertVolunteer(p, eligible)
  /\ Begin(r, Wrote(Started("create", p, "readBack")))

(* A PATCH of a station, a mission or a car that leaves the columns of      *)
(* Schema alone.                                                            *)
PatchRow(r, id) ==
  /\ Begin(r, IF Present(id) THEN Wrote(Started("update", id, "readBack"))
              ELSE Refused("update", "notFound"))
  /\ UNCHANGED tables

(* PATCH, and the DELETE without ?hard=true that archives.                  *)
PatchVolunteer(r, p, eligible) ==
  \/ /\ UpdateVolunteer(p, eligible)
     /\ Begin(r, Wrote(Started("update", p, "readBack")))
  \/ /\ p \notin Ids(volunteers)
     /\ Begin(r, Refused("update", "notFound"))
     /\ UNCHANGED tables

CreateMission(r, m, v) ==
  \/ /\ InsertMission(m, v)
     /\ Begin(r, Wrote(Started("create", m, "readBack")))
  \/ /\ v \notin vs /\ m \notin issued
     /\ Begin(r, Refused("create", "error"))
     /\ UNCHANGED tables

RemoveMission(r, m) ==
  \/ DeleteMission(m) /\ Begin(r, Done("delete"))
  \/ /\ m \notin Ids(missions)
     /\ Begin(r, Refused("delete", "notFound"))
     /\ UNCHANGED tables

CreateAssignment(r, a) ==
  \/ /\ InsertAssignment(a)
     /\ Begin(r, Wrote(Started("create", a, "readBack")))
  \/ /\ a \in assignments
     /\ Begin(r, Refused("create", "conflict"))
     /\ UNCHANGED tables
  \/ /\ a.mission \notin Ids(missions) \/ a.volunteer \notin Ids(volunteers)
     /\ Begin(r, Refused("create", "error"))
     /\ UNCHANGED tables

RemoveAssignment(r, a) ==
  \/ DeleteAssignment(a) /\ Begin(r, Done("delete"))
  \/ /\ a \notin assignments
     /\ Begin(r, Refused("delete", "notFound"))
     /\ UNCHANGED tables

CreateTrip(r, t, d, c, route, riders) ==
  \/ /\ Begin(r, Wrote(Started("create", t, "readBack")))
     /\ InsertTrip(t, d, c, route, riders)
  \/ /\ Begin(r, Refused("create", "error"))
     /\ t \notin issued /\ ~TripKeys(d, c, route, riders)
     /\ UNCHANGED tables

(* The UPDATE that finds no row answers 404 before any stop is written.     *)
PutTrip(r, t, d, c, route, riders) ==
  \/ /\ Begin(r, Wrote(Started("update", t, "readBack")))
     /\ ReplaceTrip(t, d, c, route, riders)
  \/ /\ Begin(r, Refused("update", "notFound"))
     /\ t \notin Ids(trips)
     /\ UNCHANGED tables
  \/ /\ Begin(r, Refused("update", "error"))
     /\ t \in Ids(trips) /\ ~TripKeys(d, c, route, riders)
     /\ UNCHANGED tables

RemoveTrip(r, t) ==
  \/ /\ t \in Ids(trips) /\ DeleteTrips({t})
     /\ Begin(r, Done("delete"))
  \/ /\ t \notin Ids(trips)
     /\ Begin(r, Refused("delete", "notFound"))
     /\ UNCHANGED tables

-------------------------------------------------------------------------------
(* A car's default driver is checked by a SELECT, then written by another   *)
(* statement: what was checked may have changed in between.                 *)

DriverIsValid(d) == [id |-> d, eligible |-> TRUE] \in volunteers

SaveCar(r, op, c, d) ==
  /\ Begin(r, IF d = None \/ DriverIsValid(d)
              THEN [Started(op, c, "write") EXCEPT !.driver = d]
              ELSE Refused(op, "invalid"))
  /\ UNCHANGED tables

(* The id a new car will get is picked when its request comes in.           *)
CreateCar(r, c, d) ==
  /\ c \notin issued
  /\ \A q \in Requests : ~(InFlight(q) /\ req[q].op = "createCar" /\ req[q].id = c)
  /\ SaveCar(r, "createCar", c, d)
PatchCar(r, c, d) == SaveCar(r, "updateCar", c, d)

WriteNewCar(r) ==
  /\ At(r, "createCar", "write")
  /\ \/ InsertCar(req[r].id, req[r].driver) /\ WroteAndGoto(r, "readBack")
     \/ /\ ~DriverKey(req[r].driver)
        /\ Answer(r, "error")
        /\ UNCHANGED tables

WriteCar(r) ==
  /\ At(r, "updateCar", "write")
  /\ \/ UpdateCar(req[r].id, req[r].driver) /\ WroteAndGoto(r, "readBack")
     \/ /\ req[r].id \notin Ids(cars)
        /\ Answer(r, "notFound")
        /\ UNCHANGED tables
     \/ /\ req[r].id \in Ids(cars) /\ ~DriverKey(req[r].driver)
        /\ Answer(r, "error")
        /\ UNCHANGED tables

-------------------------------------------------------------------------------
(* DELETE /api/vs/{id}.  Unforced, three COUNTs decide; forced, one DELETE   *)
(* clears the trips that stop there.  The row goes in a statement of its own.*)

BeginDeleteVS(r, v, force) ==
  /\ Begin(r, [Started("deleteVS", v, IF force THEN "cascade" ELSE "countMissions")
               EXCEPT !.force = force])
  /\ UNCHANGED tables

Count(r, from, rows, to) ==
  /\ At(r, "deleteVS", from)
  /\ req' = [req EXCEPT ![r].pc = to, ![r].pending = @ \cup rows]
  /\ UNCHANGED tables

(* Mutant: the count of missions is not added to the dependents.             *)
CountNoMissions(r) == Count(r, "countMissions", {}, "countAssignments")
CountMissions(r) ==
  Count(r, "countMissions", MissionsAt(req[r].id), "countAssignments")
CountAssignments(r) ==
  Count(r, "countAssignments", AssignmentsAt(req[r].id), "countTrips")
CountTrips(r) ==
  /\ At(r, "deleteVS", "countTrips")
  /\ IF req[r].pending \cup TripsAt(req[r].id) # {}
     THEN Answer(r, "conflict")
     ELSE Goto(r, "deleteRow")
  /\ UNCHANGED tables

ForceCascade(r) ==
  /\ At(r, "deleteVS", "cascade")
  /\ DeleteTrips(TripsAt(req[r].id))
  /\ IF TripsAt(req[r].id) # {} THEN WroteAndGoto(r, "deleteRow")
                                ELSE Goto(r, "deleteRow")

DeleteVSRow(r) ==
  /\ At(r, "deleteVS", "deleteRow")
  /\ \/ DeleteVS(req[r].id) /\ WroteAndAnswer(r, "ok")
     \/ /\ req[r].id \notin vs
        /\ Answer(r, "notFound")
        /\ UNCHANGED tables
     \/ /\ req[r].id \in vs /\ VSRestricted(req[r].id)
        /\ Answer(r, "conflict")
        /\ UNCHANGED tables

-------------------------------------------------------------------------------
(* DELETE of a volunteer (?hard=true) or a car: read the trips that use it;  *)
(* unforced, any trip refuses; forced, delete them one statement at a time.  *)

AfterTrips(op) == IF op = "deleteVolunteer" THEN "readCars" ELSE "deleteRow"

(* Mutant: the trips are deleted whether force is given or not.              *)
BeginDeleteAlways(r, op, id, force, used) ==
  /\ Begin(r, [Started(op, id, IF used = {} THEN AfterTrips(op) ELSE "deleteTrips")
               EXCEPT !.force = force, !.pending = used])
  /\ UNCHANGED tables

BeginDelete(r, op, id, force, used) ==
  /\ Begin(r, IF used # {} /\ ~force
              THEN Refused(op, "conflict")
              ELSE [Started(op, id, IF used = {} THEN AfterTrips(op)
                                    ELSE "deleteTrips")
                    EXCEPT !.force = force, !.pending = used])
  /\ UNCHANGED tables

BeginDeleteVolunteer(r, p, force) ==
  BeginDelete(r, "deleteVolunteer", p, force, TripsOf(p))
BeginDeleteCar(r, c, force) ==
  BeginDelete(r, "deleteCar", c, force, TripsIn(c))

(* Mutant: the loop over the trips returns after the first.                  *)
DeleteOneTrip(r, t) ==
  /\ req[r].pc = "deleteTrips"
  /\ t \in req[r].pending
  /\ DeleteTrips({t})
  /\ req' = [req EXCEPT ![r].pending = {}, ![r].pc = AfterTrips(req[r].op),
                        ![r].wrote = @ \/ t \in Ids(trips)]

DeletePendingTrip(r, t) ==
  /\ req[r].pc = "deleteTrips"
  /\ t \in req[r].pending
  /\ DeleteTrips({t})
  /\ req' = [req EXCEPT
       ![r].pending = @ \ {t},
       ![r].pc = IF req[r].pending = {t} THEN AfterTrips(req[r].op) ELSE @,
       ![r].wrote = @ \/ t \in Ids(trips)]

(* Mutant: a default driver is refused even when force is given.             *)
ReadCarsUnforced(r) ==
  /\ At(r, "deleteVolunteer", "readCars")
  /\ IF \E c \in cars : c.driver = req[r].id
     THEN Answer(r, "conflict")
     ELSE Goto(r, "deleteRow")
  /\ UNCHANGED tables

ReadCars(r) ==
  /\ At(r, "deleteVolunteer", "readCars")
  /\ IF ~req[r].force /\ \E c \in cars : c.driver = req[r].id
     THEN Answer(r, "conflict")
     ELSE Goto(r, "deleteRow")
  /\ UNCHANGED tables

DeleteVolunteerRow(r) ==
  /\ At(r, "deleteVolunteer", "deleteRow")
  /\ \/ DeleteVolunteer(req[r].id) /\ WroteAndAnswer(r, "ok")
     \/ /\ req[r].id \notin Ids(volunteers)
        /\ Answer(r, "notFound")
        /\ UNCHANGED tables
     \/ /\ req[r].id \in Ids(volunteers) /\ VolunteerRestricted(req[r].id)
        /\ Answer(r, "error")
        /\ UNCHANGED tables

DeleteCarRow(r) ==
  /\ At(r, "deleteCar", "deleteRow")
  /\ \/ DeleteCar(req[r].id) /\ WroteAndAnswer(r, "ok")
     \/ /\ req[r].id \notin Ids(cars)
        /\ Answer(r, "notFound")
        /\ UNCHANGED tables
     \/ /\ req[r].id \in Ids(cars) /\ CarRestricted(req[r].id)
        /\ Answer(r, "error")
        /\ UNCHANGED tables

-------------------------------------------------------------------------------
(* A body that does not decode, lacks a field or repeats a name: refused     *)
(* before or by the first statement.                                        *)
RejectInput(r) ==
  /\ Begin(r, Refused("create", "invalid"))
  /\ UNCHANGED tables

(* Any statement can fail on its own account: another connection's           *)
(* transaction keeps the database busy, or the disk refuses the write.  The  *)
(* handler answers 500 and leaves what it has written so far.                *)
StatementFails(r) ==
  /\ req[r].pc \notin {"free", "reply"}
  /\ req' = [req EXCEPT ![r] = [Answered(@, "error") EXCEPT !.disturbed = TRUE]]
  /\ UNCHANGED tables

Respond(r) ==
  /\ req[r].pc = "reply"
  /\ req' = [req EXCEPT ![r] = Free]
  /\ UNCHANGED tables

-------------------------------------------------------------------------------
PlanningInit == Init /\ req = [r \in Requests |-> Free]

(* The next statement of a request that is being handled.                    *)
Handle(r) ==
  \/ ReadBack(r) \/ WriteNewCar(r) \/ WriteCar(r)
  \/ CountMissions(r) \/ CountAssignments(r) \/ CountTrips(r)
  \/ ForceCascade(r) \/ DeleteVSRow(r)
  \/ \E t \in Trips : DeletePendingTrip(r, t)
  \/ ReadCars(r) \/ DeleteVolunteerRow(r) \/ DeleteCarRow(r)
  \/ StatementFails(r)
  \/ Respond(r)

Arrive(r) ==
  \/ RejectInput(r)
  \/ \E v \in VS :
       \/ CreateVS(r, v) \/ PatchRow(r, v)
       \/ \E force \in BOOLEAN : BeginDeleteVS(r, v, force)
  \/ \E p \in Volunteers, b \in BOOLEAN :
       \/ CreateVolunteer(r, p, b) \/ PatchVolunteer(r, p, b)
       \/ BeginDeleteVolunteer(r, p, b)
  \/ \E c \in Cars :
       \/ PatchRow(r, c)
       \/ \E d \in Volunteers \cup {None} : CreateCar(r, c, d) \/ PatchCar(r, c, d)
       \/ \E force \in BOOLEAN : BeginDeleteCar(r, c, force)
  \/ \E m \in Missions :
       \/ \E v \in VS : CreateMission(r, m, v)
       \/ RemoveMission(r, m) \/ PatchRow(r, m)
       \/ \E p \in Volunteers :
            LET a == [mission |-> m, volunteer |-> p]
            IN  CreateAssignment(r, a) \/ RemoveAssignment(r, a)
  \/ \E t \in Trips :
       \/ RemoveTrip(r, t)
       \/ \E d \in Volunteers, c \in Cars, route \in Routes :
            \E riders \in SUBSET Riders(route) :
              \/ CreateTrip(r, t, d, c, route, riders)
              \/ PutTrip(r, t, d, c, route, riders)

PlanningNext == \E r \in Requests : Handle(r) \/ Arrive(r)

PlanningSpec == PlanningInit /\ [][PlanningNext]_vars

-------------------------------------------------------------------------------
(* The types of the request records.                                        *)
RowIds == IdSpace \cup [mission : Missions, volunteer : Volunteers]
RequestRecord ==
  [op : Ops \cup {"none"}, pc : Steps, id : RowIds \cup {None},
   driver : Volunteers \cup {None}, force : BOOLEAN,
   pending : SUBSET (RowIds), reply : Replies,
   wrote : BOOLEAN, disturbed : BOOLEAN]
TypeOK == TablesOK /\ req \in [Requests -> RequestRecord]

Serial(r) == ~req[r].disturbed
Deletes == {"deleteVS", "deleteVolunteer", "deleteCar"}

(* A request nobody disturbed that is answered with an error has changed    *)
(* nothing, so no recompute is needed after it: what the middleware relies   *)
(* on when it passes a non-2xx answer through.                              *)
SerialRefusalsChangeNothing ==
  \A r \in Requests :
    req[r].pc = "reply" /\ Serial(r) /\ req[r].reply # "ok" => ~req[r].wrote

(* Forced, a delete nobody disturbed never meets a RESTRICT key: the trips  *)
(* cleared first are all that could block it.                               *)
SerialForcedDeletesSucceed ==
  \A r \in Requests :
    req[r].pc = "reply" /\ Serial(r) /\ req[r].force /\ req[r].op \in Deletes
      => req[r].reply \in {"ok", "notFound"}

(* Unforced, a station delete nobody disturbed takes no mission, assignment *)
(* or trip with it: the three COUNTs see every row the cascades would take.  *)
SerialUnforcedSpares ==
  [][\A r \in Requests :
       At(r, "deleteVS", "deleteRow") /\ req'[r].pc = "reply"
         /\ ~req[r].force /\ Serial(r)
       => UNCHANGED <<missions, assignments, trips>>]_vars

(* No trip is ever lost to an unforced delete, whatever runs beside it: the  *)
(* RESTRICT keys hold where the earlier checks are out of date.              *)
UnforcedStepKeepsTrips ==
  \A r \in Requests :
    InFlight(r) /\ req[r].op \in Deletes /\ ~req[r].force
      /\ req'[r].pc # req[r].pc
    => trips' = trips /\ stops' = stops
UnforcedDeletesKeepTrips == [][UnforcedStepKeepsTrips]_vars

(* Unforced, a station delete takes no mission with it even when requests    *)
(* overlap.                                                                 *)
UnforcedSparesMissions ==
  [][\A r \in Requests :
       At(r, "deleteVS", "deleteRow") /\ req'[r].pc = "reply" /\ ~req[r].force
       => missions' = missions]_vars
===============================================================================
