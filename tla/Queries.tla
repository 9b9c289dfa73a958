------------------------------ MODULE Queries ------------------------------
(***************************************************************************)
(* The catalogue of the browser's server state.  A query is a cached answer *)
(* under a key; a call is a request of a feature's api.ts.  For each call:   *)
(* the facts (columns of the database, grouped by what changes together) it  *)
(* reads or writes.  For each mutation hook of a feature's hooks.ts: what it  *)
(* does to the cache when the call is answered.  A key stands for one entity  *)
(* of its kind: "id", "race" and "trial" are those the hook was called with.  *)
(***************************************************************************)
EXTENDS SequencesExt

Hook(call, invalidates) ==
  [call |-> call, invalidates |-> invalidates, sets |-> {},
   optimistic |-> FALSE, refetches |-> {}]
Setting(hook, keys) == [hook EXCEPT !.sets = keys]
Refetching(call, keys) == [Hook(call, {}) EXCEPT !.refetches = keys]
Unhooked(call) == Hook(call, {})      \* a page awaits the call itself

-----------------------------------------------------------------------------
(* Stations (PB).  Deleting one cascades; creating, moving and deleting one   *)
(* fire OnMove, which recomputes the timings of its races and all the travel  *)
(* times that nobody has set by hand.                                        *)
VSApi ==
  [listVS |-> {"vs"}, createVS |-> {"vs", "times"}, patchVS |-> {"vs", "timings", "times"},
   deleteVS |-> {"vs", "homes", "missions", "slots", "assignments",
                 "trips", "times", "entries", "timings"},
   uploadVSPhoto |-> {"vs"}]
VSQueries == <<"vs">> :> "listVS"
VSHooks ==
  {Hook(c, {<<"vs">>}) : c \in {"createVS", "deleteVS", "uploadVSPhoto"}}
    \cup {[Hook("patchVS", {<<"vs">>}) EXCEPT !.optimistic = TRUE]}

(* Volunteers and their home stations; the client archives, never deletes.   *)
VolunteerApi ==
  [c \in {"listVolunteers", "getVolunteer", "createVolunteer",
          "patchVolunteer", "archiveVolunteer"} |-> {"volunteers", "homes"}]
    @@ [listRoleTypes |-> {"volunteers"}]
VolunteerQueries ==
  (<<"volunteers", "all">> :> "listVolunteers")
    @@ (<<"volunteers", "id">> :> "getVolunteer")
    @@ (<<"volunteers", "role-types">> :> "listRoleTypes")
VolunteerHooks ==
  {Hook(c, {<<"volunteers">>}) :
     c \in {"createVolunteer", "patchVolunteer", "archiveVolunteer"}}

(* The import wizard's last call writes volunteers.                          *)
CsvApi == [csvCommit |-> {"volunteers"}]
CsvHooks == {Unhooked("csvCommit")}

(* Missions.  A list counts the assignments of each mission; "slots" are the *)
(* time and place of missions, which only matter to those assigned.          *)
MissionApi ==
  [listMissionsForVS |-> {"missions", "assignments"},
   listMissions |-> {"missions", "assignments"},
   getMission |-> {"missions", "assignments"},
   createMission |-> {"missions"}, patchMission |-> {"missions", "slots"},
   deleteMission |-> {"missions", "slots", "assignments"}]
MissionQueries ==
  (<<"missions", "vs", "id", "day">> :> "listMissionsForVS")
    @@ (<<"missions", "list", "filter">> :> "listMissions")
    @@ (<<"missions", "id">> :> "getMission")
MissionHooks ==
  {Hook(c, {<<"missions">>}) : c \in {"createMission", "patchMission", "deleteMission"}}

AssignmentApi ==
  [c \in {"createAssignment", "deleteAssignment", "deleteAssignmentByPair",
          "listAssignmentsForVolunteer", "listAssignmentsForMission"} |-> {"assignments"}]
AssignmentQueries ==
  (<<"assignments", "volunteer", "id">> :> "listAssignmentsForVolunteer")
    @@ (<<"assignments", "mission", "id">> :> "listAssignmentsForMission")
AssignmentHooks ==
  {Hook(c, {<<"assignments">>, <<"missions">>}) :
     c \in {"createAssignment", "deleteAssignment", "deleteAssignmentByPair"}}

(* Without ?force the server refuses to delete a car that has trips.         *)
CarApi == [c \in {"listCars", "getCar", "createCar", "patchCar", "deleteCar"} |-> {"cars"}]
CarQueries == (<<"cars">> :> "listCars") @@ (<<"cars", "id">> :> "getCar")
CarHooks ==
  {Hook(c, {<<"cars">>}) : c \in {"createCar", "deleteCar"}}
    \cup {Hook("patchCar", {<<"cars">>, <<"cars", "id">>})}

(* A transport need joins consecutive missions of a volunteer with trips.    *)
TripApi ==
  [c \in {"listTrips", "getTrip", "createTrip", "replaceTrip", "deleteTrip"} |-> {"trips"}]
    @@ [listTransportNeeds |-> {"assignments", "slots", "trips"}]
TripQueries ==
  (<<"trips", "day">> :> "listTrips") @@ (<<"trips", "single", "id">> :> "getTrip")
    @@ (<<"transport-needs", "day">> :> "listTransportNeeds")
TripHooks ==
  {Hook(c, {<<"trips">>, <<"transport-needs">>}) :
     c \in {"createTrip", "replaceTrip", "deleteTrip"}}

MatrixApi == [c \in {"listMatrix", "patchCell", "recompute"} |-> {"times"}]
MatrixQueries == <<"travel-times">> :> "listMatrix"
MatrixHooks == {Hook(c, {<<"travel-times">>}) : c \in {"patchCell", "recompute"}}

-----------------------------------------------------------------------------
(* Races.  The entries of a race are shown with the timings of its trials;   *)
(* deleting a race takes its trials along and scrubs its tag from missions.  *)
(* The track of a race joins its files in the order of their ids.             *)
RaceApi ==
  [c \in {"listRaces", "getRace", "createRace", "patchRace"} |-> {"races"}]
    @@ [deleteRace |-> {"races", "missions", "trials", "order", "files", "owners", "entries",
                       "timings"},
        listRaceVS |-> {"entries", "timings"}, replaceRaceVS |-> {"entries", "timings"},
        getRaceTrack |-> {"files"}]
RaceQueries ==
  (<<"races">> :> "listRaces") @@ (<<"races", "race">> :> "getRace")
    @@ (<<"races", "race", "vs">> :> "listRaceVS")
    @@ (<<"races", "race", "track">> :> "getRaceTrack")
RaceHooks ==
  {Hook(c, {<<"races">>}) : c \in {"createRace", "deleteRace"}}
    \cup {Hook("patchRace", {<<"races">>, <<"races", "race">>}),
          Setting(Hook("replaceRaceVS", {}), {<<"races", "race", "vs">>})}

(* Trials.  Every change makes the server recompute the timings of the whole *)
(* race, but an override of one timing and a patch of the name alone.  A file *)
(* of a deleted trial stays with the race and belongs to no trial any more.   *)
TrialApi ==
  [listTrialsForRace |-> {"trials", "order"}, createTrial |-> {"trials", "order", "timings"},
   patchTrial |-> {"trials", "timings"},
   deleteTrial |-> {"trials", "order", "owners", "timings"},
   reorderTrials |-> {"order", "timings"}, listTrialGPX |-> {"files", "owners"},
   uploadTrialGPX |-> {"files", "owners", "timings"},
   deleteTrialGPX |-> {"files", "owners", "timings"},
   putTrialVS |-> {"timings"}, listTrialVS |-> {"timings"}]
TrialQueries ==
  (<<"races", "race", "trials">> :> "listTrialsForRace")
    @@ (<<"trials", "trial", "gpx">> :> "listTrialGPX")
    @@ (<<"trials", "trial", "vs">> :> "listTrialVS")
TrialHooks ==
  {Hook(c, {<<"races", "race", "trials">>, <<"races", "race", "vs">>}) :
     c \in {"createTrial", "patchTrial", "deleteTrial"}}
    \cup {Setting(Hook("reorderTrials", {<<"races", "race", "vs">>}),
                  {<<"races", "race", "trials">>})}
    \cup {Hook(c, {<<"trials", "trial", "gpx">>, <<"races", "race", "track">>,
                   <<"races", "race", "vs">>}) :
            c \in {"uploadTrialGPX", "deleteTrialGPX"}}
    \cup {Hook("putTrialVS", {<<"trials", "trial", "vs">>, <<"races", "race", "vs">>})}

(* The event: two hooks store the answer; the pages that call putEvent and   *)
(* the uploads themselves refetch, except the roadbook settings page.        *)
EventApi ==
  [c \in {"getEvent", "putEvent", "updateEvent", "saveBackup", "saveRoadbook",
          "uploadLogo", "uploadSponsor"} |-> {"event"}]
EventQueries == <<"event">> :> "getEvent"
EventHooks ==
  {Setting(Hook(c, {}), {<<"event">>}) : c \in {"putEvent", "updateEvent"}}
BackupSave == {Refetching("saveBackup", {<<"event">>})}
RoadbookCalls ==
  {Refetching(c, {<<"event">>}) : c \in {"uploadLogo", "uploadSponsor"}}
    \cup {Unhooked("saveRoadbook")}

-----------------------------------------------------------------------------
Api == VSApi @@ VolunteerApi @@ CsvApi @@ MissionApi @@ AssignmentApi @@ CarApi
         @@ TripApi @@ MatrixApi @@ RaceApi @@ TrialApi @@ EventApi
Queries == VSQueries @@ VolunteerQueries @@ MissionQueries @@ AssignmentQueries
             @@ CarQueries @@ TripQueries @@ MatrixQueries @@ RaceQueries
             @@ TrialQueries @@ EventQueries
Hooks == VSHooks \cup VolunteerHooks \cup CsvHooks \cup MissionHooks
           \cup AssignmentHooks \cup CarHooks \cup TripHooks \cup MatrixHooks
           \cup RaceHooks \cup TrialHooks \cup EventHooks \cup BackupSave \cup RoadbookCalls

(* invalidateQueries matches every query whose key starts with the given key. *)
Invalidates(hook, key) == \E prefix \in hook.invalidates : IsPrefix(prefix, key)
Reaches(hook, key) == Api[hook.call] \cap Api[Queries[key]] # {}

(* The queries a mutation changes on the server and leaves as they are in    *)
(* the cache: the page shows the old answer until it grows old and a         *)
(* component that uses it is mounted.                                        *)
KnownGaps ==
  ({"createAssignment", "deleteAssignment", "deleteAssignmentByPair",
    "patchMission", "deleteMission", "deleteVS"} \X {<<"transport-needs", "day">>})
  \cup ({"deleteMission", "deleteVS"} \X DOMAIN AssignmentQueries)
  \cup ({"deleteVS", "deleteRace"} \X DOMAIN MissionQueries)
  \cup ({"deleteVS"} \X (DOMAIN VolunteerQueries \ {<<"volunteers", "role-types">>}))
  \cup ({"deleteVS"} \X DOMAIN TripQueries)
  \cup ({"createVS", "patchVS", "deleteVS"} \X DOMAIN MatrixQueries)
  \cup ({"deleteVS", "patchVS"} \X {<<"races", "race", "vs">>})
  \cup ({"deleteVS", "patchVS", "deleteRace", "replaceRaceVS", "createTrial", "patchTrial",
         "deleteTrial", "reorderTrials", "uploadTrialGPX", "deleteTrialGPX"} \X {<<"trials", "trial", "vs">>})
  \cup ({"deleteTrial", "deleteRace"} \X {<<"trials", "trial", "gpx">>})
  \cup ({"csvCommit"} \X DOMAIN VolunteerQueries)
  \cup ({"saveRoadbook"} \X {<<"event">>})

Effect(hook, key) ==
  [reaches |-> Reaches(hook, key), gap |-> <<hook.call, key>> \in KnownGaps,
   invalidates |-> Invalidates(hook, key), sets |-> key \in hook.sets,
   optimistic |-> hook.optimistic /\ Invalidates(hook, key),
   refetches |-> key \in hook.refetches]
EffectsOn(key) == {Effect(hook, key) : hook \in Hooks}
=============================================================================
