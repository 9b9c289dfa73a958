---------------------------- MODULE TripEditing ----------------------------
(***************************************************************************)
(* TripEditor, the form of a trip in the sidebar of the "trajets" tool:    *)
(* its stops, the times filled in from the travel time matrix, the         *)
(* validation chips and its requests.  One editor serves "Nouveau trajet"  *)
(* and every details page it is rendered for without the list in between:  *)
(* it reads a trip once, when it has none.  A time is a number of minutes, *)
(* modulo MinutesPerDay.                                                   *)
(***************************************************************************)
EXTENDS Shell

CONSTANTS
  Trips,                \* ids the server may give, 1..n
  StoredTrips,          \* the trips there are at first, if any
  StopStations, Volunteers, Seats,
  Legs,                 \* minutes from station to station by mode, -1 without a cell
  Needs,                \* transport needs a new trip may start from (URL parameters)
  MinutesPerDay, FromTime, ToTime, Tolerance,
  MaxStops, MaxEdits

VARIABLES
  trips,                \* trips on the server
  tripSeen,             \* each trip as useTrip last read it
  legsKnown,            \* useMatrix has its answer
  editor,               \* the TripEditor on the screen
  tripCalls,            \* its requests
  edits                 \* edits made and requests sent so far

tripVars == <<trips, tripSeen, legsKnown, editor, tripCalls, edits>>
-----------------------------------------------------------------------------
NoTime == -1
EditorStop(vs, time, src, board, alight) ==
  [vs_id |-> vs, time |-> time, source |-> src, board |-> board, alight |-> alight]
Times == 0..(MinutesPerDay - 1)
Modes == {"drive", "walk"}
NoTrip == [mode |-> "drive", crew |-> FALSE, stops |-> <<>>]

(* Mutant: the clock does not wrap at midnight.                              *)
addSecondsUnwrapped(time, minutes) == IF time = NoTime THEN NoTime ELSE time + minutes
addSeconds(time, minutes) == IF time = NoTime THEN NoTime ELSE (time + minutes) % MinutesPerDay
matrixSec(from, to, mode, known) == IF known /\ from # 0 /\ to # 0 THEN Legs[mode][<<from, to>>] ELSE -1
LegTo(stops, i, mode, known) == matrixSec(stops[i - 1].vs_id, stops[i].vs_id, mode, known)

(* Mutant: each stop is computed from the old time of the one before.        *)
applyAutoFillOnce(stops, mode, known) ==
  [i \in 1..Len(stops) |->
     IF i = 1 \/ stops[i].source = "manual" THEN stops[i]
     ELSE IF LegTo(stops, i, mode, known) = -1 THEN stops[i]
     ELSE [stops[i] EXCEPT !.time = addSeconds(stops[i - 1].time, LegTo(stops, i, mode, known))]]

(* Forward over the stops: an automatic time is the time of the stop before  *)
(* and the leg between them, where the matrix has it.                        *)
applyAutoFill(stops, mode, known) ==
  LET time[i \in 1..Len(stops)] ==
        IF i = 1 \/ stops[i].source = "manual" THEN stops[i].time
        ELSE IF LegTo(stops, i, mode, known) = -1 THEN stops[i].time
        ELSE addSeconds(time[i - 1], LegTo(stops, i, mode, known))
  IN [i \in 1..Len(stops) |-> [stops[i] EXCEPT !.time = time[i]]]

(* Mutant: volunteers get off before others get on.                          *)
OnboardOffFirst(stops) ==
  LET on[i \in 0..Len(stops)] ==
        IF i = 0 THEN {} ELSE (on[i - 1] \ stops[i].alight) \cup stops[i].board
  IN on

(* The volunteers on board after each stop: those who get on, then those who *)
(* get off.                                                                  *)
Onboard(stops) ==
  LET on[i \in 0..Len(stops)] ==
        IF i = 0 THEN {} ELSE (on[i - 1] \cup stops[i].board) \ stops[i].alight
  IN on

(* The chips: legs with more volunteers than seats, a volunteer who never    *)
(* gets off, legs with a manual time far from the matrix.                    *)
diffSeconds(a, b) == b - a
Distance(a, b) == IF a < b THEN b - a ELSE a - b
legWarnings(e, known) ==
  [crowded |-> {i \in 1..(Len(e.stops) - 1) : e.crew /\ Cardinality(Onboard(e.stops)[i]) > Seats},
   stranded |-> Onboard(e.stops)[Len(e.stops)] # {},
   strayed |-> {i \in 2..Len(e.stops) :
     LET from == e.stops[i - 1]
         to == e.stops[i]
         leg == LegTo(e.stops, i, e.mode, known) IN
     /\ to.source = "manual" /\ leg # -1 /\ from.time # NoTime /\ to.time # NoTime
     /\ Distance(diffSeconds(from.time, to.time), leg) > Tolerance}]
-----------------------------------------------------------------------------
(* The editor.  origin is the trip it was seeded from (0 a new one), reused  *)
(* tells that it has since been rendered for another; clickKnows is what the *)
(* matrix was when its listener for map clicks was set, for good; filled     *)
(* that the last thing done filled in the times from matrix and mode.        *)
NoEditor == [on |-> FALSE, id |-> 0, origin |-> 0, reused |-> FALSE, loaded |-> FALSE,
             mode |-> "drive", crew |-> FALSE, stops |-> <<>>, clickKnows |-> FALSE,
             filled |-> FALSE]

IsEditing(to) == to.kind = "map" /\ to.tool = "trajets" /\ to.sub \in {"new", "detail"}

(* readInitial: the two stops of a new trip, from a need or empty.           *)
NewStops(need) ==
  IF need \in DOMAIN Needs
  THEN <<EditorStop(Needs[need].from, Needs[need].from_time, "auto", {Needs[need].vol}, {}),
         EditorStop(Needs[need].to, Needs[need].to_time, "auto", {}, {Needs[need].vol})>>
  ELSE <<EditorStop(0, FromTime, "auto", {}, {}), EditorStop(0, ToTime, "auto", {}, {})>>

(* The seed effect: once, as soon as there is something to read.             *)
Seeded(e, seen, need) ==
  IF e.loaded THEN e
  ELSE IF e.id = 0
  THEN [e EXCEPT !.stops = NewStops(need), !.origin = 0, !.loaded = TRUE, !.filled = FALSE]
  ELSE IF seen[e.id] # NoTrip
  THEN [e EXCEPT !.stops = seen[e.id].stops, !.mode = seen[e.id].mode, !.crew = seen[e.id].crew,
                 !.origin = e.id, !.loaded = TRUE, !.filled = FALSE]
  ELSE e

Mounted(to) ==
  Seeded([NoEditor EXCEPT !.on = TRUE, !.id = to.id, !.clickKnows = legsKnown], tripSeen, hash'.id)
(* Mutant: the list hides the editor and does not unmount it.                *)
EditorHidden(to) ==
  IF editor.on THEN Seeded([editor EXCEPT !.id = to.id], tripSeen, 0) ELSE
    IF IsEditing(to) THEN Mounted(to) ELSE NoEditor
(* The editor on the screen the URL leads to.                                *)
EditorOn(to) ==
  IF ~IsEditing(to) THEN NoEditor
  ELSE IF ~editor.on THEN Mounted(to)
  ELSE Seeded([editor EXCEPT !.id = to.id,
                             !.reused = @ \/ (editor.loaded /\ to.id # editor.id)], tripSeen, 0)

TripsFollow ==
  IF screen' = screen THEN UNCHANGED tripVars
  ELSE /\ editor' = EditorOn(screen')
       /\ tripCalls' = IF editor'.on /\ editor.on THEN tripCalls
                       ELSE {[c EXCEPT !.live = FALSE] : c \in tripCalls}
       /\ UNCHANGED <<trips, tripSeen, legsKnown, edits>>
-----------------------------------------------------------------------------
Edit(e) ==
  /\ editor.on /\ edits < MaxEdits
  /\ editor' = e /\ edits' = edits + 1
  /\ UNCHANGED <<shellVars, trips, tripSeen, legsKnown, tripCalls>>
Fill(stops) == Edit([editor EXCEPT !.stops = applyAutoFill(stops, editor.mode, legsKnown),
                                   !.filled = TRUE])
NewStop(vs) == EditorStop(vs, NoTime, "auto", {}, {})
Positions == 1..Len(editor.stops)

setStopVS(i, vs) == Fill([editor.stops EXCEPT ![i].vs_id = vs])
setStopTime(i, time) == Fill([editor.stops EXCEPT ![i].time = time, ![i].source = "manual"])
revertStopTime(i) ==
  i > 1 /\ editor.stops[i].source = "manual" /\ Fill([editor.stops EXCEPT ![i].source = "auto"])
removeStop(i) == Fill(SubSeq(editor.stops, 1, i - 1) \o SubSeq(editor.stops, i + 1, Len(editor.stops)))
addStop ==
  /\ Len(editor.stops) < MaxStops
  /\ Edit([editor EXCEPT !.stops = Append(@, NewStop(0))])

(* A click on a station of the map goes to the listener of the first render: *)
(* its matrix, and the mode "drive" of an editor not yet seeded.             *)
appendStopForVS(vs) ==
  /\ Len(editor.stops) < MaxStops
  /\ Edit([editor EXCEPT
       !.stops = applyAutoFill(Append(@, NewStop(vs)), "drive", editor.clickKnows),
       !.filled = editor.mode = "drive" /\ editor.clickKnows = legsKnown])

Toggled(people, v) == IF v \in people THEN people \ {v} ELSE people \cup {v}
toggleBoard(i, v) == Edit([editor EXCEPT !.stops[i].board = Toggled(@, v)])
toggleAlight(i, v) == Edit([editor EXCEPT !.stops[i].alight = Toggled(@, v)])
setMode(mode) == mode # editor.mode /\ Edit([editor EXCEPT !.mode = mode, !.filled = FALSE])
setCrew == Edit([editor EXCEPT !.crew = ~@])

LegsArrive ==
  /\ ~legsKnown /\ legsKnown' = TRUE
  /\ editor' = [editor EXCEPT !.filled = FALSE]
  /\ UNCHANGED <<shellVars, trips, tripSeen, tripCalls, edits>>
TripArrives ==
  /\ editor.on /\ editor.id # 0 /\ tripSeen[editor.id] # trips[editor.id]
  /\ tripSeen' = [tripSeen EXCEPT ![editor.id] = trips[editor.id]]
  /\ editor' = Seeded(editor, tripSeen', 0)
  /\ UNCHANGED <<shellVars, trips, legsKnown, tripCalls, edits>>
-----------------------------------------------------------------------------
TripCall(op, body) ==
  [op |-> op, id |-> editor.id, got |-> editor.id, body |-> body, origin |-> editor.origin,
   loaded |-> editor.loaded, reused |-> editor.reused, live |-> TRUE, answer |-> "none"]
SendTrip(op, body) ==
  /\ editor.on /\ edits < MaxEdits
  /\ tripCalls' = tripCalls \cup {TripCall(op, body)}
  /\ edits' = edits + 1
  /\ UNCHANGED <<shellVars, trips, tripSeen, legsKnown, editor>>

(* "Enregistrer" leaves out the stops without a station or a time, and       *)
(* asks for two of them, a driver and a car.                                 *)
Clean(stops) ==
  LET clean[i \in 0..Len(stops)] ==
        IF i = 0 THEN <<>>
        ELSE IF stops[i].vs_id # 0 /\ stops[i].time # NoTime THEN Append(clean[i - 1], stops[i])
        ELSE clean[i - 1]
  IN clean[Len(stops)]
onSave ==
  LET cleanStops == Clean(editor.stops) IN
  /\ Len(cleanStops) >= 2 /\ editor.crew
  /\ SendTrip(IF editor.id = 0 THEN "create" ELSE "put",
          [mode |-> editor.mode, crew |-> TRUE, stops |-> cleanStops])
onDelete == editor.id # 0 /\ SendTrip("delete", NoTrip)

TripAnswered(c, answer, id) ==
  tripCalls' = (tripCalls \ {c}) \cup {[c EXCEPT !.answer = answer, !.got = id]}
ServeTrip(c) ==
  /\ c.answer = "none"
  /\ \/ /\ c.op = "create"
        /\ \E t \in Trips :
             /\ trips[t] = NoTrip /\ \A u \in Trips : u < t => trips[u] # NoTrip
             /\ trips' = [trips EXCEPT ![t] = c.body]
             /\ TripAnswered(c, "ok", t)
     \/ /\ c.op \in {"put", "delete"} /\ trips[c.id] # NoTrip
        /\ trips' = [trips EXCEPT ![c.id] = c.body]
        /\ TripAnswered(c, "ok", c.id)
     \/ TripAnswered(c, "error", c.id) /\ UNCHANGED trips
  /\ UNCHANGED <<shellVars, tripSeen, legsKnown, editor, edits>>

(* A created trip is opened, a deleted one left, wherever the user has gone  *)
(* meanwhile; the editor that created a trip goes on as its editor.          *)
ReceiveTrip(c) ==
  /\ c.answer # "none"
  /\ IF c.answer = "ok" /\ c.op = "create" THEN navigate(Path("trajets", c.got))
     ELSE IF c.answer = "ok" /\ c.op = "delete" THEN navigate(Path("trajets", 0))
     ELSE UNCHANGED shellVars
  /\ editor' =
       LET next == IF screen' = screen THEN editor ELSE EditorOn(screen') IN
       IF c.op = "create" /\ c.live /\ editor.id = 0 /\ next.id = c.got /\ ~editor.reused
       THEN [next EXCEPT !.origin = c.got, !.reused = FALSE] ELSE next
  /\ tripCalls' = LET rest == tripCalls \ {c} IN
                  IF editor'.on THEN rest ELSE {[d EXCEPT !.live = FALSE] : d \in rest}
  /\ UNCHANGED <<trips, tripSeen, legsKnown, edits>>
-----------------------------------------------------------------------------
TripInit ==
  /\ trips \in {StoredTrips, [t \in Trips |-> NoTrip]} /\ tripSeen = [t \in Trips |-> NoTrip]
  /\ legsKnown = FALSE /\ editor = NoEditor /\ tripCalls = {}
  /\ edits = 0

TripNext ==
  \/ \E i \in Positions :
       \/ \E vs \in StopStations \cup {0} : setStopVS(i, vs)
       \/ \E time \in Times \cup {NoTime} : setStopTime(i, time)
       \/ revertStopTime(i) \/ removeStop(i)
       \/ \E v \in Volunteers : toggleBoard(i, v) \/ toggleAlight(i, v)
  \/ addStop \/ setCrew
  \/ \E vs \in StopStations : appendStopForVS(vs)
  \/ \E mode \in Modes : setMode(mode)
  \/ LegsArrive \/ TripArrives
  \/ onSave \/ onDelete
  \/ \E c \in tripCalls : ServeTrip(c) \/ ReceiveTrip(c)
-----------------------------------------------------------------------------
Stop ==
  [vs_id : StopStations \cup {0}, time : Times \cup {NoTime}, source : {"auto", "manual"},
   board : SUBSET Volunteers, alight : SUBSET Volunteers]
IsStops(stops) == stops \in Seq(Stop) /\ Len(stops) <= MaxStops
IsTrip(trip) ==
  /\ trip \in [mode : Modes, crew : BOOLEAN, stops : Seq(Stop)]
  /\ IsStops(trip.stops)

(* 0 is no trip and no station; a new trip has two stops; what is stored at  *)
(* first, and what a need or the form proposes, is typed.                    *)
ASSUME TripAssumption ==
  /\ Trips \subseteq Nat \ {0} /\ 0 \notin StopStations /\ 0 \notin DOMAIN Needs
  /\ MinutesPerDay \in Nat \ {0} /\ MaxStops \in Nat /\ MaxStops >= 2
  /\ FromTime \in Times /\ ToTime \in Times
  /\ Legs \in [Modes -> [StopStations \X StopStations -> Int]]
  /\ \A n \in DOMAIN Needs :
       Needs[n] \in [from : StopStations, to : StopStations, vol : Volunteers,
                    from_time : Times, to_time : Times]
  /\ StoredTrips = [t \in Trips |-> StoredTrips[t]] /\ \A t \in Trips : IsTrip(StoredTrips[t])

TripTypeOK ==
  /\ \A t \in Trips : IsTrip(trips[t]) /\ IsTrip(tripSeen[t])
  /\ legsKnown \in BOOLEAN
  /\ IsStops(editor.stops) /\ editor.id \in Trips \cup {0} /\ editor.origin \in Trips \cup {0}
  /\ \A c \in tripCalls : IsTrip(c.body) /\ c.id \in Trips \cup {0}

(* After the times have been filled in, each automatic time follows from the *)
(* stop before it: a change of one time reaches every later automatic stop.  *)
(* A change of mode, a seeded trip and a stop added by a map click under     *)
(* another mode or matrix are not followed (setMode, the seed effect, the    *)
(* click listener of TripEditor).                                            *)
AutoTimesFollow ==
  editor.filled => \A i \in 2..Len(editor.stops) :
    LET leg == LegTo(editor.stops, i, editor.mode, legsKnown) IN
    (editor.stops[i].source = "auto" /\ leg # -1) =>
      editor.stops[i].time = addSeconds(editor.stops[i - 1].time, leg)

(* The chips of the editor say what the trip does: a volunteer is on board   *)
(* of a leg who got on at or before its start and has not got off since.     *)
ChipsTellTheTruth ==
  LET stops == editor.stops
      Rides(v, i) == \E k \in 1..i : /\ v \in stops[k].board
                                     /\ \A j \in k..i : v \notin stops[j].alight
      chips == legWarnings(editor, legsKnown) IN
  /\ chips.crowded = {i \in 1..(Len(stops) - 1) :
                        editor.crew /\ Cardinality({v \in Volunteers : Rides(v, i)}) > Seats}
  /\ chips.stranded = \E v \in Volunteers : Rides(v, Len(stops))

(* What is saved for a trip was read from that trip, and what creates a trip *)
(* comes from a new one, unless the URL led from one to the other under the  *)
(* same editor, which keeps the first one's stops, or the trip was saved     *)
(* before it could be read, as the form is there at once (TripEditor's       *)
(* loaded).                                                                  *)
FreshEditorsSaveTheirTrip ==
  \A c \in tripCalls :
    (c.op \in {"create", "put"} /\ c.origin # c.id) => c.reused \/ ~c.loaded
=============================================================================
