----------------------------- MODULE Chronologie -----------------------------
(***************************************************************************)
(* The timeline page over a plan: what useTimelineData derives from the     *)
(* fetched lists, the bars and alarms TimelineView paints, and where        *)
(* positions puts everyone at the cursor.  A plan is                        *)
(*   [known, home, driver    stations of the list, default station of each  *)
(*                           volunteer, default driver of each car,         *)
(*    missions, trips        lists of [id, vs, start, end, assigned] and    *)
(*                           [id, car, stops], a stop being                 *)
(*                           [id, vs, time, board, alight],                 *)
(*    starts, front, tail    start times of the race's trials, its entries' *)
(*                           first and last passages [vs, time, dist],      *)
(*    track                  distance of each track point from the first,   *)
(*    event                  first and last date, or None,                  *)
(*    warnings]              [kind, severity, missions, trips, stops]       *)
(***************************************************************************)
EXTENDS Cursor, Positions

CONSTANTS Volunteers, Cars, Plans

VARIABLES
  plan,       \* the lists as last fetched
  late        \* which of the queries the page does not wait for have answered

page == <<plan, late>>
vars == <<controls, page>>

Late == {"race", "assignments"}

(* What the page knows: a query without data counts as an empty list, and   *)
(* a volunteer without assignments as free.                                 *)
Seen(p, answered) ==
  [p EXCEPT
    !.starts = IF "race" \in answered THEN @ ELSE {},
    !.front = IF "race" \in answered THEN @ ELSE <<>>,
    !.tail = IF "race" \in answered THEN @ ELSE <<>>,
    !.missions = IF "assignments" \in answered THEN @
                 ELSE [i \in DOMAIN @ |-> [@[i] EXCEPT !.assigned = {}]]]
View == Seen(plan, late)

-------------------------------------------------------------------------------
(* The range of the data: whole days around every time that can be read,    *)
(* else the event's dates, else one day from zero.                          *)
Times(p) ==
  (UNION {{m.start, m.end} : m \in ToSet(p.missions)})
  \cup (UNION {{s.time : s \in ToSet(tr.stops)} : tr \in ToSet(p.trips)})
  \cup p.starts
  \cup {e.time : e \in ToSet(p.front) \cup ToSet(p.tail)}
DataRange(p) ==
  LET times == Times(p) \ {None, Unread}
  IN  IF times # {}
      THEN [from |-> (Min(times) \div Day) * Day,
            to |-> (Max(times) \div Day + 1) * Day - 1]
      ELSE IF p.event # None THEN p.event ELSE [from |-> 0, to |-> Day]

(* What the lists of a race hold: the track's distances only grow.          *)
Passages == [vs : Stations, time : Int \cup {Unread}, dist : Int]
IsRace(p) ==
  /\ {"known", "starts", "front", "tail", "track"} \subseteq DOMAIN p
  /\ p.starts \subseteq Int \cup {None, Unread} /\ IsFiniteSet(p.starts)
  /\ p.front \in Seq(Passages) /\ p.tail \in Seq(Passages)
  /\ p.track \in Seq(Int)
  /\ \A i, j \in DOMAIN p.track : i <= j => p.track[i] <= p.track[j]

(* What its other lists hold: rows of the database, under their ids.        *)
Severities == {"error", "warn", "info"}
IsMission(m) ==
  /\ {"id", "vs", "start", "end", "assigned"} \subseteq DOMAIN m
  /\ m.vs \in Stations /\ {m.start, m.end} \subseteq Int \cup {Unread}
IsTrip(tr) ==
  /\ tr.car \in Cars /\ tr.stops \in Seq(ToSet(tr.stops))
  /\ \A s \in ToSet(tr.stops) : s.vs \in Stations /\ s.time \in Int \cup {Unread}
IsWarning(w) ==
  w.severity \in Severities /\ w.missions \in Seq(ToSet(w.missions)) /\ None \notin w.stops
IsPlanning(p) ==
  /\ {"known", "missions", "trips", "warnings"} \subseteq DOMAIN p
  /\ p.known \subseteq Stations
  /\ p.missions \in Seq(ToSet(p.missions)) /\ \A m \in ToSet(p.missions) : IsMission(m)
  /\ p.trips \in Seq(ToSet(p.trips)) /\ \A tr \in ToSet(p.trips) : IsTrip(tr)
  /\ p.warnings \in Seq(ToSet(p.warnings)) /\ \A w \in ToSet(p.warnings) : IsWarning(w)
  /\ \A m, o \in ToSet(p.missions) : m.id = o.id => m = o
  /\ \A tr, x \in ToSet(p.trips) : tr.id = x.id => tr = x

ASSUME PlansAssumption ==
  \A p \in Plans :
    IsRace(p) /\ IsPlanning(p) /\ \A l \in SUBSET Late : DataRange(Seen(p, l)) \in Ranges
(* Rows of the chart and levels of a warning are not confused.              *)
ASSUME RowsAssumption ==
  /\ Stations \cap Cars = {} /\ {"race-front", "race-tail"} \cap (Stations \cup Cars) = {}
  /\ None \notin Severities

(* buildWarningLookups: which missions and which legs a warning is shown on. *)
(* Legs are counted in the order of the stored stops.                       *)
StopKinds == {"capacity_exceeded", "board_without_alight", "alight_before_board"}
BookingKinds == {"driver_double_book", "passenger_double_book"}
NoBarKinds == {"unassigned", "missing_phone_with_assignments"}
(* Mutant: a stop's warning only reaches the leg that arrives at it.        *)
ArrivingLegs(trip, w) ==
  IF w.kind \in StopKinds
  THEN {i \in 1 .. Len(trip.stops) - 1 : trip.stops[i + 1].id \in w.stops}
  ELSE IF w.kind \in BookingKinds \cup {"insufficient_travel"}
  THEN 1 .. Len(trip.stops) - 1 ELSE {}
LegsOf(trip, w) ==
  LET all == 1 .. Len(trip.stops) - 1
      named == \E s \in ToSet(trip.stops) : s.id # None
  IN  IF w.kind \in StopKinds
      THEN IF ~named \/ w.stops = {} THEN all
           ELSE {i \in all : {trip.stops[i].id, trip.stops[i + 1].id}
                               \cap (w.stops \ {None}) # {}}
      ELSE IF w.kind \in BookingKinds \cup {"insufficient_travel"} THEN all ELSE {}
MissionsOf(p, w) ==
  IF w.kind \in StopKinds \cup BookingKinds \cup NoBarKinds THEN {}
  ELSE ToSet(w.missions) \cap {m.id : m \in ToSet(p.missions)}
WarningsByMission(p, id) == {w \in ToSet(p.warnings) : id \in MissionsOf(p, w)}
WarningsByTripLeg(p, trip, leg) ==
  {w \in ToSet(p.warnings) : trip.id \in w.trips /\ leg \in LegsOf(trip, w)}

(* drawWarningBorder: the gravest warning of a bar, staffing left out.      *)
Border(ws) ==
  LET severities == {w.severity : w \in {x \in ws :
                       x.kind \notin {"understaffed", "overstaffed"}}}
  IN  CASE "error" \in severities -> "error"
        [] "error" \notin severities /\ "warn" \in severities -> "warn"
        [] severities = {"info"} -> "info"
        [] OTHER -> None

(* buildStrandedPairs: a triangle on the right of the first mission of a    *)
(* stranded warning and on the left of the last.                            *)
MissionStart(p, id) ==
  LET ms == {m \in ToSet(p.missions) : m.id = id /\ m.start # Unread}
  IN  IF ms = {} THEN Max(Times(p) \ {None, Unread}) + 1 ELSE (CHOOSE m \in ms : TRUE).start
InTurn(p, w) ==
  ByTime(w.missions, [i \in DOMAIN w.missions |-> MissionStart(p, w.missions[i])])
Stranded(p) ==
  LET pairs == {w \in ToSet(p.warnings) :
                  w.kind = "stranded" /\ MissionsOf(p, w) # {} /\ Len(w.missions) >= 2}
      marked == {w \in pairs : Head(InTurn(p, w)) # Last(InTurn(p, w))}
  IN  [right |-> {Head(InTurn(p, w)) : w \in marked}, left |-> {Last(InTurn(p, w)) : w \in marked}]

-------------------------------------------------------------------------------
(* buildRowsAndBars.  A bar is [row, from, to, of, leg].                    *)
Legs(points, row) ==
  {[row |-> row, from |-> points[i].time, to |-> points[i + 1].time,
    of |-> IF points[i].vs = None THEN None ELSE <<points[i].vs, points[i + 1].vs>>,
    leg |-> i] : i \in 1 .. Len(points) - 1}
RacePoints(p, readings) ==
  (IF RaceStart(p) = None THEN <<>> ELSE <<[time |-> RaceStart(p), vs |-> None]>>)
  \o [i \in DOMAIN Timings(p, readings) |->
        [time |-> Timings(p, readings)[i].time, vs |-> Timings(p, readings)[i].vs]]
RaceBars(p) == Legs(RacePoints(p, p.front), "race-front")
               \cup Legs(RacePoints(p, p.tail), "race-tail")
MissionBars(p) ==
  {[row |-> m.vs, from |-> m.start, to |-> m.end, of |-> m.id, leg |-> 0] :
     m \in {x \in ToSet(p.missions) : Unread \notin {x.start, x.end}}}
(* A comparison with an unreadable time leaves the order of the stops alone. *)
LegBars(p) ==
  LET stops(tr) == IF Unread \in {s.time : s \in ToSet(tr.stops)}
                   THEN tr.stops ELSE Timed(tr)
      bars(tr) == {[row |-> tr.car, from |-> stops(tr)[i].time,
                    to |-> stops(tr)[i + 1].time, of |-> tr.id, leg |-> i] :
                     i \in 1 .. Len(stops(tr)) - 1}
  IN  {b \in UNION {bars(tr) : tr \in ToSet(p.trips)} : Unread \notin {b.from, b.to}}
Bars(p) == RaceBars(p) \cup MissionBars(p) \cup LegBars(p)

-------------------------------------------------------------------------------
Init ==
  /\ plan \in Plans /\ late = {}
  /\ data = DataRange(View) /\ CursorInit

(* A query answers, or answers anew with the plan another user has made.    *)
Refetch ==
  /\ \E p \in Plans, l \in SUBSET Late : late \subseteq l /\ plan' = p /\ late' = l
  /\ NewData(DataRange(View'))

Control ==
  /\ \/ Mount \/ Unmount \/ Commit \/ Tick \/ Toggle \/ ArrowLeft \/ ArrowRight
     \/ \E w \in 0 .. TotalDays : SetWindow(w)
     \/ \E t \in Bounds.from .. Bounds.to : Seek(t)
  /\ UNCHANGED page
Next == Control \/ Refetch
Spec == Init /\ [][Next]_vars /\ WF_vars(Commit /\ UNCHANGED page)
-------------------------------------------------------------------------------
(***************************************************************************)
(* Properties.                                                              *)
(***************************************************************************)
TypeOK ==
  /\ data \in Ranges /\ window \in Nat
  /\ cursor \in Nat /\ playing \in BOOLEAN /\ auto \in {NoSeek} \cup Nat
  /\ due \subseteq {"start", "window"} /\ mounted \in BOOLEAN /\ drifted \in BOOLEAN
  /\ plan \in Plans /\ late \subseteq Late

(* Once the effects have run, the cursor is inside the chosen window,       *)
(* unless playing carried it past the end: TimelineControls' two effects.   *)
CursorInWindow ==
  mounted /\ due = {} /\ data.from > 0 =>
    /\ cursor >= Bounds.from
    /\ cursor <= Bounds.to \/ drifted

(* A cursor left outside the window by a change of window or of data is     *)
(* brought back, whatever the user goes on doing.                           *)
CursorReturns ==
  (mounted /\ data.from > 0 /\ ~drifted /\ ~Within(cursor))
    ~> (~mounted \/ data.from = 0 \/ drifted \/ Within(cursor))

(* From his board to his alight, unless he is on duty, a volunteer is drawn  *)
(* where the car he is in is drawn: VolunteerPosition and CarPosition look   *)
(* for the leg among different stops.  The car must have no other trip then. *)
OneRide(tr, v) ==
  /\ \A i, j \in DOMAIN tr.stops : i < j => tr.stops[i].time < tr.stops[j].time
  /\ \A i, j \in DOMAIN tr.stops : v \in tr.stops[i].board \cap tr.stops[j].board => i = j
  /\ \A i, j \in DOMAIN tr.stops : v \in tr.stops[i].alight \cap tr.stops[j].alight => i = j
  /\ \A i \in DOMAIN tr.stops : v \notin tr.stops[i].board \cap tr.stops[i].alight
Running(tr, t) ==
  \E i, j \in DOMAIN tr.stops : tr.stops[i].time <= t /\ t <= tr.stops[j].time
Aboard(tr, v, t) ==
  \E i, j \in DOMAIN tr.stops :
    /\ v \in tr.stops[i].board /\ v \in tr.stops[j].alight
    /\ tr.stops[i].time <= t /\ t <= tr.stops[j].time
OnDuty(p, v, t) ==
  \E m \in ToSet(p.missions) :
    v \in m.assigned /\ Unread \notin {m.start, m.end} /\ m.start <= t /\ t < m.end
RidersMoveWithTheirCar ==
  \A v \in Volunteers :
    LET rides == {tr \in ToSet(View.trips) : Aboard(tr, v, cursor)}
    IN  /\ \A tr \in ToSet(View.trips) : {s.vs : s \in ToSet(tr.stops)} \subseteq View.known
        /\ \A tr \in ToSet(View.trips) : Unread \notin {s.time : s \in ToSet(tr.stops)}
        /\ rides # {} /\ \A tr \in rides : OneRide(tr, v)
        /\ \A tr \in rides, x \in ToSet(View.trips) :
             x.car = tr.car /\ Running(x, cursor) => x = tr
        /\ ~OnDuty(View, v, cursor)
        => \E tr \in rides : Same(VolunteerPosition(View, v, cursor),
                                  CarPosition(View, tr.car, cursor))

(* The front and the tail of the race are drawn between the station last    *)
(* passed and the next one, for as long as there is a next one and from the *)
(* start on; and at the track point the binary search is meant to find.     *)
Underway(d, seen, t) ==
  LET passed == {e \in seen : e.time < t}
      coming == {e \in seen : e.time >= t}
      reach == {e.dist : e \in seen} \cup {0}
  IN  /\ d[1] >= d[2] * Min(reach) /\ d[1] <= d[2] * Max(reach)
      /\ passed # {} => \E e \in passed, f \in coming :
           /\ \A x \in passed : x.time <= e.time
           /\ \A x \in coming : x.time >= f.time
           /\ d[2] * (IF e.dist <= f.dist THEN e.dist ELSE f.dist) <= d[1]
           /\ d[1] <= d[2] * (IF e.dist <= f.dist THEN f.dist ELSE e.dist)
RunnersBetweenTimings ==
  \A readings \in {View.front, View.tail} :
    LET d == RunnerDist(View, readings, cursor)
        seen == ToSet(Timings(View, readings))
        begun == IF RaceStart(View) # None THEN RaceStart(View) <= cursor
                 ELSE \E e \in seen : e.time <= cursor
    IN  /\ (d # None) <=> (begun /\ \E e \in seen : e.time >= cursor)
        /\ d # None => /\ Underway(d, seen, cursor)
                       /\ View.track # <<>> =>
                            LET i == Lookup(View.track, d).point
                            IN  /\ \A k \in DOMAIN View.track :
                                     View.track[k] * d[2] < d[1] => k <= i
                                /\ i > 1 => View.track[i] * d[2] <= d[1]

(* The warnings colour exactly the bars they are about, as gravely as the   *)
(* gravest of them: a mission they name, every leg of a double-booked trip, *)
(* the legs that touch a stop they name; and the triangles point from an    *)
(* earlier mission to a later one.  Legs are matched by rank, so the stops  *)
(* must be stored in the order of time, and what the warnings name must     *)
(* still be there.                                                          *)
Concerns(w, bar, p) ==
  \/ /\ bar.row \in Stations /\ bar.of \in ToSet(w.missions)
     /\ w.kind \notin StopKinds \cup BookingKinds \cup NoBarKinds
  \/ \E tr \in ToSet(p.trips) :
       /\ bar.row \in Cars /\ tr.id = bar.of /\ tr.id \in w.trips
       /\ \/ w.kind \in BookingKinds \cup {"insufficient_travel"}
          \/ /\ w.kind \in StopKinds
             /\ \E s \in ToSet(tr.stops) : s.id \in w.stops /\ s.time \in {bar.from, bar.to}
Marked(bar, p) ==
  IF bar.row \in Stations THEN Border(WarningsByMission(p, bar.of))
  ELSE IF bar.row \in Cars
  THEN Border(WarningsByTripLeg(p, CHOOSE tr \in ToSet(p.trips) : tr.id = bar.of, bar.leg))
  ELSE None
Staffing(w) == w.kind \in {"understaffed", "overstaffed"}
About(p, bar) ==
  {w.severity : w \in {x \in ToSet(p.warnings) : Concerns(x, bar, p) /\ ~Staffing(x)}}
GravestOf(about, mark) ==
  /\ (mark = None) <=> (about = {})
  /\ "error" \in about => mark = "error"
  /\ "error" \notin about /\ "warn" \in about => mark = "warn"
  /\ about = {"info"} => mark = "info"
OrderedTrip(tr) ==
  /\ Unread \notin {s.time : s \in ToSet(tr.stops)}
  /\ \A i, j \in DOMAIN tr.stops : i < j => tr.stops[i].time < tr.stops[j].time
Matches(tr, w) ==
  tr.id \in w.trips /\ w.kind \in StopKinds =>
    w.stops # {} /\ w.stops \subseteq {s.id : s \in ToSet(tr.stops)}
OnScreen(p, w) ==
  w.kind = "stranded" =>
    ToSet(w.missions) \subseteq
      {m.id : m \in {x \in ToSet(p.missions) : Unread \notin {x.start, x.end}}}
Current(p) ==
  /\ \A tr \in ToSet(p.trips) : OrderedTrip(tr)
  /\ \A w \in ToSet(p.warnings) :
       OnScreen(p, w) /\ \A tr \in ToSet(p.trips) : Matches(tr, w)
AlarmsAreMarked ==
  Current(View) =>
    /\ \A bar \in Bars(View) : GravestOf(About(View, bar), Marked(bar, View))
    /\ \A m \in ToSet(View.missions) :
         m.id \in Stranded(View).left => \E o \in ToSet(View.missions) :
           o.id \in Stranded(View).right /\ o.start <= m.start
================================================================================
