------------------------------- MODULE Positions -------------------------------
(***************************************************************************)
(* Where the timeline puts volunteers, cars and runners at a given time.    *)
(* Everything here is a function of a plan (the lists the page fetched) and *)
(* a time t.  Places lie on a line: the code interpolates longitude and     *)
(* latitude with the same fraction.  A position is <<n, d>>, standing for   *)
(* n / d, so that nothing is rounded; None stands for null.                 *)
(***************************************************************************)
EXTENDS Integers, Sequences, SequencesExt, FiniteSetsExt

CONSTANTS
  Stations,     \* volunteer stations (VS)
  Place,        \* their coordinates
  None,         \* null: no position, no start time, no default station
  Unread        \* a time that Date.parse cannot read

ASSUME PlaceAssumption == Place \in [Stations -> Int]
ASSUME NoneAssumption ==
  None \notin Stations \cup Int \cup (Int \X Int) /\ Unread \notin Int

(* What a filter and a sort leave of a list: the elements time is given for, *)
(* by that time; equal times keep their order.                              *)
ByTime(s, time) ==
  LET rank(i) == Cardinality({j \in DOMAIN time :
                   time[j] < time[i] \/ (time[j] = time[i] /\ j <= i)})
  IN  [k \in 1 .. Cardinality(DOMAIN time) |-> s[CHOOSE i \in DOMAIN time : rank(i) = k]]

-------------------------------------------------------------------------------
(* Interpolation.  A leg of no duration leaves its car at its first stop.   *)
At(s) == <<Place[s], 1>>
Between(a, b, n, d) ==
  IF d = 0 THEN At(a) ELSE <<Place[a] * d + (Place[b] - Place[a]) * n, d>>
Same(p, q) == p # None /\ q # None /\ p[1] * q[2] = q[1] * p[2]

(* The context's lists: the readable stops of a trip by time, and the        *)
(* missions a volunteer is assigned to by start.                            *)
Timed(trip) ==
  LET readable == {i \in DOMAIN trip.stops : trip.stops[i].time # Unread}
  IN  ByTime(trip.stops, [i \in readable |-> trip.stops[i].time])
Duties(plan, v) ==
  LET duties == {i \in DOMAIN plan.missions :
                   /\ v \in plan.missions[i].assigned
                   /\ Unread \notin {plan.missions[i].start, plan.missions[i].end}}
  IN  ByTime(plan.missions, [i \in duties |-> plan.missions[i].start])

(* The first leg between stops i and j that is under way at t, and where on  *)
(* it; null when the list of stations has not got one of its ends.          *)
LegsAt(stops, i, j, t) ==
  {k \in i .. j - 1 : stops[k].time <= t /\ t <= stops[k + 1].time}
OnLeg(plan, stops, k, t) ==
  LET a == stops[k]
      b == stops[k + 1]
  IN  IF {a.vs, b.vs} \subseteq plan.known
      THEN Between(a.vs, b.vs, t - a.time, b.time - a.time) ELSE None

(* Mutant: straight from where the rider boards to where he alights.        *)
StraightRide(plan, stops, v, t) ==
  LET boards == {i \in DOMAIN stops : v \in stops[i].board}
      alights == {i \in DOMAIN stops : v \in stops[i].alight}
  IN  IF boards = {} \/ alights = {} THEN None
      ELSE LET b == stops[Max(boards)]
               a == stops[Max(alights)]
           IN  IF Max(boards) < Max(alights) /\ b.time <= t /\ t <= a.time
               THEN Between(b.vs, a.vs, t - b.time, a.time - b.time) ELSE None
(* interpAlongTrip: a rider counts as aboard from his last board to his last *)
(* alight.                                                                  *)
OnRide(plan, stops, v, t) ==
  LET boards == {i \in DOMAIN stops : v \in stops[i].board}
      alights == {i \in DOMAIN stops : v \in stops[i].alight}
  IN  IF boards = {} \/ alights = {} THEN None
      ELSE LET legs == LegsAt(stops, Max(boards), Max(alights), t)
           IN  IF legs = {} THEN None ELSE OnLeg(plan, stops, Min(legs), t)

Home(plan, v) ==
  IF plan.home[v] \in plan.known THEN At(plan.home[v]) ELSE None

(* A mission under way comes first, then a ride, then the default station.  *)
VolunteerPosition(plan, v, t) ==
  LET duties == {m \in DOMAIN Duties(plan, v) :
                   /\ Duties(plan, v)[m].start <= t /\ t < Duties(plan, v)[m].end
                   /\ Duties(plan, v)[m].vs \in plan.known}
      rides == {i \in DOMAIN plan.trips : OnRide(plan, Timed(plan.trips[i]), v, t) # None}
  IN  IF duties # {} THEN At(Duties(plan, v)[Min(duties)].vs)
      ELSE IF rides # {} THEN OnRide(plan, Timed(plan.trips[Min(rides)]), v, t)
      ELSE Home(plan, v)

(* The first trip of the car that is under way, else where its driver lives. *)
CarPosition(plan, c, t) ==
  LET legs(i) == IF plan.trips[i].car = c
                 THEN LegsAt(Timed(plan.trips[i]), 1, Len(Timed(plan.trips[i])), t)
                 ELSE {}
      running == {i \in DOMAIN plan.trips : legs(i) # {}}
  IN  IF running # {}
      THEN OnLeg(plan, Timed(plan.trips[Min(running)]), Min(legs(Min(running))), t)
      ELSE IF plan.driver[c] = None THEN None ELSE Home(plan, plan.driver[c])

-------------------------------------------------------------------------------
(* Runners.  Timings are [time, dist] by time; the race starts at dist 0.    *)
(* Mutant: the timing already passed is taken as the next one.              *)
DistFromNext(timings, start, t) ==
  LET ahead == {i \in DOMAIN timings : t <= timings[i].time}
  IN  IF ahead = {} \/ (start # None /\ t < start) THEN None
      ELSE <<timings[Min(ahead)].dist, 1>>
DistAtTime(timings, start, t) ==
  IF timings = <<>> \/ t < (IF start = None THEN timings[1].time ELSE start) THEN None
  ELSE LET ahead == {i \in DOMAIN timings : t <= timings[i].time}
           i == Min(ahead)
           next == timings[i]
           prev == CASE i > 1 -> timings[i - 1]
                     [] i = 1 /\ start # None -> [time |-> start, dist |-> 0]
                     [] OTHER -> next
       IN  IF ahead = {} THEN None
           ELSE IF next.time = prev.time THEN <<next.dist, 1>>
           ELSE <<prev.dist * (next.time - prev.time)
                    + (next.dist - prev.dist) * (t - prev.time),
                  next.time - prev.time>>

(* searchCumDist: the binary search for the track point before distance d,   *)
(* with points counted from 1.  After n rounds the loop has ended.           *)
Reached(cum, d, i) == cum[i] * d[2] <= d[1]
Halved(cum, d, b) ==
  LET mid == (b[1] + b[2]) \div 2
  IN  IF b[1] >= b[2] - 1 THEN b
      ELSE IF Reached(cum, d, mid) THEN <<mid, b[2]>> ELSE <<b[1], mid>>
SearchCumDist(cum, d) ==
  LET n == Len(cum)
      between[k \in 0 .. n] == IF k = 0 THEN <<1, n>> ELSE Halved(cum, d, between[k - 1])
  IN  IF n = 0 THEN 0
      ELSE IF d[1] <= cum[1] * d[2] THEN 1
      ELSE IF Reached(cum, d, n) THEN n ELSE between[n][1]

(* lookupLonLat: the place on the track at distance d, between two points    *)
(* as [point, share of the way to the next]; null without a track.          *)
Lookup(cum, d) ==
  LET i == SearchCumDist(cum, d)
  IN  IF i = 0 THEN None
      ELSE IF i = Len(cum) \/ cum[i + 1] = cum[i] THEN [point |-> i, share |-> <<0, 1>>]
      ELSE [point |-> i,
            share |-> <<d[1] - cum[i] * d[2], (cum[i + 1] - cum[i]) * d[2]>>]

(* buildRaceTimeline: readable timings of known stations by time, and the    *)
(* earliest start of a trial.                                               *)
Timings(plan, readings) ==
  LET kept == {i \in DOMAIN readings :
                 readings[i].vs \in plan.known /\ readings[i].time # Unread}
  IN  ByTime(readings, [i \in kept |-> readings[i].time])
RaceStart(plan) ==
  LET starts == plan.starts \ {None, Unread}
  IN  IF starts = {} THEN None ELSE Min(starts)
RunnerDist(plan, readings, t) ==
  DistAtTime(Timings(plan, readings), RaceStart(plan), t)
================================================================================
