--------------------------- MODULE MCChronologie ---------------------------
(***************************************************************************)
(* A day is ten units.  Two cars, three stations that are not evenly spaced *)
(* in time or space, and plans that cross the cases: orders of the stops,   *)
(* who boards and alights where, duty during the ride, a missing station,   *)
(* unreadable times, stop ids that are there or not, a race over two days.  *)
(***************************************************************************)
EXTENDS Chronologie

CONSTANTS s1, s2, s3, c1, c2, v1, v2, m1, m2, t1, t2

MCPlace == [s \in {s1, s2, s3} |-> CASE s = s1 -> 0 [] s = s2 -> 6 [] OTHER -> 7]

Stop(id, vs, time, board, alight) ==
  [id |-> id, vs |-> vs, time |-> time, board |-> board, alight |-> alight]
Warn(kind, severity, missions, trips, stops) ==
  [kind |-> kind, severity |-> severity, missions |-> missions, trips |-> trips,
   stops |-> stops]
Mission(id, vs, from, to, assigned) ==
  [id |-> id, vs |-> vs, start |-> from, end |-> to, assigned |-> assigned]
Passage(vs, time, dist) == [vs |-> vs, time |-> time, dist |-> dist]

Ride(x, y, z) == [id |-> t1, car |-> c1, stops |->
  <<Stop(1, s1, x, {v1}, {}), Stop(2, s2, y, {v2}, {}), Stop(3, s3, z, {}, {v1, v2})>>]
Back == [id |-> t2, car |-> c2, stops |->
  <<Stop(None, s3, 18, {v1}, {}), Stop(None, s1, 19, {}, {v1})>>]
Duty == <<Mission(m1, s2, 14, 16, {v2}), Mission(m2, s3, 17, 19, {v1})>>

Quiet == [known |-> {s1, s2, s3}, home |-> [v \in {v1, v2} |-> s1],
          driver |-> [c \in {c1, c2} |-> v2], missions |-> <<>>, trips |-> <<>>,
          starts |-> {None}, front |-> <<>>, tail |-> <<>>, track |-> <<0, 3, 3, 8>>,
          event |-> [from |-> 10, to |-> 19], warnings |-> <<>>]

Alarms == <<Warn("capacity_exceeded", "error", <<>>, {t1}, {2}),
            Warn("alight_before_board", "warn", <<>>, {t1}, {3}),
            Warn("driver_double_book", "info", <<>>, {t1, t2}, {}),
            Warn("understaffed", "error", <<m1>>, {}, {}),
            Warn("stranded", "error", <<m2, m1>>, {}, {}),
            Warn("insufficient_travel", "warn", <<m2>>, {t2}, {}),
            Warn("unassigned", "info", <<>>, {}, {})>>

MCPlans == {
  [Quiet EXCEPT !.event = None],
  Quiet,
  [Quiet EXCEPT !.trips = <<Ride(13, 16, 18), Back>>, !.missions = Duty,
                !.warnings = Alarms],
  [Quiet EXCEPT !.trips = <<Ride(13, 13, 18)>>],
  [Quiet EXCEPT !.trips = <<Ride(16, 13, 18)>>, !.known = {s1, s3}],
  [Quiet EXCEPT !.trips = <<Ride(13, Unread, 16)>>,
                !.missions = <<Mission(m1, s2, Unread, 16, {v1})>>,
                !.warnings = <<Warn("stranded", "warn", <<m2, m1>>, {}, {})>>],
  [Quiet EXCEPT !.starts = {12, 15}, !.missions = Duty,
                !.front = <<Passage(s1, 15, 3), Passage(s3, 17, 8)>>,
                !.tail = <<Passage(s3, 22, 8), Passage(s1, 16, 3), Passage(s2, 24, 5)>>],
  [Quiet EXCEPT !.starts = {Unread}, !.track = <<>>,
                !.front = <<Passage(s1, 24, 3), Passage(s2, Unread, 1)>>,
                !.tail = <<Passage(s1, 24, 3), Passage(s3, 26, 8)>>]
}

MCRanges == [from : {0, 10, 20}, to : {10, 19, 29}] \cap {r \in [from : 0 .. 20, to : 0 .. 29] : r.from <= r.to}
================================================================================
