------------------------------- MODULE TripWalk -------------------------------
(***************************************************************************)
(* How the constraint engine follows one trip.  Four of its loops walk the  *)
(* stops in order, at each stop taking the boards before the alights:       *)
(* newIndex and passengerDoubleBook collect the rides, boardAlightConsis-   *)
(* tency flags boardings that do not match, capacityExceeded counts who is  *)
(* on board.  They are walked here together, one stop a step.               *)
(***************************************************************************)
EXTENDS Integers, FiniteSets

CONSTANTS People, Last, Seats      \* stops are 1 .. Last

ASSUME LastAssumption == Last \in Nat /\ Last >= 2
ASSUME SeatsAssumption == Seats \in Nat \ {0}

Stops == 1 .. Last

VARIABLES
  board, alight,     \* the trip: who gets in and out at each stop
  i,                 \* the stop to look at next
  boarded,           \* where each rider's open ride began, 0 if none is open
  rides,             \* the rides that ended: [who, from, to]
  alightedSomewhere, \* who has ended one
  early,             \* alight_before_board: [who, at]
  onboard,           \* who capacityExceeded has on board
  exceeded           \* the stops it flags

trip == <<board, alight>>
vars == <<trip, i, boarded, rides, alightedSomewhere, early, onboard, exceeded>>

Ride == [who : People, from : Stops, to : Stops]

Init ==
  /\ board \in [Stops -> SUBSET People]
  /\ alight \in [Stops -> SUBSET People]
  /\ i = 1
  /\ boarded = [v \in People |-> 0]
  /\ rides = {} /\ alightedSomewhere = {} /\ early = {}
  /\ onboard = {} /\ exceeded = {}

(* Mutants: a ride begins at the stop after the board; a second board moves   *)
(* the start of the ride.                                                   *)
OpenedAfter(v) == IF boarded[v] = 0 /\ v \in board[i] THEN i + 1 ELSE boarded[v]
OpenedAgain(v) == IF v \in board[i] THEN i ELSE boarded[v]
(* A second board while a ride is open is ignored.                          *)
Opened(v) == IF boarded[v] = 0 /\ v \in board[i] THEN i ELSE boarded[v]
Ending == {v \in alight[i] : Opened(v) # 0}

(* Mutant: an earlier board is not looked for.                              *)
BoardsAgain(v) == \E k \in Stops : k > i /\ v \in board[k]
BoardsLater(v) ==
  /\ \E k \in Stops : v \in board[k]
  /\ \A k \in 1 .. i : v \notin board[k]

WalkRides ==
  /\ boarded' = [v \in People |-> IF v \in alight[i] THEN 0 ELSE Opened(v)]
  /\ rides' = rides \cup {[who |-> v, from |-> Opened(v), to |-> i] : v \in Ending}
  /\ alightedSomewhere' = alightedSomewhere \cup Ending
  /\ early' = early \cup {[who |-> v, at |-> i] :
                            v \in {u \in alight[i] \ Ending : BoardsLater(u)}}

(* Mutant: the alights are taken before the boards.                          *)
WalkCapacitySwapped ==
  IF i < Last
  THEN /\ onboard' = (onboard \ alight[i]) \cup board[i]
       /\ exceeded' = IF Cardinality(onboard') > Seats THEN exceeded \cup {i}
                                                       ELSE exceeded
  ELSE UNCHANGED <<onboard, exceeded>>
(* Nobody is counted after the last stop.                                   *)
WalkCapacity ==
  IF i < Last
  THEN /\ onboard' = (onboard \cup board[i]) \ alight[i]
       /\ exceeded' = IF Cardinality(onboard') > Seats THEN exceeded \cup {i}
                                                       ELSE exceeded
  ELSE UNCHANGED <<onboard, exceeded>>

WalkStop ==
  /\ i <= Last
  /\ WalkRides
  /\ WalkCapacity
  /\ i' = i + 1
  /\ UNCHANGED trip

Spec == Init /\ [][WalkStop]_vars

Walked == i = Last + 1
(* board_without_alight, once the walk has ended.                           *)
LeftAboard == {v \in People : boarded[v] # 0 /\ v \notin alightedSomewhere}

(* passengerDoubleBook beside something else v does from start to end, a     *)
(* mission or a ride of another trip: the rides of this trip it clashes with. *)
(* Each gives one warning, whose id is made of the volunteer, the trip and    *)
(* the other thing.  Times are counted in stops.                             *)
ClashingRides(v, start, end) ==
  {x \in rides : x.who = v /\ ~(x.to <= start \/ end <= x.from)}

-------------------------------------------------------------------------------
TypeOK ==
  /\ board \in [Stops -> SUBSET People] /\ alight \in [Stops -> SUBSET People]
  /\ i \in 1 .. Last + 1
  /\ boarded \in [People -> 0 .. Last]
  /\ rides \subseteq Ride
  /\ alightedSomewhere \subseteq People
  /\ early \subseteq [who : People, at : Stops]
  /\ onboard \subseteq People
  /\ exceeded \subseteq Stops

(* The meaning of a trip, apart from any walk: v is on board after stop k    *)
(* when it got in at some stop up to k and has got out at none from there on.*)
Aboard(v, k) ==
  \E b \in 1 .. k : v \in board[b] /\ \A j \in b .. k : v \notin alight[j]
IsRide(x) ==
  /\ x.from <= x.to
  /\ x.who \in board[x.from] /\ ~Aboard(x.who, x.from - 1)
  /\ x.who \in alight[x.to]
  /\ \A j \in x.from .. x.to - 1 : x.who \notin alight[j]

(* The rides the walk collects, on which stranded and passengerDoubleBook    *)
(* rest, are exactly the rides of the trip: none is missed when somebody     *)
(* boards twice, gets in and out at one stop or comes back later.            *)
RidesAreExact == rides = {x \in Ride : x.to < i /\ IsRide(x)}

(* The capacity count keeps the same people on board as the ride walk has    *)
(* rides open for, and a stop is flagged exactly when the people aboard      *)
(* after it are more than the seats.                                        *)
CapacityIsExact ==
  exceeded = {k \in Stops : /\ k < i /\ k < Last
                            /\ Cardinality({v \in People : Aboard(v, k)}) > Seats}

(* v gets in at some stop of the trip.                                       *)
BoardsSomewhere(v) == \E k \in Stops : v \in board[k]

(* A rider is flagged as never alighting exactly when still aboard after the *)
(* last stop with no ride ended, and one who boards somewhere on the trip, at *)
(* a stop as alighting before boarding, exactly when getting out there with   *)
(* every board at a later stop.  (Somebody who ends a ride and then stays on  *)
(* board is not flagged.  Who gets out and boards nowhere on the trip is the   *)
(* subject of OrphansAreFlagged.)                                            *)
AlarmsAreExact ==
  /\ Walked => LeftAboard = {v \in People : /\ Aboard(v, Last)
                                           /\ \A x \in Ride : IsRide(x) => x.who # v}
  /\ {x \in early : BoardsSomewhere(x.who)} =
       {x \in [who : People, at : Stops] :
          /\ x.at < i /\ x.who \in alight[x.at] /\ BoardsSomewhere(x.who)
          /\ \A k \in 1 .. x.at : x.who \notin board[k]}

(* "orphan alight with no board at all is also a configuration error; report  *)
(* it as alight_before_board": who gets out at a stop and boards nowhere is    *)
(* flagged there.                                                            *)
OrphansAreFlagged ==
  \A v \in People, k \in 1 .. i - 1 :
    v \in alight[k] /\ ~BoardsSomewhere(v) => [who |-> v, at |-> k] \in early

(* "Two identical situations -> same ID; small diff -> different ID": a       *)
(* mission, or a ride of another trip, clashes with at most one ride of this *)
(* one, or two warnings would share an id, the primary key of the table.     *)
WarningIdsDiffer ==
  Walked => \A v \in People, s, e \in Stops :
    s < e => Cardinality(ClashingRides(v, s, e)) <= 1
===============================================================================
