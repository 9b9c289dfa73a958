---------------------------- MODULE TripWalkProofs ----------------------------
(***************************************************************************)
(* The walk along a trip collects exactly its rides and flags exactly the   *)
(* overfull legs, for any number of stops, riders and seats.                *)
(***************************************************************************)
EXTENDS TripWalk, TLAPS

USE LastAssumption, SeatsAssumption

(* What the walk knows of v after the stops up to k: from where its open     *)
(* ride runs, or that it is not on board.                                   *)
OpenRide(v, f, k) ==
  /\ f = 0 => ~Aboard(v, k)
  /\ f # 0 => /\ f <= k
              /\ v \in board[f]
              /\ ~Aboard(v, f - 1)
              /\ \A j \in f .. k : v \notin alight[j]

WalkInv ==
  /\ TypeOK
  /\ \A v \in People : OpenRide(v, boarded[v], i - 1)
  /\ RidesAreExact
  /\ i <= Last => onboard = {v \in People : Aboard(v, i - 1)}
  /\ CapacityIsExact

-------------------------------------------------------------------------------
(* Being on board, one stop further.                                        *)
LEMMA AboardNext ==
  ASSUME TypeOK, NEW v \in People, NEW k \in Stops
  PROVE  Aboard(v, k) <=> v \notin alight[k] /\ (v \in board[k] \/ Aboard(v, k - 1))
<1>1. ASSUME Aboard(v, k)
      PROVE  v \notin alight[k] /\ (v \in board[k] \/ Aboard(v, k - 1))
  <2>1. PICK b \in 1 .. k : v \in board[b] /\ \A j \in b .. k : v \notin alight[j]
    BY <1>1 DEF Aboard
  <2>2. k \in b .. k BY DEF Stops
  <2>3. CASE b = k BY <2>1, <2>2, <2>3
  <2>4. CASE b # k
    <3>1. b \in 1 .. k - 1 BY <2>4 DEF Stops
    <3>2. \A j \in b .. k - 1 : j \in b .. k BY DEF Stops
    <3> QED BY <2>1, <2>2, <3>1, <3>2 DEF Aboard
  <2> QED BY <2>3, <2>4
<1>2. ASSUME v \notin alight[k], v \in board[k] PROVE Aboard(v, k)
  BY <1>2 DEF Aboard, Stops
<1>3. ASSUME v \notin alight[k], Aboard(v, k - 1) PROVE Aboard(v, k)
  <2>1. PICK b \in 1 .. k - 1 : /\ v \in board[b]
                                /\ \A j \in b .. k - 1 : v \notin alight[j]
    BY <1>3 DEF Aboard
  <2>2. \A j \in b .. k : j \in b .. k - 1 \/ j = k BY DEF Stops
  <2>3. b \in 1 .. k BY DEF Stops
  <2> QED BY <1>3, <2>1, <2>2, <2>3 DEF Aboard
<1> QED BY <1>1, <1>2, <1>3

(* An open ride shows that its rider is on board at every stop so far.       *)
LEMMA OpenIsAboard ==
  ASSUME TypeOK, NEW v \in People, NEW f \in Stops, NEW m \in Stops, f <= m,
         v \in board[f], \A j \in f .. m : v \notin alight[j]
  PROVE  Aboard(v, m)
BY DEF Aboard, Stops

(* The board of stop k opens a ride when none is open.                      *)
LEMMA OpenAtStop ==
  ASSUME WalkInv, i <= Last, NEW v \in People
  PROVE  /\ Opened(v) \in 0 .. i
         /\ Opened(v) = 0 => ~Aboard(v, i - 1) /\ v \notin board[i]
         /\ Opened(v) # 0 => /\ v \in board[Opened(v)]
                             /\ ~Aboard(v, Opened(v) - 1)
                             /\ \A j \in Opened(v) .. i - 1 : v \notin alight[j]
<1>1. boarded[v] \in 0 .. Last /\ i \in Stops /\ OpenRide(v, boarded[v], i - 1)
  BY DEF WalkInv, TypeOK, Stops
<1>2. CASE boarded[v] = 0 BY <1>1, <1>2 DEF Opened, OpenRide, Stops
<1>3. CASE boarded[v] # 0 BY <1>1, <1>3 DEF Opened, OpenRide, Stops
<1> QED BY <1>2, <1>3

(* The ride that ends at a stop is the one that is open there.              *)
LEMMA EndingRide ==
  ASSUME WalkInv, i <= Last, NEW x \in Ride, x.to = i
  PROVE  IsRide(x) <=> x.who \in Ending /\ x.from = Opened(x.who)
<1> DEFINE v == x.who
           f == Opened(v)
<1>1. /\ v \in People /\ x.from \in Stops /\ i \in Stops /\ TypeOK
      /\ f \in 0 .. i
  BY OpenAtStop DEF Ride, WalkInv, TypeOK, Stops
<1>2. ASSUME v \in Ending, x.from = f PROVE IsRide(x)
  BY <1>1, <1>2, OpenAtStop DEF IsRide, Ending, Stops
<1>3. ASSUME IsRide(x) PROVE v \in Ending /\ x.from = f
  <2>1. /\ x.from <= i /\ v \in board[x.from] /\ ~Aboard(v, x.from - 1)
        /\ v \in alight[i]
        /\ \A j \in x.from .. i - 1 : v \notin alight[j]
    BY <1>3 DEF IsRide
  <2>2. x.from < i => Aboard(v, i - 1)
    <3> SUFFICES ASSUME x.from < i PROVE Aboard(v, i - 1)
      OBVIOUS
    <3>1. i - 1 \in Stops /\ x.from <= i - 1 BY <1>1 DEF Stops
    <3> QED BY <1>1, <2>1, <3>1, OpenIsAboard
  <2>3. CASE f = 0
    <3>1. ~Aboard(v, i - 1) /\ v \notin board[i] BY <1>1, <2>3, OpenAtStop
    <3>2. x.from = i BY <1>1, <2>1, <2>2, <3>1 DEF Stops
    <3> QED BY <2>1, <3>1, <3>2
  <2>4. CASE f # 0
    <3>1. /\ f \in Stops /\ v \in board[f] /\ ~Aboard(v, f - 1)
          /\ \A j \in f .. i - 1 : v \notin alight[j]
      BY <1>1, <2>4, OpenAtStop DEF Stops
    <3>2. ~(x.from < f)
      <4> SUFFICES ASSUME x.from < f PROVE FALSE OBVIOUS
      <4>1. f - 1 \in Stops /\ x.from <= f - 1 BY <1>1, <3>1 DEF Stops
      <4>2. \A j \in x.from .. f - 1 : v \notin alight[j]
        BY <1>1, <2>1, <3>1 DEF Stops
      <4>3. Aboard(v, f - 1) BY <1>1, <2>1, <4>1, <4>2, OpenIsAboard
      <4> QED BY <3>1, <4>3
    <3>3. ~(f < x.from)
      <4> SUFFICES ASSUME f < x.from PROVE FALSE OBVIOUS
      <4>1. x.from - 1 \in Stops /\ f <= x.from - 1 BY <1>1, <3>1 DEF Stops
      <4>2. \A j \in f .. x.from - 1 : v \notin alight[j]
        BY <1>1, <2>1, <3>1 DEF Stops
      <4>3. Aboard(v, x.from - 1) BY <1>1, <3>1, <4>1, <4>2, OpenIsAboard
      <4> QED BY <2>1, <4>3
    <3>4. x.from = f BY <1>1, <3>2, <3>3 DEF Stops
    <3> QED BY <2>1, <2>4, <3>4 DEF Ending
  <2> QED BY <2>3, <2>4
<1> QED BY <1>2, <1>3

-------------------------------------------------------------------------------
(* The trip does not change while it is walked, so neither does its meaning.  *)
LEMMA TripKept ==
  ASSUME UNCHANGED trip
  PROVE  /\ \A v, k : Aboard(v, k)' <=> Aboard(v, k)
         /\ \A x : IsRide(x)' <=> IsRide(x)
<1>1. \A v, k : Aboard(v, k)' <=> Aboard(v, k) BY DEF Aboard, trip
<1>2. \A x : IsRide(x)' <=> IsRide(x) BY <1>1 DEF IsRide, trip
<1> QED BY <1>1, <1>2

LEMMA WalkStart == Init => WalkInv
<1> SUFFICES ASSUME Init PROVE WalkInv OBVIOUS
<1>1. TypeOK BY DEF Init, TypeOK, Ride, Stops
<1>2. \A v : ~Aboard(v, 0) BY DEF Aboard
<1>3. \A v \in People : OpenRide(v, boarded[v], i - 1)
  BY <1>2 DEF Init, OpenRide
<1>4. RidesAreExact BY DEF Init, RidesAreExact, Ride, Stops
<1>5. onboard = {v \in People : Aboard(v, i - 1)} BY <1>2 DEF Init
<1>6. CapacityIsExact BY DEF Init, CapacityIsExact, Stops
<1> QED BY <1>1, <1>3, <1>4, <1>5, <1>6 DEF WalkInv

LEMMA StepTypes ==
  ASSUME WalkInv, WalkStop
  PROVE  TypeOK'
<1>1. TypeOK /\ i \in Stops /\ i <= Last
  BY DEF WalkInv, TypeOK, WalkStop, Stops
<1>2. \A v \in People : Opened(v) \in 0 .. i BY <1>1, OpenAtStop
<1>3. \A v \in People : (IF v \in alight[i] THEN 0 ELSE Opened(v)) \in 0 .. Last
  BY <1>1, <1>2 DEF Stops
<1>4. boarded' \in [People -> 0 .. Last]
  BY <1>3 DEF WalkStop, WalkRides
<1>5. Ending \subseteq People BY <1>1 DEF Ending, TypeOK
<1>6. \A v \in Ending : [who |-> v, from |-> Opened(v), to |-> i] \in Ride
  <2> SUFFICES ASSUME NEW v \in Ending
               PROVE  [who |-> v, from |-> Opened(v), to |-> i] \in Ride
    OBVIOUS
  <2>1. v \in People /\ Opened(v) \in Stops
    BY <1>1, <1>2, <1>5 DEF Ending, Stops
  <2> QED BY <1>1, <2>1 DEF Ride
<1>7. rides' \subseteq Ride BY <1>1, <1>6 DEF WalkStop, WalkRides, TypeOK
<1>8. alightedSomewhere' \subseteq People
  BY <1>1, <1>5 DEF WalkStop, WalkRides, TypeOK
<1>9. early' \subseteq [who : People, at : Stops]
  BY <1>1 DEF WalkStop, WalkRides, TypeOK
<1>10. onboard' \subseteq People /\ exceeded' \subseteq Stops
  <2>1. board[i] \subseteq People BY <1>1 DEF TypeOK
  <2>2. \/ onboard' = onboard
        \/ onboard' = (onboard \cup board[i]) \ alight[i]
    BY DEF WalkStop, WalkCapacity
  <2>3. exceeded' = exceeded \/ exceeded' = exceeded \cup {i}
    BY DEF WalkStop, WalkCapacity
  <2> QED BY <1>1, <2>1, <2>2, <2>3 DEF TypeOK
<1>11. board' = board /\ alight' = alight /\ i' \in 1 .. Last + 1
  BY <1>1 DEF WalkStop, trip, Stops
<1> QED
  BY <1>1, <1>4, <1>7, <1>8, <1>9, <1>10, <1>11 DEF TypeOK

LEMMA StepOpenRides ==
  ASSUME WalkInv, WalkStop
  PROVE  \A v \in People : OpenRide(v, boarded[v], i - 1)'
<1> SUFFICES ASSUME NEW v \in People PROVE OpenRide(v, boarded[v], i - 1)'
  OBVIOUS
<1>1. TypeOK /\ i \in Stops /\ i <= Last /\ i' - 1 = i
  BY DEF WalkInv, TypeOK, WalkStop, Stops
<1>2. boarded'[v] = IF v \in alight[i] THEN 0 ELSE Opened(v)
  BY DEF WalkStop, WalkRides
<1>3. Aboard(v, i) <=> v \notin alight[i] /\ (v \in board[i] \/ Aboard(v, i - 1))
  BY <1>1, AboardNext
<1>4. OpenRide(v, boarded'[v], i)
  <2>1. CASE v \in alight[i] BY <1>2, <1>3, <2>1 DEF OpenRide
  <2>2. CASE v \notin alight[i]
    <3>1. CASE Opened(v) = 0
      BY <1>1, <1>2, <1>3, <2>2, <3>1, OpenAtStop DEF OpenRide
    <3>2. CASE Opened(v) # 0
      <4>1. /\ Opened(v) \in 0 .. i /\ v \in board[Opened(v)]
            /\ ~Aboard(v, Opened(v) - 1)
            /\ \A j \in Opened(v) .. i - 1 : v \notin alight[j]
        BY <1>1, <3>2, OpenAtStop
      <4>2. \A j \in Opened(v) .. i : j \in Opened(v) .. i - 1 \/ j = i
        BY <1>1, <4>1 DEF Stops
      <4> QED BY <1>1, <1>2, <2>2, <3>2, <4>1, <4>2 DEF OpenRide, Stops
    <3> QED BY <3>1, <3>2
  <2> QED BY <2>1, <2>2
<1>5. UNCHANGED trip BY DEF WalkStop
<1> QED BY <1>1, <1>4, <1>5, TripKept DEF OpenRide, trip

LEMMA StepRides ==
  ASSUME WalkInv, WalkStop
  PROVE  RidesAreExact'
<1>1. TypeOK /\ i \in Stops /\ i <= Last /\ i' = i + 1 /\ UNCHANGED trip
  BY DEF WalkInv, TypeOK, WalkStop, Stops
<1> DEFINE Ended == {[who |-> v, from |-> Opened(v), to |-> i] : v \in Ending}
<1>2. rides = {x \in Ride : x.to < i /\ IsRide(x)} /\ rides' = rides \cup Ended
  BY DEF WalkInv, RidesAreExact, WalkStop, WalkRides
<1>3. Ended = {x \in Ride : x.to = i /\ IsRide(x)}
  <2>1. ASSUME NEW x \in Ended PROVE x \in Ride /\ x.to = i /\ IsRide(x)
    <3>1. PICK v \in Ending : x = [who |-> v, from |-> Opened(v), to |-> i]
      OBVIOUS
    <3>2. v \in People /\ Opened(v) \in Stops
      BY <1>1, OpenAtStop DEF Ending, TypeOK, Stops
    <3>3. x \in Ride /\ x.to = i /\ x.who = v /\ x.from = Opened(v)
      BY <1>1, <3>1, <3>2 DEF Ride
    <3> QED BY <1>1, <3>3, EndingRide
  <2>2. ASSUME NEW x \in Ride, x.to = i, IsRide(x) PROVE x \in Ended
    <3>1. x.who \in Ending /\ x.from = Opened(x.who) BY <1>1, <2>2, EndingRide
    <3>2. x = [who |-> x.who, from |-> x.from, to |-> x.to] BY DEF Ride
    <3> QED BY <2>2, <3>1, <3>2
  <2> QED BY <2>1, <2>2
<1>4. \A x \in Ride : x.to < i + 1 <=> x.to < i \/ x.to = i
  BY <1>1 DEF Ride, Stops
<1>5. rides' = {x \in Ride : x.to < i + 1 /\ IsRide(x)}
  BY <1>2, <1>3, <1>4
<1>6. \A x : IsRide(x)' <=> IsRide(x) BY <1>1, TripKept
<1> QED BY <1>1, <1>5, <1>6 DEF RidesAreExact, Ride

LEMMA StepOnboard ==
  ASSUME WalkInv, WalkStop, i < Last
  PROVE  onboard' = {v \in People : Aboard(v, i)}
<1>1. /\ TypeOK /\ i \in Stops
      /\ onboard = {v \in People : Aboard(v, i - 1)}
      /\ onboard' = (onboard \cup board[i]) \ alight[i]
  BY DEF WalkInv, TypeOK, WalkStop, WalkCapacity, Stops
<1>2. \A v \in People :
        Aboard(v, i) <=> v \notin alight[i] /\ (v \in board[i] \/ Aboard(v, i - 1))
  BY <1>1, AboardNext
<1>3. board[i] \subseteq People BY <1>1 DEF TypeOK
<1> QED BY <1>1, <1>2, <1>3

LEMMA StepCapacity ==
  ASSUME WalkInv, WalkStop
  PROVE  CapacityIsExact'
<1> DEFINE Load(k) == Cardinality({v \in People : Aboard(v, k)})
<1>1. /\ TypeOK /\ i \in Stops /\ i' = i + 1 /\ UNCHANGED trip
      /\ exceeded = {k \in Stops : k < i /\ k < Last /\ Load(k) > Seats}
  BY DEF WalkInv, TypeOK, WalkStop, CapacityIsExact, Stops
<1>2. exceeded' = {k \in Stops : k < i + 1 /\ k < Last /\ Load(k) > Seats}
  <2>1. CASE i < Last
    <3>1. exceeded' = IF Load(i) > Seats THEN exceeded \cup {i} ELSE exceeded
      BY <2>1, StepOnboard DEF WalkStop, WalkCapacity
    <3> HIDE DEF Load
    <3>2. \A k \in Stops : k < i + 1 <=> k < i \/ k = i BY <1>1 DEF Stops
    <3>3. CASE Load(i) > Seats BY <1>1, <2>1, <3>1, <3>2, <3>3
    <3>4. CASE ~(Load(i) > Seats) BY <1>1, <2>1, <3>1, <3>2, <3>4
    <3> QED BY <3>3, <3>4
  <2>2. CASE ~(i < Last)
    <3>1. exceeded' = exceeded BY <2>2 DEF WalkStop, WalkCapacity
    <3> HIDE DEF Load
    <3>2. \A k \in Stops : k < i + 1 /\ k < Last <=> k < i /\ k < Last
      BY <1>1, <2>2 DEF Stops
    <3> QED BY <1>1, <3>1, <3>2
  <2> QED BY <2>1, <2>2
<1>3. \A k : {v \in People : Aboard(v, k)}' = {v \in People : Aboard(v, k)}
  BY <1>1, TripKept
<1>4. \A k : Load(k)' = Load(k) BY <1>3
<1> QED BY <1>1, <1>2, <1>4 DEF CapacityIsExact, Stops

LEMMA WalkStep ==
  ASSUME WalkInv, [WalkStop]_vars
  PROVE  WalkInv'
<1>1. CASE UNCHANGED vars
  <2>1. UNCHANGED trip BY <1>1 DEF vars
  <2>2. TypeOK' BY <1>1 DEF WalkInv, TypeOK, vars, trip
  <2>3. (\A v \in People : OpenRide(v, boarded[v], i - 1))'
    BY <1>1, <2>1, TripKept DEF WalkInv, OpenRide, vars, trip
  <2>4. RidesAreExact' BY <1>1, <2>1, TripKept DEF WalkInv, RidesAreExact, vars
  <2>5. (i <= Last => onboard = {v \in People : Aboard(v, i - 1)})'
    BY <1>1, <2>1, TripKept DEF WalkInv, vars
  <2>6. \A k : {v \in People : Aboard(v, k)}' = {v \in People : Aboard(v, k)}
    BY <2>1, TripKept
  <2>7. CapacityIsExact' BY <1>1, <2>6 DEF WalkInv, CapacityIsExact, vars
  <2> QED BY <2>2, <2>3, <2>4, <2>5, <2>7 DEF WalkInv
<1>2. CASE WalkStop
  <2>1. i' - 1 = i /\ UNCHANGED trip /\ (i' <= Last => i < Last)
    BY <1>2 DEF WalkInv, TypeOK, WalkStop, Stops
  <2>2. (i <= Last => onboard = {v \in People : Aboard(v, i - 1)})'
    BY <1>2, <2>1, StepOnboard, TripKept
  <2> QED BY <1>2, <2>2, StepTypes, StepOpenRides, StepRides, StepCapacity
          DEF WalkInv
<1> QED BY <1>1, <1>2

THEOREM WalkCorrect == Spec => []WalkInv
<1>1. WalkInv /\ [WalkStop]_vars => WalkInv' BY WalkStep
<1> QED BY <1>1, WalkStart, PTL DEF Spec

(* The walk keeps its types.                                                *)
THEOREM WalkTypes == Spec => []TypeOK
BY WalkCorrect, PTL DEF WalkInv

(* The rides passengerDoubleBook, stranded and insufficientTravel rest on    *)
(* are exactly those of the trip, however often its riders get in and out.  *)
THEOREM RidesCorrect == Spec => []RidesAreExact
BY WalkCorrect, PTL DEF WalkInv

(* capacityExceeded flags a leg exactly when more people ride it than the    *)
(* car has seats.                                                           *)
THEOREM CapacityCorrect == Spec => []CapacityIsExact
BY WalkCorrect, PTL DEF WalkInv

-------------------------------------------------------------------------------
(* What the two alarms remember: who has ended a ride, and the alights at    *)
(* which no board had been seen yet.                                         *)
EndedARide == alightedSomewhere = {v \in People : \E x \in rides : x.who = v}
EarlyAt(x) ==
  /\ x.who \in alight[x.at]
  /\ \A k \in 1 .. x.at : x.who \notin board[k]
  /\ \E k \in x.at + 1 .. Last : x.who \in board[k]
EarlyIsExact == early = {x \in [who : People, at : Stops] : x.at < i /\ EarlyAt(x)}

LEMMA StepEnded == ASSUME WalkInv, EndedARide, WalkStop PROVE EndedARide'
<1>1. /\ rides' = rides \cup {[who |-> v, from |-> Opened(v), to |-> i] : v \in Ending}
      /\ alightedSomewhere' = alightedSomewhere \cup Ending
  BY DEF WalkStop, WalkRides
<1>2. Ending \subseteq People
  BY DEF WalkInv, TypeOK, WalkStop, Ending, Stops
<1>3. ASSUME NEW v \in People
      PROVE  (\E x \in rides' : x.who = v) <=> v \in Ending \/ \E x \in rides : x.who = v
  <2>1. ASSUME v \in Ending PROVE \E x \in rides' : x.who = v
    <3> DEFINE x == [who |-> v, from |-> Opened(v), to |-> i]
    <3>1. x \in rides' /\ x.who = v BY <1>1, <2>1
    <3> QED BY <3>1
  <2>2. ASSUME NEW x \in rides', x.who = v, x \notin rides PROVE v \in Ending
    <3>1. PICK u \in Ending : x = [who |-> u, from |-> Opened(u), to |-> i]
      BY <1>1, <2>2
    <3> QED BY <2>2, <3>1
  <2> QED BY <1>1, <2>1, <2>2
<1> QED BY <1>1, <1>2, <1>3 DEF EndedARide

(* At a stop, who alights without an open ride and boards at a later stop    *)
(* only is who has not boarded yet.                                          *)
LEMMA EarlyHere ==
  ASSUME WalkInv, WalkStop, NEW v \in alight[i]
  PROVE  v \notin Ending /\ BoardsLater(v) <=> EarlyAt([who |-> v, at |-> i])
<1>1. i \in Stops /\ v \in People /\ i <= Last
  BY DEF WalkInv, TypeOK, WalkStop, Stops
<1>2. Opened(v) \in 0 .. i /\ (Opened(v) # 0 => v \in board[Opened(v)])
  BY <1>1, OpenAtStop
<1>3. BoardsLater(v) => v \notin Ending
  BY <1>2 DEF BoardsLater, Ending
<1>4. BoardsLater(v) <=> /\ \A k \in 1 .. i : v \notin board[k]
                        /\ \E k \in i + 1 .. Last : v \in board[k]
  BY <1>1 DEF BoardsLater, Stops
<1> QED BY <1>3, <1>4 DEF EarlyAt

LEMMA StepEarly == ASSUME WalkInv, EarlyIsExact, WalkStop PROVE EarlyIsExact'
<1> DEFINE Alarm == [who : People, at : Stops]
           New == {[who |-> v, at |-> i] : v \in {u \in alight[i] \ Ending : BoardsLater(u)}}
<1>1. /\ i \in Stops /\ i' = i + 1 /\ board' = board /\ alight' = alight
      /\ alight[i] \subseteq People /\ early' = early \cup New
  BY DEF WalkInv, TypeOK, WalkStop, WalkRides, trip, Stops
<1>2. New \subseteq {x \in Alarm : x.at = i /\ EarlyAt(x)}
  <2> SUFFICES ASSUME NEW v \in alight[i] \ Ending, BoardsLater(v)
               PROVE  [who |-> v, at |-> i] \in Alarm /\ EarlyAt([who |-> v, at |-> i])
    OBVIOUS
  <2> QED BY <1>1, EarlyHere
<1>3. {x \in Alarm : x.at = i /\ EarlyAt(x)} \subseteq New
  <2> SUFFICES ASSUME NEW x \in Alarm, x.at = i, EarlyAt(x) PROVE x \in New
    OBVIOUS
  <2>1. x = [who |-> x.who, at |-> i] /\ x.who \in alight[i] BY DEF EarlyAt
  <2> QED BY <2>1, EarlyHere
<1>4. \A x \in Alarm : x.at < i + 1 <=> x.at < i \/ x.at = i
  BY <1>1 DEF Stops
<1>5. early' = {x \in Alarm : x.at < i + 1 /\ EarlyAt(x)}
  BY <1>1, <1>2, <1>3, <1>4 DEF EarlyIsExact
<1>6. \A x : EarlyAt(x)' <=> EarlyAt(x)
  BY <1>1 DEF EarlyAt
<1> QED BY <1>1, <1>5, <1>6 DEF EarlyIsExact, Stops

LEMMA AlarmsFollow == WalkInv /\ EndedARide /\ EarlyIsExact => AlarmsAreExact
<1> SUFFICES ASSUME WalkInv, EndedARide, EarlyIsExact PROVE AlarmsAreExact
  OBVIOUS
<1>1. ASSUME Walked, NEW v \in People
      PROVE  v \in LeftAboard <=> Aboard(v, Last) /\ \A x \in Ride : IsRide(x) => x.who # v
  <2>1. i - 1 = Last /\ \A x \in Ride : x.to < i
    BY <1>1, LastAssumption DEF Walked, Ride, Stops
  <2>2. OpenRide(v, boarded[v], Last) /\ boarded[v] \in 0 .. Last
    BY <2>1 DEF WalkInv, TypeOK
  <2>3. boarded[v] # 0 <=> Aboard(v, Last)
    BY <2>2 DEF OpenRide, Aboard
  <2>4. v \in alightedSomewhere <=> \E x \in Ride : IsRide(x) /\ x.who = v
    BY <2>1 DEF WalkInv, RidesAreExact, EndedARide
  <2> QED BY <2>3, <2>4 DEF LeftAboard
<1>2. Walked => LeftAboard = {v \in People : /\ Aboard(v, Last)
                                           /\ \A x \in Ride : IsRide(x) => x.who # v}
  BY <1>1 DEF LeftAboard
<1>3. early = {x \in [who : People, at : Stops] : x.at < i /\ EarlyAt(x)}
  BY DEF EarlyIsExact
<1>4. ASSUME NEW x \in [who : People, at : Stops]
      PROVE  BoardsSomewhere(x.who) /\ (\A k \in 1 .. x.at : x.who \notin board[k])
               <=> /\ \A k \in 1 .. x.at : x.who \notin board[k]
                   /\ \E k \in x.at + 1 .. Last : x.who \in board[k]
  <2>1. x.at \in 1 .. Last /\ Last \in Nat
    BY LastAssumption DEF Stops
  <2>2. \A k \in Stops : k \in 1 .. x.at \/ k \in x.at + 1 .. Last
    BY <2>1 DEF Stops
  <2>3. \A k \in x.at + 1 .. Last : k \in Stops
    BY <2>1 DEF Stops
  <2> QED BY <2>2, <2>3 DEF BoardsSomewhere
<1>5. {x \in early : BoardsSomewhere(x.who)} =
        {x \in [who : People, at : Stops] :
           /\ x.at < i /\ x.who \in alight[x.at] /\ BoardsSomewhere(x.who)
           /\ \A k \in 1 .. x.at : x.who \notin board[k]}
  BY <1>3, <1>4 DEF EarlyAt
<1> QED BY <1>2, <1>5 DEF AlarmsAreExact

(* boardAlightConsistency flags exactly the riders who never get off, and of *)
(* those who board somewhere on the trip exactly the alights that come before *)
(* every board.                                                              *)
THEOREM AlarmsCorrect == Spec => []AlarmsAreExact
<1>1. Init => EndedARide /\ EarlyIsExact
  BY DEF Init, EndedARide, EarlyIsExact, Stops
<1>2. WalkInv /\ EndedARide /\ EarlyIsExact /\ [WalkStop]_vars => EndedARide' /\ EarlyIsExact'
  <2>1. ASSUME EndedARide, EarlyIsExact, UNCHANGED vars PROVE EndedARide' /\ EarlyIsExact'
    BY <2>1 DEF vars, trip, EndedARide, EarlyIsExact, EarlyAt
  <2> QED BY <2>1, StepEnded, StepEarly
<1> QED BY <1>1, <1>2, WalkCorrect, AlarmsFollow, PTL DEF Spec
===============================================================================
