--------------------------- MODULE ChronologieProofs ---------------------------
(***************************************************************************)
(* What the timeline shows, for every set of plans, length of a day, arrow  *)
(* step and horizon: the cursor stays in its window (CursorInv, the only    *)
(* property that needs more than the types), runners are drawn between the  *)
(* timings around the cursor, riders where their car is, and the bars carry *)
(* the gravest warning about them.  The last three hold in every state of   *)
(* the right types: they are facts about the functions of Positions, each   *)
(* proved from what a sorted list is (ByTimeSorts).                         *)
(***************************************************************************)
EXTENDS Chronologie, Induction, SequenceTheorems

(* What the proof needs of the types.                                       *)
CursorType ==
  /\ data \in Ranges /\ window \in Nat /\ cursor \in Int
  /\ due \subseteq {"start", "window"}
  /\ mounted \in BOOLEAN /\ drifted \in BOOLEAN

(* The start effect guards the near end of the window, the window effect    *)
(* the far end: each bound holds whenever its effect has nothing left to do. *)
NearEnd == mounted /\ "start" \notin due /\ Bounds.from > 0 => cursor >= Bounds.from
FarEnd == mounted /\ "window" \notin due /\ ~drifted /\ data.from > 0
            => cursor <= Bounds.to
CursorInv == CursorType /\ NearEnd /\ FarEnd

(* Any day of any range is a range of its own, not before the data.         *)
LEMMA WindowBounds ==
  ASSUME CursorType
  PROVE  /\ Bounds.from \in Nat /\ Bounds.to \in Int
         /\ data.from \in Nat /\ data.from <= Bounds.from
         /\ Bounds.from <= Bounds.to
<1>1. /\ data.from \in Nat /\ data.to \in Nat /\ data.from <= data.to
      /\ Day \in Nat \ {0} /\ window \in Nat
  BY CursorAssumption DEF CursorType
<1>2. CASE window = 0
  BY <1>1, <1>2 DEF Bounds
<1>3. CASE window # 0
  <2> DEFINE skipped == (window - 1) * Day
  <2>1. skipped \in Nat /\ window * Day = skipped + Day
    BY <1>1, <1>3
  <2>2. Bounds = [from |-> data.from + skipped, to |-> data.from + window * Day - 1]
    BY <1>3 DEF Bounds
  <2> HIDE DEF skipped
  <2>3. QED
    BY <1>1, <2>1, <2>2
<1>4. QED
  BY <1>2, <1>3

(* The page opens on the first day with no effect due.                      *)
LEMMA CursorInitially == Init => CursorInv
<1> SUFFICES ASSUME Init PROVE CursorInv
  OBVIOUS
<1>1. data \in Ranges
  BY PlansAssumption DEF Init, View
<1>2. window = 0 /\ cursor = 0 /\ due = {} /\ ~mounted /\ mounted \in BOOLEAN
  BY DEF Init, CursorInit
<1>3. drifted \in BOOLEAN
  BY DEF Init, CursorInit
<1>4. QED
  BY <1>1, <1>2, <1>3 DEF CursorInv, CursorType, NearEnd, FarEnd

(* Where a step leaves the cursor and the window effect tells whether the   *)
(* ends still hold: the facts the handlers share.                           *)
LEMMA HandlersKeepInv ==
  ASSUME CursorInv,
         \/ ArrowLeft \/ ArrowRight \/ Tick
         \/ \E t \in Bounds.from .. Bounds.to : Seek(t)
  PROVE  CursorInv'
<1> USE DEF CursorInv
<1>1. /\ Bounds.from \in Nat /\ Bounds.to \in Int /\ data.from \in Nat
      /\ Bounds.from <= Bounds.to
  BY WindowBounds
<1>2. data' = data /\ window' = window /\ mounted' = mounted /\ mounted
  BY DEF ArrowLeft, ArrowRight, Tick, Seek
<1>3. Bounds' = Bounds
  BY <1>2 DEF Bounds
<1>4. /\ due' \subseteq {"start", "window"}
      /\ cursor' # cursor => "start" \in due'
      /\ "start" \in due => "start" \in due'
      /\ "window" \in due => "window" \in due'
  BY <1>2, <1>3 DEF ArrowLeft, ArrowRight, Tick, Seek, Schedule, CursorType
<1>5. CASE ArrowLeft
  <2>1. /\ cursor' \in Int /\ cursor' >= Bounds.from
        /\ cursor' <= cursor \/ cursor' = Bounds.from
        /\ drifted' = drifted
    BY <1>1, <1>5, CursorAssumption DEF ArrowLeft, CursorType
  <2>2. CursorType'
    BY <1>2, <1>4, <2>1 DEF CursorType
  <2>3. NearEnd'
    BY <1>3, <2>1 DEF NearEnd
  <2>4. FarEnd'
    BY <1>1, <1>2, <1>3, <1>4, <2>1 DEF FarEnd, CursorType
  <2>5. QED
    BY <2>2, <2>3, <2>4
<1>6. CASE ArrowRight \/ \E t \in Bounds.from .. Bounds.to : Seek(t)
  <2>1. cursor' \in Int /\ cursor' <= Bounds.to /\ drifted' = FALSE
    BY <1>1, <1>6, CursorAssumption DEF ArrowRight, Seek, Within, CursorType
  <2>2. CursorType'
    BY <1>2, <1>4, <2>1 DEF CursorType
  <2>3. NearEnd'
    BY <1>2, <1>3, <1>4 DEF NearEnd
  <2>4. FarEnd'
    BY <1>3, <2>1 DEF FarEnd
  <2>5. QED
    BY <2>2, <2>3, <2>4
<1>7. CASE Tick
  <2>1. cursor' \in Int /\ cursor' # cursor /\ drifted' = TRUE
    BY <1>7 DEF Tick, CursorType
  <2>2. QED
    BY <1>2, <1>3, <1>4, <2>1 DEF CursorType, NearEnd, FarEnd
<1>8. QED
  BY <1>5, <1>6, <1>7

(* The two effects together bring the cursor back inside.                   *)
LEMMA CommitKeepsInv == CursorInv /\ Commit => CursorInv'
<1> SUFFICES ASSUME CursorInv, Commit PROVE CursorInv'
  OBVIOUS
<1> USE DEF CursorInv
<1>1. /\ Bounds.from \in Nat /\ Bounds.to \in Int /\ data.from \in Nat
      /\ data.from <= Bounds.from /\ Bounds.from <= Bounds.to
  BY WindowBounds
<1>2. /\ data' = data /\ window' = window /\ mounted' = mounted
      /\ due' = IF cursor' # cursor THEN {"start"} ELSE {}
  BY DEF Commit
<1>3. Bounds' = Bounds
  BY <1>2 DEF Bounds
<1>4. CASE StartSeeks \/ WindowSeeks
  <2>1. cursor' = Bounds.from /\ drifted' = FALSE
    BY <1>4 DEF Commit
  <2>2. drifted' \in BOOLEAN
    BY <2>1
  <2>3. CursorType'
    BY <1>1, <1>2, <2>1, <2>2 DEF CursorType
  <2>4. cursor' >= Bounds'.from /\ cursor' <= Bounds'.to
    BY <1>1, <1>3, <2>1
  <2>5. QED
    BY <2>3, <2>4 DEF NearEnd, FarEnd
<1>5. CASE ~StartSeeks /\ ~WindowSeeks
  <2>1. cursor' = cursor /\ drifted' = drifted
    BY <1>5 DEF Commit
  <2>2. CursorType'
    BY <1>2, <2>1 DEF CursorType
  <2>3. NearEnd'
    BY <1>1, <1>2, <1>3, <1>5, <2>1 DEF NearEnd, StartSeeks, CursorType
  <2>4. FarEnd'
    BY <1>1, <1>2, <1>3, <1>5, <2>1 DEF FarEnd, WindowSeeks, Within, CursorType
  <2>5. QED
    BY <2>2, <2>3, <2>4
<1>6. QED
  BY <1>4, <1>5

(* Every step keeps both ends.                                              *)
LEMMA StepKeepsInv == CursorInv /\ [Next]_vars => CursorInv'
<1> SUFFICES ASSUME CursorInv, [Next]_vars PROVE CursorInv'
  OBVIOUS
<1> USE DEF CursorInv
<1>1. CASE Mount
  BY <1>1 DEF Mount, CursorType, NearEnd, FarEnd
<1>2. CASE Unmount
  BY <1>2 DEF Unmount, CursorType, NearEnd, FarEnd
<1>3. CASE Commit
  BY <1>3, CommitKeepsInv
<1>4. CASE Tick \/ ArrowLeft \/ ArrowRight
  BY <1>4, HandlersKeepInv
<1>5. CASE Toggle
  BY <1>5 DEF Toggle, CursorType, NearEnd, FarEnd, Bounds
<1>6. CASE \E w \in 0 .. TotalDays : SetWindow(w)
  <2>1. PICK w \in 0 .. TotalDays : SetWindow(w)
    BY <1>6
  <2>2. /\ w \in Nat /\ window' = w /\ "window" \in due'
        /\ due' \subseteq {"start", "window"}
        /\ "start" \notin due' => "start" \notin due /\ Bounds'.from = Bounds.from
        /\ cursor' = cursor /\ data' = data /\ mounted' = mounted /\ drifted' = drifted
    BY <2>1 DEF SetWindow, CursorType
  <2>3. QED
    BY <2>2 DEF CursorType, NearEnd, FarEnd
<1>7. CASE \E t \in Bounds.from .. Bounds.to : Seek(t)
  BY <1>7, HandlersKeepInv
<1>8. CASE Refetch
  <2>1. /\ data' \in Ranges /\ NewData(data')
    BY <1>8, PlansAssumption DEF Refetch, NewData, View
  <2>2. CASE mounted
    <3>1. /\ due' \subseteq {"start", "window"}
          /\ "window" \notin due' => data' = data /\ "window" \notin due
          /\ "start" \notin due' => "start" \notin due /\ Bounds'.from = Bounds.from
          /\ cursor' = cursor /\ window' = window
          /\ mounted' = mounted /\ drifted' = drifted
      BY <2>1, <2>2 DEF NewData, Schedule, CursorType
    <3>2. data' = data => Bounds' = Bounds
      BY <3>1 DEF Bounds
    <3>3. QED
      BY <2>1, <3>1, <3>2 DEF CursorType, NearEnd, FarEnd
  <2>3. CASE ~mounted
    BY <2>1, <2>3 DEF NewData, CursorType, NearEnd, FarEnd
  <2>4. QED
    BY <2>2, <2>3
<1>9. CASE UNCHANGED vars
  BY <1>9 DEF vars, controls, CursorType, NearEnd, FarEnd, Bounds
<1>10. QED
  BY <1>1, <1>2, <1>3, <1>4, <1>5, <1>6, <1>7, <1>8, <1>9 DEF Next, Control

(* TimelineControls' two effects are enough: once they have run, the cursor  *)
(* is inside the window, unless playing carried it past the end.            *)
THEOREM CursorStaysInWindow == Spec => []CursorInWindow
<1>1. CursorInv => CursorInWindow
  <2>1. ASSUME CursorInv PROVE CursorInWindow
    <3>1. Bounds.from \in Nat /\ data.from \in Nat /\ data.from <= Bounds.from
      BY <2>1, WindowBounds DEF CursorInv
    <3>2. QED
      BY <2>1, <3>1 DEF CursorInv, CursorType, NearEnd, FarEnd, CursorInWindow
  <2>2. QED
    BY <2>1
<1>2. QED
  BY <1>1, CursorInitially, StepKeepsInv, PTL DEF Spec

-------------------------------------------------------------------------------
(* A type-correct state has a window that begins at a natural number.       *)
LEMMA TypesGiveBounds == TypeOK => CursorType
BY CursorAssumption DEF TypeOK, CursorType

(* The page starts in a state of its types.                                 *)
LEMMA TypesInitially == Init => TypeOK
<1> SUFFICES ASSUME Init PROVE TypeOK
  OBVIOUS
<1>1. data \in Ranges /\ plan \in Plans /\ late \subseteq Late
  BY PlansAssumption DEF Init, View
<1>2. QED
  BY <1>1 DEF Init, CursorInit, TypeOK

(* The controls keep the types.                                             *)
LEMMA ControlKeepsTypes ==
  ASSUME TypeOK, Control
  PROVE  TypeOK'
<1>1. Bounds.from \in Nat /\ Bounds.to \in Int /\ Bounds.from <= Bounds.to
  BY TypesGiveBounds, WindowBounds
<1>2. Bounds.to \in Nat
  BY <1>1
<1>3. data' \in Ranges /\ plan' \in Plans /\ late' \subseteq Late
  BY DEF Control, page, TypeOK, Mount, Unmount, Commit, Tick, Toggle, ArrowLeft, ArrowRight,
         SetWindow, Seek
<1>4. window' \in Nat
  <2>1. CASE \E w \in 0 .. TotalDays : SetWindow(w)
    BY <2>1 DEF SetWindow
  <2>2. CASE window' = window
    BY <2>2 DEF TypeOK
  <2>3. QED
    BY <2>1, <2>2
    DEF Control, Mount, Unmount, Commit, Tick, Toggle, ArrowLeft, ArrowRight, Seek
<1>5. cursor' \in Nat
  <2>1. CASE Commit
    BY <1>1, <2>1 DEF Commit, TypeOK
  <2>2. CASE ArrowLeft \/ ArrowRight
    BY <1>1, <1>2, <2>2, CursorAssumption DEF ArrowLeft, ArrowRight, TypeOK
  <2>3. CASE Tick
    BY <2>3 DEF Tick, TypeOK
  <2>4. CASE \E t \in Bounds.from .. Bounds.to : Seek(t)
    BY <1>1, <2>4 DEF Seek, TypeOK
  <2>5. CASE cursor' = cursor
    BY <2>5 DEF TypeOK
  <2>6. QED
    BY <2>1, <2>2, <2>3, <2>4, <2>5 DEF Control, Mount, Unmount, Toggle, SetWindow
<1>6. auto' \in {NoSeek} \cup Nat
  BY <1>1
  DEF Control, TypeOK, Mount, Unmount, Commit, Tick, Toggle, ArrowLeft, ArrowRight, SetWindow, Seek
<1>7. due' \subseteq {"start", "window"}
  BY DEF Control, TypeOK, Schedule, Mount, Unmount, Commit, Tick, Toggle, ArrowLeft, ArrowRight,
         SetWindow, Seek
<1>8. playing' \in BOOLEAN /\ mounted' \in BOOLEAN /\ drifted' \in BOOLEAN
  BY DEF Control, TypeOK, Mount, Unmount, Commit, Tick, Toggle, ArrowLeft, ArrowRight, SetWindow, Seek
<1>9. QED
  BY <1>3, <1>4, <1>5, <1>6, <1>7, <1>8 DEF TypeOK

(* New data keeps the types: its range is one of the ranges.                *)
LEMMA RefetchKeepsTypes ==
  ASSUME TypeOK, Refetch
  PROVE  TypeOK'
<1>1. /\ plan' \in Plans /\ late' \subseteq Late /\ NewData(data')
      /\ data' \in Ranges
  BY PlansAssumption DEF Refetch, NewData, View
<1>2. due' \subseteq {"start", "window"}
  BY <1>1 DEF NewData, Schedule, TypeOK
<1>3. QED
  BY <1>1, <1>2 DEF NewData, TypeOK

(* The stores and refs of the page keep their types; no arrow key or effect *)
(* takes the cursor below zero.                                             *)
THEOREM ChronologieTypes == Spec => []TypeOK
<1>1. TypeOK /\ [Next]_vars => TypeOK'
  <2>1. ASSUME TypeOK, UNCHANGED vars PROVE TypeOK'
    BY <2>1 DEF vars, controls, page, TypeOK
  <2>2. QED
    BY <2>1, ControlKeepsTypes, RefetchKeepsTypes DEF Next
<1>2. QED
  BY <1>1, TypesInitially, PTL DEF Spec

(* ByTime is a sort of the elements kept: it lists each of them once, by    *)
(* time, and by rank where times are equal.                                 *)
Sorts(s, I, time) ==
  \E order \in [1..Cardinality(I) -> I] :
    /\ ByTime(s, time) = [k \in 1..Cardinality(I) |-> s[order[k]]]
    /\ \A i \in I : \E k \in 1..Cardinality(I) : order[k] = i
    /\ \A k, l \in 1..Cardinality(I) : k < l =>
         \/ time[order[k]] < time[order[l]]
         \/ time[order[k]] = time[order[l]] /\ order[k] < order[l]

(* The rank of an element, the number of those not after it, is a bijection *)
(* from the kept ones to 1..n, so that choosing an element by its rank      *)
(* lists them all.                                                          *)
LEMMA ByTimeSorts ==
  ASSUME NEW s, NEW I \in SUBSET Nat, IsFiniteSet(I), NEW time \in [I -> Int]
  PROVE  Sorts(s, I, time)
<1> DEFINE n == Cardinality(I)
           Upto(i) == {j \in I : time[j] < time[i] \/ (time[j] = time[i] /\ j <= i)}
           rank == [i \in I |-> Cardinality(Upto(i))]
           order == [k \in 1..n |-> CHOOSE i \in I : Cardinality(Upto(i)) = k]
<1>1. n \in Nat
  BY FS_CardinalityType
<1>2. \A i \in I : time[i] \in Int /\ i \in Int
  OBVIOUS
<1>3. ASSUME NEW i \in I PROVE IsFiniteSet(Upto(i)) /\ rank[i] \in 1..n
  <2>1. Upto(i) \in SUBSET I /\ i \in Upto(i)
    BY <1>2
  <2>2. IsFiniteSet(Upto(i)) /\ Cardinality(Upto(i)) <= n
    <3> HIDE DEF Upto
    <3> QED
      BY <2>1, FS_Subset
  <2>3. Cardinality(Upto(i)) \in Nat /\ Cardinality(Upto(i)) # 0
    <3> HIDE DEF Upto
    <3> QED
      BY <2>1, <2>2, FS_CardinalityType, FS_EmptySet
  <2> HIDE DEF Upto, n
  <2> QED
    BY <1>1, <2>2, <2>3
<1>4. ASSUME NEW i \in I, NEW j \in I, time[i] < time[j] \/ (time[i] = time[j] /\ i < j)
      PROVE  rank[i] < rank[j]
  <2>1. Upto(i) \in SUBSET Upto(j) /\ j \in Upto(j) /\ j \notin Upto(i)
    <3>1. ASSUME NEW k \in I, k \in Upto(i) PROVE k \in Upto(j)
      <4>1. k \in Int /\ i \in Int /\ j \in Int /\ time[i] \in Int /\ time[j] \in Int /\ time[k] \in Int
        BY <1>2
      <4> QED
        BY <1>4, <3>1, <4>1
    <3>2. j \in Upto(j) /\ j \notin Upto(i)
      BY <1>2, <1>4
    <3> QED
      BY <3>1, <3>2
  <2>2. Cardinality(Upto(i)) <= Cardinality(Upto(j)) /\ Cardinality(Upto(i)) # Cardinality(Upto(j))
    <3> HIDE DEF Upto
    <3> QED
      BY <1>3, <2>1, FS_Subset
  <2>3. rank[i] \in Int /\ rank[j] \in Int /\ rank[i] = Cardinality(Upto(i)) /\ rank[j] = Cardinality(Upto(j))
    BY <1>3
  <2> HIDE DEF Upto, rank
  <2> QED
    BY <2>2, <2>3
<1>5. \A i, j \in I : i = j \/ (time[i] < time[j] \/ (time[i] = time[j] /\ i < j))
                            \/ (time[j] < time[i] \/ (time[j] = time[i] /\ j < i))
  BY <1>2
<1>6. rank \in Injection(I, 1..n)
  <2>1. \A i, j \in I : rank[i] = rank[j] => i = j
    <3>1. \A i \in I : rank[i] \in Int
      BY <1>3
    <3> HIDE DEF rank
    <3> QED
      BY <1>4, <1>5, <3>1
  <2>2. rank \in [I -> 1..n]
    BY <1>3
  <2> HIDE DEF rank
  <2> QED
    BY <2>1, <2>2 DEF Injection, IsInjective
<1>7. \A k \in 1..n : \E i \in I : rank[i] = k
  <2>1. IsFiniteSet(1..n) /\ Cardinality(1..n) = n
    BY <1>1, FS_Interval
  <2> HIDE DEF rank
  <2>2. rank \in Surjection(I, 1..n)
    BY <1>6, <2>1, FS_Injection
  <2> QED
    BY <2>2 DEF Surjection
<1>8. \A k \in 1..n : order[k] \in I /\ rank[order[k]] = k
  <2>1. ASSUME NEW k \in 1..n PROVE \E i \in I : Cardinality(Upto(i)) = k
    BY <1>7
  <2> HIDE DEF Upto
  <2> QED
    BY <2>1
<1>9. order \in [1..n -> I]
  BY <1>8
<1>10. ByTime(s, time) = [k \in 1..n |-> s[order[k]]]
  <2>1. DOMAIN time = I
    OBVIOUS
  <2> QED
    BY <2>1 DEF ByTime
<1>11. \A i \in I : \E k \in 1..n : order[k] = i
  <2> SUFFICES ASSUME NEW i \in I PROVE order[rank[i]] = i /\ rank[i] \in 1..n
    OBVIOUS
  <2> HIDE DEF rank, order
  <2> QED
    BY <1>3, <1>6, <1>8 DEF Injection, IsInjective
<1>12. \A k, l \in 1..n : k < l =>
         \/ time[order[k]] < time[order[l]]
         \/ time[order[k]] = time[order[l]] /\ order[k] < order[l]
  <2> SUFFICES ASSUME NEW k \in 1..n, NEW l \in 1..n, k < l
               PROVE  \/ time[order[k]] < time[order[l]]
                      \/ time[order[k]] = time[order[l]] /\ order[k] < order[l]
    OBVIOUS
  <2> HIDE DEF rank, order
  <2>1. /\ order[k] \in I /\ order[l] \in I /\ rank[order[k]] = k /\ rank[order[l]] = l
        /\ k \in Int /\ l \in Int
    BY <1>1, <1>8
  <2>2. order[k] # order[l] /\ ~(rank[order[l]] < rank[order[k]])
    BY <2>1
  <2> QED
    BY <1>4, <1>5, <2>1, <2>2
<1> HIDE DEF n, order
<1> QED
  BY <1>9, <1>10, <1>11, <1>12 DEF n, Sorts

InTime(r) == \A k, l \in DOMAIN r : k <= l => r[k].time <= r[l].time

(* A list by time: what was kept of it, and no time before an earlier one's. *)
LEMMA SortedList ==
  ASSUME NEW S, NEW s \in Seq(S), NEW I \in SUBSET DOMAIN s, \A i \in I : s[i].time \in Int,
         NEW r, r = ByTime(s, [i \in I |-> s[i].time])
  PROVE  /\ r \in Seq(S) /\ InTime(r)
         /\ ToSet(r) = {s[i] : i \in I}
<1> DEFINE n == Cardinality(I)
           time == [i \in I |-> s[i].time]
<1>1. DOMAIN s = 1..Len(s) /\ Len(s) \in Nat /\ \A i \in DOMAIN s : s[i] \in S
  BY LenProperties
<1>2. I \in SUBSET Nat /\ IsFiniteSet(I)
  <2>1. IsFiniteSet(DOMAIN s)
    BY <1>1, FS_Interval
  <2> QED
    BY <1>1, <2>1, FS_Subset
<1>3. time \in [I -> Int]
  OBVIOUS
<1>4. n \in Nat
  BY <1>2, FS_CardinalityType
<1> HIDE DEF time, n
<1>5. PICK order \in [1..n -> I] :
        /\ ByTime(s, time) = [k \in 1..n |-> s[order[k]]]
        /\ \A i \in I : \E k \in 1..n : order[k] = i
        /\ \A k, l \in 1..n : k < l =>
             \/ time[order[k]] < time[order[l]]
             \/ time[order[k]] = time[order[l]] /\ order[k] < order[l]
  <2>1. Sorts(s, I, time)
    BY <1>2, <1>3, ByTimeSorts
  <2> QED
    BY <2>1 DEF Sorts, n
<1>6. r = [k \in 1..n |-> s[order[k]]]
  BY <1>5 DEF time
<1>7. \A k \in 1..n : order[k] \in I /\ r[k] = s[order[k]] /\ r[k] \in S
  BY <1>1, <1>5, <1>6
<1>8. r \in Seq(S)
  <2>1. r \in [1..n -> S]
    BY <1>6, <1>7
  <2> QED
    BY <1>4, <2>1, SeqDef
<1>9. ToSet(r) = {s[i] : i \in I}
  <2>1. ToSet(r) = {r[k] : k \in 1..n}
    BY <1>6 DEF ToSet
  <2> QED
    BY <1>5, <1>7, <2>1
<1>10. InTime(r)
  <2> SUFFICES ASSUME NEW k \in 1..n, NEW l \in 1..n, k <= l PROVE r[k].time <= r[l].time
    BY <1>6 DEF InTime
  <2>1. /\ order[k] \in I /\ order[l] \in I /\ k \in Int /\ l \in Int
        /\ time[order[k]] = r[k].time /\ time[order[l]] = r[l].time
        /\ r[k].time \in Int /\ r[l].time \in Int
    BY <1>4, <1>7 DEF time
  <2>2. CASE k = l
    BY <2>1, <2>2
  <2>3. CASE k < l
    <3>1. \/ time[order[k]] < time[order[l]]
          \/ time[order[k]] = time[order[l]] /\ order[k] < order[l]
      BY <1>5, <2>3
    <3> QED
      BY <2>1, <3>1
  <2> QED
    BY <2>1, <2>2, <2>3
<1> QED
  BY <1>8, <1>9, <1>10

Timing == [vs : Stations, time : Int, dist : Int]

(* The timings of a race: the readable passages at known stations.           *)
LEMMA TimingsSorted ==
  ASSUME NEW p, NEW readings \in Seq(Passages)
  PROVE  Timings(p, readings) \in Seq(Timing) /\ InTime(Timings(p, readings))
<1> DEFINE I == {i \in DOMAIN readings : readings[i].vs \in p.known /\ readings[i].time # Unread}
           r == Timings(p, readings)
<1>1. DOMAIN readings = 1..Len(readings) /\ \A i \in DOMAIN readings : readings[i] \in Passages
  BY LenProperties
<1>2. \A i \in I : readings[i].time \in Int /\ readings[i] \in Timing
  BY <1>1 DEF Passages, Timing
<1>3. I \in SUBSET DOMAIN readings /\ r = ByTime(readings, [i \in I |-> readings[i].time])
  BY DEF Timings
<1> HIDE DEF I, r
<1>4. r \in Seq(Passages) /\ InTime(r) /\ ToSet(r) = {readings[i] : i \in I}
  BY <1>2, <1>3, SortedList
<1>5. DOMAIN r = 1..Len(r) /\ Len(r) \in Nat
  BY <1>4, LenProperties
<1>6. \A k \in 1..Len(r) : r[k] \in Timing
  BY <1>2, <1>4, <1>5 DEF ToSet
<1>7. r = [k \in 1..Len(r) |-> r[k]]
  BY <1>4, <1>5, SeqDef
<1>8. r \in Seq(Timing)
  BY <1>5, <1>6, <1>7, SeqDef
<1> QED
  BY <1>4, <1>8 DEF r

(* Between two numbers by a share of the way from one to the other.         *)
LEMMA OnTheWay ==
  ASSUME NEW a \in Int, NEW b \in Int, NEW whole \in Int, NEW share \in Int,
         0 <= share, share <= whole, NEW low \in Int, NEW high \in Int,
         low <= a, low <= b, a <= high, b <= high
  PROVE  /\ whole * low <= a * whole + (b - a) * share
         /\ a * whole + (b - a) * share <= whole * high
<1> DEFINE rest == whole - share
<1>1. rest \in Nat /\ share \in Nat /\ whole = rest + share
  OBVIOUS
<1> HIDE DEF rest
<1>2. /\ a * whole + (b - a) * share = a * rest + b * share
      /\ whole * low = low * rest + low * share
      /\ whole * high = high * rest + high * share
  BY <1>1
<1>3. \A x, y \in Int, k \in Nat : x <= y => x * k <= y * k
  OBVIOUS
<1>4. /\ low * rest <= a * rest /\ a * rest <= high * rest
      /\ low * share <= b * share /\ b * share <= high * share
  BY <1>1, <1>3
<1> DEFINE ar == a * rest  bs == b * share  lr == low * rest  ls == low * share
           hr == high * rest  hs == high * share
<1>5. ar \in Int /\ bs \in Int /\ lr \in Int /\ ls \in Int /\ hr \in Int /\ hs \in Int
  BY <1>1
<1>6. lr <= ar /\ ar <= hr /\ ls <= bs /\ bs <= hs
  BY <1>4
<1>7. a * whole + (b - a) * share = ar + bs /\ whole * low = lr + ls /\ whole * high = hr + hs
  BY <1>2
<1> HIDE DEF ar, bs, lr, ls, hr, hs
<1> QED
  BY <1>5, <1>6, <1>7

(* A finite set of integers has a least element, which is what Min chooses. *)
LEMMA LeastInteger ==
  ASSUME NEW S \in SUBSET Int, IsFiniteSet(S), S # {}
  PROVE  Min(S) \in S /\ \A x \in S : Min(S) <= x
<1> DEFINE neg == [x \in S |-> 0 - x]
           T == {neg[x] : x \in S}
<1>1. IsFiniteSet(T)
  <2>1. neg = [x \in S |-> neg[x]]
    OBVIOUS
  <2> HIDE DEF neg
  <2> QED
    BY <2>1, FiniteImage
<1>2. T \in SUBSET Int /\ T # {}
  <2>1. \A x \in S : neg[x] \in Int
    OBVIOUS
  <2> HIDE DEF neg
  <2> QED
    BY <2>1
<1>3. HasGreatest(T)
  <2> HIDE DEF T
  <2> QED
    BY <1>1, <1>2, GreatestElement
<1>4. PICK m \in S : \A x \in S : 0 - m >= 0 - x
  BY <1>3 DEF HasGreatest
<1>5. \A x \in S : m <= x
  BY <1>4
<1> QED
  BY <1>5 DEF Min

(* A finite set of integers has a greatest element, which is what Max chooses.*)
LEMMA GreatestInteger ==
  ASSUME NEW S \in SUBSET Int, IsFiniteSet(S), S # {}
  PROVE  Max(S) \in S /\ \A x \in S : Max(S) >= x
  BY GreatestElement DEF HasGreatest, Max

(* The timing a runner is on his way to at t, and the one he has passed.     *)
LEMMA NextTiming ==
  ASSUME NEW ts \in Seq(Timing), InTime(ts), NEW t \in Int,
         NEW ahead, ahead = {i \in DOMAIN ts : t <= ts[i].time}, ahead # {},
         NEW i, i = Min(ahead)
  PROVE  /\ i \in 1..Len(ts) /\ t <= ts[i].time
         /\ \A k \in 1..Len(ts) : ts[k].time < t <=> k < i
<1>1. DOMAIN ts = 1..Len(ts) /\ Len(ts) \in Nat /\ \A k \in DOMAIN ts : ts[k] \in Timing
  BY LenProperties
<1>2. \A k \in 1..Len(ts) : ts[k].time \in Int
  BY <1>1 DEF Timing
<1>3. IsFiniteSet(ahead) /\ ahead \in SUBSET Int
  <2>1. IsFiniteSet(1..Len(ts))
    BY <1>1, FS_Interval
  <2> QED
    BY <1>1, <2>1, FS_Subset
<1>4. i \in ahead /\ \A k \in ahead : i <= k
  BY <1>3, LeastInteger
<1>5. i \in 1..Len(ts) /\ t <= ts[i].time
  BY <1>1, <1>4
<1>6. ASSUME NEW k \in 1..Len(ts) PROVE ts[k].time < t <=> k < i
  <2>1. k < i => k \notin ahead
    BY <1>3, <1>4, <1>5
  <2>2. ~(k < i) => ts[i].time <= ts[k].time
    BY <1>1, <1>5 DEF InTime
  <2>3. ts[k].time \in Int /\ ts[i].time \in Int
    BY <1>2, <1>5
  <2> QED
    BY <1>1, <1>5, <2>1, <2>2, <2>3
<1> QED
  BY <1>5, <1>6

(* The distances of the timings, and zero, have a least and a greatest.     *)
LEMMA ReachBounds ==
  ASSUME NEW ts \in Seq(Timing), NEW reach, reach = {e.dist : e \in ToSet(ts)} \cup {0}
  PROVE  /\ Min(reach) \in Int /\ Max(reach) \in Int
         /\ \A x \in reach : x \in Int /\ Min(reach) <= x /\ x <= Max(reach)
<1>1. DOMAIN ts = 1..Len(ts) /\ Len(ts) \in Nat /\ \A k \in DOMAIN ts : ts[k] \in Timing
  BY LenProperties
<1>2. \A k \in 1..Len(ts) : ts[k].dist \in Int
  BY <1>1 DEF Timing
<1> DEFINE f == [k \in 0..Len(ts) |-> IF k = 0 THEN 0 ELSE ts[k].dist]
<1>3. reach = {f[k] : k \in 0..Len(ts)}
  <2>1. ToSet(ts) = {ts[k] : k \in 1..Len(ts)}
    BY <1>1 DEF ToSet
  <2>2. ASSUME NEW x \in reach PROVE \E k \in 0..Len(ts) : x = f[k]
    <3>1. CASE x = 0
      <4>1. 0 \in 0..Len(ts) /\ f[0] = 0
        BY <1>1
      <4> QED
        BY <3>1, <4>1
    <3>2. CASE x # 0
      <4>1. PICK k \in 1..Len(ts) : x = ts[k].dist
        BY <2>1, <3>2
      <4>2. k \in 0..Len(ts) /\ f[k] = x
        BY <1>1, <4>1
      <4> QED
        BY <4>2
    <3> QED
      BY <3>1, <3>2
  <2>3. ASSUME NEW k \in 0..Len(ts) PROVE f[k] \in reach
    <3>1. k = 0 \/ k \in 1..Len(ts)
      BY <1>1
    <3> QED
      BY <2>1, <3>1
  <2> HIDE DEF f
  <2> QED
    BY <2>2, <2>3
<1>4. IsFiniteSet(reach)
  <2>1. IsFiniteSet(0..Len(ts)) /\ f = [k \in 0..Len(ts) |-> f[k]]
    BY <1>1, FS_Interval
  <2> HIDE DEF f
  <2> QED
    BY <1>3, <2>1, FiniteImage
<1>5. reach \in SUBSET Int /\ reach # {}
  <2>1. \A k \in 0..Len(ts) : f[k] \in Int
    <3>1. \A k \in 0..Len(ts) : k = 0 \/ k \in 1..Len(ts)
      BY <1>1
    <3> QED
      BY <1>2, <3>1
  <2> HIDE DEF f
  <2> QED
    BY <1>3, <2>1
<1> QED
  BY <1>4, <1>5, LeastInteger, GreatestInteger

(* What distAtTime walks: the next timing, the one before it, and the start. *)
Before(ts, start, i) ==
  CASE i > 1 -> ts[i - 1]
    [] i = 1 /\ start # None -> [time |-> start, dist |-> 0]
    [] OTHER -> ts[i]
Begun(ts, start, t) ==
  (start # None => start <= t) /\ (start = None => ts # <<>> /\ ts[1].time <= t)
Ahead(ts, t) == {i \in DOMAIN ts : t <= ts[i].time}
Walked(d, t, next, prev) ==
  d = IF next.time = prev.time THEN <<next.dist, 1>>
      ELSE <<prev.dist * (next.time - prev.time)
               + (next.dist - prev.dist) * (t - prev.time),
             next.time - prev.time>>

(* distAtTime, with its early returns made one condition: null unless the   *)
(* race has begun and a timing is ahead, else the way walked from the       *)
(* timing before to the first one ahead.                                    *)
LEMMA DistCases ==
  ASSUME NEW ts \in Seq(Timing), InTime(ts), NEW start \in Int \cup {None}, NEW t \in Int,
         NEW d, d = DistAtTime(ts, start, t)
  PROVE  LET i == Min(Ahead(ts, t)) IN
         IF Begun(ts, start, t) /\ Ahead(ts, t) # {}
         THEN Walked(d, t, ts[i], Before(ts, start, i)) ELSE d = None
<1> DEFINE ahead == {i \in DOMAIN ts : t <= ts[i].time}
<1>1. DOMAIN ts = 1..Len(ts) /\ Len(ts) \in Nat /\ \A k \in DOMAIN ts : ts[k] \in Timing
  BY LenProperties
<1>2. \A k \in 1..Len(ts) : ts[k].time \in Int
  BY <1>1 DEF Timing
<1>3. ts = <<>> => ahead = {}
  OBVIOUS
<1>4. ts # <<>> => 1 \in 1..Len(ts)
  BY <1>1, EmptySeq
<1> DEFINE first == IF start = None THEN ts[1].time ELSE start
<1>5. ts # <<>> => first \in Int
  BY <1>2, <1>4
<1>6. ts # <<>> => (Begun(ts, start, t) <=> ~(t < first))
  <2> SUFFICES ASSUME ts # <<>> PROVE Begun(ts, start, t) <=> first <= t
    BY <1>5
  <2>1. CASE start = None
    BY <2>1 DEF Begun
  <2>2. CASE start # None
    BY <2>2 DEF Begun
  <2> QED
    BY <2>1, <2>2
<1>7. d = IF ts = <<>> \/ t < first THEN None
          ELSE IF ahead = {} THEN None
          ELSE LET i == Min(ahead)
                   next == ts[i]
                   prev == Before(ts, start, i)
               IN  IF next.time = prev.time THEN <<next.dist, 1>>
                   ELSE <<prev.dist * (next.time - prev.time)
                            + (next.dist - prev.dist) * (t - prev.time),
                          next.time - prev.time>>
  BY DEF DistAtTime, Before
<1> HIDE DEF first
<1> QED
  BY <1>3, <1>6, <1>7 DEF Walked, Ahead

(* The way walked lies between the distances of the two timings, hence      *)
(* between the least and the greatest of all of them.                       *)
LEMMA DistIsBetween ==
  ASSUME NEW ts \in Seq(Timing), InTime(ts), NEW start \in Int \cup {None}, NEW t \in Int,
         NEW d, d = DistAtTime(ts, start, t)
  PROVE  /\ (d # None) <=> (Begun(ts, start, t) /\ \E e \in ToSet(ts) : e.time >= t)
         /\ d # None => d \in Int \X Int /\ d[2] > 0 /\ Underway(d, ToSet(ts), t)
<1> DEFINE ahead == Ahead(ts, t)
           reach == {e.dist : e \in ToSet(ts)} \cup {0}
<1>1. DOMAIN ts = 1..Len(ts) /\ Len(ts) \in Nat /\ \A k \in DOMAIN ts : ts[k] \in Timing
  BY LenProperties
<1>2. \A k \in 1..Len(ts) : ts[k].time \in Int /\ ts[k].dist \in Int /\ ts[k] \in ToSet(ts)
  BY <1>1 DEF Timing, ToSet
<1>3. ahead # {} <=> \E e \in ToSet(ts) : e.time >= t
  BY <1>1, <1>2 DEF ToSet, Ahead
<1>6. IF Begun(ts, start, t) /\ Ahead(ts, t) # {}
      THEN Walked(d, t, ts[Min(Ahead(ts, t))], Before(ts, start, Min(Ahead(ts, t)))) ELSE d = None
  BY DistCases
<1>4. CASE ~(Begun(ts, start, t) /\ ahead # {})
  <2>1. d = None
    BY <1>4, <1>6
  <2> QED
    BY <1>3, <1>4, <2>1
<1>5. CASE Begun(ts, start, t) /\ ahead # {}
  <2> DEFINE i == Min(ahead)
             next == ts[i]
             prev == Before(ts, start, i)
             whole == next.time - prev.time
             share == t - prev.time
  <2>1. d = IF next.time = prev.time THEN <<next.dist, 1>>
            ELSE <<prev.dist * whole + (next.dist - prev.dist) * share, whole>>
    BY <1>5, <1>6 DEF Walked
  <2>2. /\ i \in 1..Len(ts) /\ t <= ts[i].time
        /\ \A k \in 1..Len(ts) : ts[k].time < t <=> k < i
    <3> HIDE DEF ahead
    <3>1. ahead = {k \in DOMAIN ts : t <= ts[k].time}
      BY DEF ahead, Ahead
    <3> QED
      BY <1>5, <3>1, NextTiming
  <2> HIDE DEF ahead, i
  <2>3. /\ next.time \in Int /\ next.dist \in Int /\ next.dist \in reach /\ t <= next.time
        /\ next \in ToSet(ts)
    BY <1>2, <2>2
  <2>4. /\ prev.time \in Int /\ prev.dist \in Int /\ prev.dist \in reach /\ prev.time <= t
    <3>1. CASE i > 1
      <4>1. i - 1 \in 1..Len(ts) /\ i - 1 < i
        BY <1>1, <2>2, <3>1
      <4>2. prev = ts[i - 1]
        BY <3>1 DEF Before
      <4>3. ts[i - 1].time < t
        BY <2>2, <4>1
      <4> QED
        BY <1>2, <4>1, <4>2, <4>3
    <3>2. CASE ~(i > 1) /\ start # None
      <4>1. prev = [time |-> start, dist |-> 0]
        BY <1>1, <2>2, <3>2 DEF Before
      <4>2. start \in Int /\ start <= t
        BY <1>5, <3>2 DEF Begun
      <4>3. 0 \in reach
        OBVIOUS
      <4> HIDE DEF prev, reach
      <4> QED
        BY <4>1, <4>2, <4>3
    <3>3. CASE ~(i > 1) /\ start = None
      <4>1. i = 1 /\ prev = ts[i]
        BY <1>1, <2>2, <3>3 DEF Before
      <4> QED
        BY <1>5, <2>3, <3>3, <4>1 DEF Begun
    <3> QED
      BY <3>1, <3>2, <3>3
  <2>5. whole \in Nat /\ share \in Nat /\ share <= whole
    <3> HIDE DEF next, prev
    <3> QED
      BY <2>3, <2>4
  <2>6. ASSUME NEW low \in Int, NEW high \in Int, low <= next.dist, low <= prev.dist,
               next.dist <= high, prev.dist <= high
        PROVE  d[2] * low <= d[1] /\ d[1] <= d[2] * high
    <3>1. CASE next.time = prev.time
      BY <2>1, <2>3, <2>6, <3>1
    <3>2. CASE next.time # prev.time
      <4>1. /\ whole * low <= prev.dist * whole + (next.dist - prev.dist) * share
            /\ prev.dist * whole + (next.dist - prev.dist) * share <= whole * high
        <5> DEFINE a == prev.dist  b == next.dist
        <5>1. a \in Int /\ b \in Int /\ low <= a /\ low <= b /\ a <= high /\ b <= high
          BY <2>3, <2>4, <2>6
        <5>2. whole \in Int /\ share \in Int /\ 0 <= share /\ share <= whole
          BY <2>5
        <5> HIDE DEF whole, share, a, b
        <5>3. whole * low <= a * whole + (b - a) * share /\ a * whole + (b - a) * share <= whole * high
          BY <5>1, <5>2, OnTheWay
        <5> QED
          BY <5>3 DEF a, b
      <4> HIDE DEF whole, share, next, prev
      <4> QED
        BY <2>1, <3>2, <4>1
    <3> QED
      BY <3>1, <3>2
  <2>7. d \in Int \X Int /\ d[2] > 0
    <3> HIDE DEF next, prev
    <3>1. next.time # prev.time => whole > 0
      BY <2>3, <2>4
    <3>2. CASE next.time = prev.time
      BY <2>1, <2>3, <3>2
    <3>3. CASE next.time # prev.time
      <4>1. d = <<prev.dist * whole + (next.dist - prev.dist) * share, whole>>
        BY <2>1, <3>3
      <4>2. whole \in Int /\ share \in Int
        BY <2>5
      <4> HIDE DEF whole, share
      <4>3. prev.dist * whole + (next.dist - prev.dist) * share \in Int
        <5> DEFINE a == prev.dist  b == next.dist - prev.dist
        <5>1. a \in Int /\ b \in Int
          BY <2>3, <2>4
        <5> HIDE DEF a, b
        <5>2. a * whole \in Int /\ b * share \in Int
          BY <4>2, <5>1
        <5>3. a * whole + b * share \in Int
          BY <5>2
        <5> QED
          BY <5>3 DEF a, b
      <4> QED
        BY <3>1, <3>3, <4>1, <4>2, <4>3
    <3> QED
      BY <3>2, <3>3
  <2>8. d # None
    BY <2>7, NoneAssumption
  <2>9. d[1] >= d[2] * Min(reach) /\ d[1] <= d[2] * Max(reach)
    <3> HIDE DEF reach
    <3>1. /\ Min(reach) \in Int /\ Max(reach) \in Int
          /\ \A x \in reach : x \in Int /\ Min(reach) <= x /\ x <= Max(reach)
      BY ReachBounds DEF reach
    <3> DEFINE low == Min(reach)  high == Max(reach)
    <3>2. low \in Int /\ high \in Int /\ low <= next.dist /\ low <= prev.dist
          /\ next.dist <= high /\ prev.dist <= high
      BY <2>3, <2>4, <3>1
    <3> HIDE DEF low, high, next, prev
    <3>3. d[2] * low <= d[1] /\ d[1] <= d[2] * high
      BY <2>6, <3>2
    <3>4. d[2] * low \in Int /\ d[1] \in Int
      BY <2>7, <3>2
    <3> QED
      BY <3>3, <3>4 DEF low, high
  <2>10. ASSUME {e \in ToSet(ts) : e.time < t} # {}
         PROVE  \E e \in {x \in ToSet(ts) : x.time < t}, f \in {x \in ToSet(ts) : x.time >= t} :
                  /\ \A x \in {y \in ToSet(ts) : y.time < t} : x.time <= e.time
                  /\ \A x \in {y \in ToSet(ts) : y.time >= t} : x.time >= f.time
                  /\ d[2] * (IF e.dist <= f.dist THEN e.dist ELSE f.dist) <= d[1]
                  /\ d[1] <= d[2] * (IF e.dist <= f.dist THEN f.dist ELSE e.dist)
    <3>1. PICK k \in 1..Len(ts) : ts[k].time < t
      BY <1>1, <2>10 DEF ToSet
    <3>2. k < i
      BY <2>2, <3>1
    <3>3. i - 1 \in 1..Len(ts) /\ i > 1 /\ i - 1 < i
      BY <1>1, <2>2, <3>1, <3>2
    <3>4. prev = ts[i - 1] /\ prev \in ToSet(ts) /\ prev.time < t
      BY <1>2, <2>2, <3>3 DEF Before
    <3>5. ASSUME NEW x \in ToSet(ts), x.time < t PROVE x.time <= prev.time
      <4>1. PICK j \in 1..Len(ts) : x = ts[j]
        BY <1>1 DEF ToSet
      <4>2. j < i
        BY <2>2, <3>5, <4>1
      <4>3. j <= i - 1
        BY <1>1, <2>2, <4>2
      <4> QED
        BY <1>1, <3>3, <3>4, <4>1, <4>3 DEF InTime
    <3>6. ASSUME NEW x \in ToSet(ts), x.time >= t PROVE x.time >= next.time
      <4>1. PICK j \in 1..Len(ts) : x = ts[j]
        BY <1>1 DEF ToSet
      <4>2. ~(j < i)
        BY <1>2, <2>2, <3>6, <4>1
      <4>3. i <= j
        BY <1>1, <2>2, <4>2
      <4>4. ts[i].time <= ts[j].time
        BY <1>1, <2>2, <4>3 DEF InTime
      <4> QED
        BY <1>2, <2>2, <4>1, <4>4
    <3> DEFINE low == IF prev.dist <= next.dist THEN prev.dist ELSE next.dist
               high == IF prev.dist <= next.dist THEN next.dist ELSE prev.dist
    <3>7. d[2] * low <= d[1] /\ d[1] <= d[2] * high
      <4>1. low \in Int /\ high \in Int /\ low <= next.dist /\ low <= prev.dist
            /\ next.dist <= high /\ prev.dist <= high
        BY <2>3, <2>4
      <4> HIDE DEF low, high, next, prev
      <4> QED
        BY <2>6, <4>1
    <3>8. prev \in {x \in ToSet(ts) : x.time < t} /\ next \in {x \in ToSet(ts) : x.time >= t}
      BY <2>3, <3>4
    <3> HIDE DEF next, prev, low, high
    <3> USE <3>8
    <3> WITNESS prev \in {x \in ToSet(ts) : x.time < t}, next \in {x \in ToSet(ts) : x.time >= t}
    <3> QED
      BY <3>5, <3>6, <3>7 DEF low, high
  <2>11. Underway(d, ToSet(ts), t)
    BY <2>9, <2>10 DEF Underway
  <2> QED
    BY <1>3, <1>5, <2>7, <2>8, <2>11
<1> QED
  BY <1>4, <1>5

(* The rounds of the binary search.                                         *)
Searched(cum, d, between) ==
  between = [k \in 0..Len(cum) |-> IF k = 0 THEN <<1, Len(cum)>> ELSE Halved(cum, d, between[k - 1])]
(* The loop of the binary search keeps two points, the first reached and the *)
(* second not, and brings them closer while there is a point between them.  *)
LEMMA HalvedCloser ==
  ASSUME NEW cum \in Seq(Int), NEW d \in Int \X Int,
         NEW lo \in 1..Len(cum), NEW hi \in 1..Len(cum), lo < hi,
         Reached(cum, d, lo), ~Reached(cum, d, hi)
  PROVE  \E l, h \in 1..Len(cum) :
           /\ Halved(cum, d, <<lo, hi>>) = <<l, h>> /\ l < h
           /\ Reached(cum, d, l) /\ ~Reached(cum, d, h)
           /\ h - l = 1 \/ h - l < hi - lo
<1>1. Len(cum) \in Nat
  BY LenProperties
<1>2. CASE lo >= hi - 1
  <2>1. Halved(cum, d, <<lo, hi>>) = <<lo, hi>> /\ hi - lo = 1
    BY <1>1, <1>2 DEF Halved
  <2> QED
    BY <2>1
<1>3. CASE ~(lo >= hi - 1)
  <2> DEFINE mid == (lo + hi) \div 2
  <2>1. mid \in Int /\ lo < mid /\ mid < hi
    BY <1>1, <1>3
  <2>2. mid \in 1..Len(cum)
    <3> HIDE DEF mid
    <3> QED
      BY <1>1, <2>1
  <2>3. Halved(cum, d, <<lo, hi>>) = IF Reached(cum, d, mid) THEN <<mid, hi>> ELSE <<lo, mid>>
    BY <1>3 DEF Halved
  <2> HIDE DEF mid
  <2>4. CASE Reached(cum, d, mid)
    <3>1. hi - mid < hi - lo
      BY <1>1, <2>1
    <3> QED
      BY <2>1, <2>2, <2>3, <2>4, <3>1
  <2>5. CASE ~Reached(cum, d, mid)
    <3>1. mid - lo < hi - lo
      BY <1>1, <2>1
    <3> QED
      BY <2>1, <2>2, <2>3, <2>5, <3>1
  <2> QED
    BY <2>4, <2>5
<1> QED
  BY <1>2, <1>3

(* After as many rounds as the track has points the two points are          *)
(* neighbours: each round that does not end the loop brings them closer.    *)
LEMMA SearchLoop ==
  ASSUME NEW cum \in Seq(Int), NEW d \in Int \X Int, Len(cum) > 1,
         Reached(cum, d, 1), ~Reached(cum, d, Len(cum)),
         NEW between, Searched(cum, d, between)
  PROVE  LET lo == between[Len(cum)][1] IN
         lo \in 1..(Len(cum) - 1) /\ Reached(cum, d, lo) /\ ~Reached(cum, d, lo + 1)
<1> DEFINE n == Len(cum)
           Brackets(b, k) ==
             \E l, h \in 1..n : /\ b = <<l, h>> /\ l < h
                                /\ Reached(cum, d, l) /\ ~Reached(cum, d, h)
                                /\ h - l = 1 \/ h - l < n - k
           S == {k \in 0..n : Brackets(between[k], k)}
<1>1. n \in Nat /\ n > 1
  BY LenProperties
<1>2. between[0] = <<1, n>> /\ \A k \in 1..n : between[k] = Halved(cum, d, between[k - 1])
  <2>1. \A k \in 0..n : between[k] = IF k = 0 THEN <<1, n>> ELSE Halved(cum, d, between[k - 1])
    BY DEF Searched
  <2>2. 0 \in 0..n /\ \A k \in 1..n : k \in 0..n /\ k # 0
    BY <1>1
  <2> QED
    BY <2>1, <2>2
<1>3. 0 \in S
  <2>1. n - 1 < n - 0 /\ 1 < n /\ 1 \in 1..n /\ n \in 1..n /\ 0 \in 0..n
    BY <1>1
  <2>2. Brackets(between[0], 0)
    BY <1>2, <2>1
  <2> QED
    BY <2>1, <2>2
<1>4. ASSUME NEW k \in 1..n, k - 1 \in S PROVE k \in S
  <2>1. PICK l \in 1..n, h \in 1..n :
          /\ between[k - 1] = <<l, h>> /\ l < h
          /\ Reached(cum, d, l) /\ ~Reached(cum, d, h)
          /\ h - l = 1 \/ h - l < n - (k - 1)
    BY <1>4
  <2>2. PICK l2 \in 1..n, h2 \in 1..n :
           /\ Halved(cum, d, <<l, h>>) = <<l2, h2>> /\ l2 < h2
           /\ Reached(cum, d, l2) /\ ~Reached(cum, d, h2)
           /\ h2 - l2 = 1 \/ h2 - l2 < h - l
    BY <2>1, HalvedCloser
  <2>3. between[k] = <<l2, h2>>
    BY <1>2, <2>1, <2>2
  <2>4. h2 - l2 = 1 \/ h2 - l2 < n - k
    <3> DEFINE w == h - l  w2 == h2 - l2
    <3>1. w \in Int /\ w2 \in Int /\ w2 >= 1 /\ k \in Int
      BY <1>1, <2>2
    <3>2. (w = 1 \/ w < n - (k - 1)) /\ (w2 = 1 \/ w2 < w)
      BY <2>1, <2>2
    <3> HIDE DEF w, w2, n
    <3>3. w2 = 1 \/ w2 < n - k
      BY <1>1, <3>1, <3>2
    <3> QED
      BY <3>3 DEF w2
  <2>5. Brackets(between[k], k)
    BY <2>2, <2>3, <2>4
  <2>6. k \in 0..n
    BY <1>1
  <2> QED
    BY <2>5, <2>6
<1>5. n \in S
  <2>1. n \in 0..n
    BY <1>1
  <2> HIDE DEF S
  <2>2. 0..n \subseteq S
    BY <1>1, <1>3, <1>4, BoundedInduction
  <2> QED
    BY <2>1, <2>2
<1>6. PICK l \in 1..n, h \in 1..n :
          /\ between[n] = <<l, h>> /\ l < h
          /\ Reached(cum, d, l) /\ ~Reached(cum, d, h)
          /\ h - l = 1 \/ h - l < n - n
  BY <1>5
<1>7. h = l + 1 /\ l \in 1..(n - 1) /\ between[n][1] = l
  BY <1>1, <1>6
<1> QED
  BY <1>6, <1>7

(* The loop runs: each round is defined from the round before it.           *)
LEMMA SearchRuns ==
  ASSUME NEW cum \in Seq(Int), NEW d \in Int \X Int, cum # <<>>
  PROVE  \E between : Searched(cum, d, between)
<1> DEFINE n == Len(cum)
           T == Int \X Int
           next == [p \in (1..n) \X T |-> Halved(cum, d, p[2])]
<1>1. n \in Nat
  BY LenProperties
<1>2. next \in [(1..n) \X T -> T]
  <2> SUFFICES ASSUME NEW b \in T PROVE Halved(cum, d, b) \in T
    OBVIOUS
  <2>1. b = <<b[1], b[2]>> /\ b[1] \in Int /\ b[2] \in Int
    OBVIOUS
  <2>2. (b[1] + b[2]) \div 2 \in Int
    BY <2>1
  <2> QED
    BY <2>1, <2>2 DEF Halved
<1>3. PICK f \in [0..n -> T] : f[0] = <<1, n>> /\ \A k \in 1..n : f[k] = next[<<k, f[k - 1]>>]
  <2>1. <<1, n>> \in T
    BY <1>1
  <2> HIDE DEF n, T, next
  <2>2. Computable(n, T, <<1, n>>, next)
    BY <1>1, <1>2, <2>1, RecursiveFunction
  <2> QED
    BY <2>2 DEF Computable
<1>4. ASSUME NEW k \in 1..n PROVE f[k] = Halved(cum, d, f[k - 1])
  <2>1. k - 1 \in 0..n
    BY <1>1
  <2>2. f[k - 1] \in T
    <3> HIDE DEF T, n, next
    <3> QED
      BY <1>3, <2>1
  <2>3. f[k] = next[<<k, f[k - 1]>>]
    BY <1>3
  <2> QED
    BY <2>2, <2>3
<1>5. \A k \in 0..n : f[k] = IF k = 0 THEN <<1, n>> ELSE Halved(cum, d, f[k - 1])
  <2>1. \A k \in 0..n : k = 0 \/ (k \in 1..n /\ k # 0)
    BY <1>1
  <2> QED
    BY <1>3, <1>4, <2>1
<1>6. Searched(cum, d, f)
  <2> HIDE DEF T, next
  <2> QED
    BY <1>3, <1>5 DEF Searched
<1> QED
  BY <1>6

(* The search finds the last track point before the distance.                *)
LEMMA SearchFindsPoint ==
  ASSUME NEW cum \in Seq(Int), cum # <<>>, NEW d \in Int \X Int, d[2] > 0,
         \A i, j \in DOMAIN cum : i <= j => cum[i] <= cum[j],
         NEW i, i = SearchCumDist(cum, d)
  PROVE  /\ i \in 1..Len(cum)
         /\ \A k \in DOMAIN cum : cum[k] * d[2] < d[1] => k <= i
         /\ i > 1 => cum[i] * d[2] <= d[1]
<1> DEFINE n == Len(cum)
           Searching(f) == f = [k \in 0..Len(cum) |-> IF k = 0 THEN <<1, Len(cum)>> ELSE Halved(cum, d, f[k - 1])]
           between == CHOOSE f : Searching(f)
<1>1. n \in Nat /\ n >= 1 /\ DOMAIN cum = 1..n /\ \A k \in 1..n : cum[k] \in Int
  BY LenProperties, EmptySeq
<1>2. d[1] \in Int /\ d[2] \in Int
  OBVIOUS
<1>3. \A x, y \in Int : x <= y => x * d[2] <= y * d[2]
  <2>1. \A k \in Nat, x, y \in Int : x <= y => x * k <= y * k
    OBVIOUS
  <2>2. d[2] \in Nat
    BY <1>2
  <2> QED
    BY <2>1, <2>2
<1>4. ASSUME NEW k \in 1..n, NEW l \in 1..n, k <= l
      PROVE  cum[k] * d[2] <= cum[l] * d[2] /\ cum[k] * d[2] \in Int /\ cum[l] * d[2] \in Int
  <2>1. cum[k] \in Int /\ cum[l] \in Int /\ cum[k] <= cum[l]
    BY <1>1, <1>4
  <2>2. cum[k] * d[2] <= cum[l] * d[2]
    BY <1>3, <2>1
  <2>3. cum[k] * d[2] \in Int /\ cum[l] * d[2] \in Int
    BY <1>2, <2>1
  <2> QED
    BY <2>2, <2>3
<1>5. i = IF d[1] <= cum[1] * d[2] THEN 1 ELSE IF Reached(cum, d, n) THEN n ELSE between[n][1]
  <2>1. n # 0
    BY <1>1
  <2> QED
    BY <2>1 DEF SearchCumDist
<1>6. CASE d[1] <= cum[1] * d[2]
  <2>1. i = 1
    BY <1>5, <1>6
  <2>2. ASSUME NEW k \in 1..n PROVE ~(cum[k] * d[2] < d[1])
    <3>1. 1 \in 1..n /\ 1 <= k
      BY <1>1
    <3>2. cum[1] * d[2] <= cum[k] * d[2] /\ cum[1] * d[2] \in Int /\ cum[k] * d[2] \in Int
      BY <1>4, <3>1
    <3> QED
      BY <1>2, <1>6, <3>2
  <2> QED
    BY <1>1, <2>1, <2>2
<1>7. CASE ~(d[1] <= cum[1] * d[2]) /\ Reached(cum, d, n)
  <2>1. i = n
    BY <1>5, <1>7
  <2> QED
    BY <1>1, <1>7, <2>1 DEF Reached
<1>8. CASE ~(d[1] <= cum[1] * d[2]) /\ ~Reached(cum, d, n)
  <2>1. i = between[n][1]
    BY <1>5, <1>8
  <2>2. Reached(cum, d, 1)
    <3>1. cum[1] * d[2] \in Int
      BY <1>1, <1>2
    <3> QED
      BY <1>2, <1>8, <3>1 DEF Reached
  <2>3. n > 1
    BY <1>1, <1>8, <2>2
  <2>4. Searched(cum, d, between)
    <3>1. \E f : Searching(f)
      BY SearchRuns DEF Searched
    <3> HIDE DEF Searching
    <3>2. Searching(between)
      BY <3>1
    <3> QED
      BY <3>2 DEF Searching, Searched
  <2> HIDE DEF between
  <2>5. i \in 1..(n - 1) /\ Reached(cum, d, i) /\ ~Reached(cum, d, i + 1)
    BY <1>8, <2>1, <2>2, <2>3, <2>4, SearchLoop
  <2>6. i \in 1..n /\ i + 1 \in 1..n
    <3>1. i \in 1..(n - 1) /\ n \in Nat
      BY <1>1, <2>5
    <3> HIDE DEF n
    <3> QED
      BY <3>1
  <2>7. ASSUME NEW k \in 1..n, cum[k] * d[2] < d[1] PROVE k <= i
    <3> SUFFICES ASSUME i + 1 <= k PROVE FALSE
      BY <1>1, <2>6
    <3>1. cum[i + 1] * d[2] <= cum[k] * d[2] /\ cum[i + 1] * d[2] \in Int /\ cum[k] * d[2] \in Int
      BY <1>4, <2>6
    <3>2. ~(cum[i + 1] * d[2] <= d[1])
      BY <2>5 DEF Reached
    <3> DEFINE x == cum[i + 1] * d[2]  y == cum[k] * d[2]  e == d[1]
    <3>3. x \in Int /\ y \in Int /\ e \in Int /\ x <= y /\ y < e /\ ~(x <= e)
      BY <1>2, <2>7, <3>1, <3>2
    <3> HIDE DEF x, y, e
    <3> QED
      BY <3>3
  <2> QED
    BY <1>1, <2>5, <2>6, <2>7 DEF Reached
<1> QED
  BY <1>6, <1>7, <1>8

(* What the page sees of a race is a race, whichever queries have answered. *)
LEMMA ViewIsRace ==
  ASSUME TypeOK
  PROVE  IsRace(View)
<1>1. IsRace(plan)
  BY PlansAssumption DEF TypeOK
<1>2. /\ DOMAIN View = DOMAIN plan /\ View.track = plan.track
      /\ View.starts \in {plan.starts, {}}
      /\ View.front \in {plan.front, <<>>} /\ View.tail \in {plan.tail, <<>>}
  BY <1>1 DEF View, Seen, IsRace
<1>3. IsFiniteSet({}) /\ <<>> \in Seq(Passages)
  BY FS_EmptySet
<1> QED
  BY <1>1, <1>2, <1>3 DEF IsRace

(* The start of a race is a time, or null without a readable start.         *)
LEMMA RaceStartIsTime ==
  ASSUME NEW p, IsRace(p)
  PROVE  RaceStart(p) \in Int \cup {None}
<1> DEFINE starts == p.starts \ {None, Unread}
<1>1. starts \in SUBSET Int
  BY DEF IsRace
<1>2. IsFiniteSet(starts)
  <2>1. IsFiniteSet(p.starts) /\ starts \in SUBSET p.starts
    BY DEF IsRace
  <2> HIDE DEF starts
  <2> QED
    BY <2>1, FS_Subset
<1>3. RaceStart(p) = IF starts = {} THEN None ELSE Min(starts)
  BY DEF RaceStart
<1> HIDE DEF starts
<1> QED
  BY <1>1, <1>2, <1>3, LeastInteger

(* The race has begun: at its start, or else at its first timing.           *)
HasBegun(p, seen, t) ==
  IF RaceStart(p) # None THEN RaceStart(p) <= t ELSE \E e \in seen : e.time <= t

(* Runners are drawn exactly while the race has begun and a timing is       *)
(* ahead, and then between the timings around t.                            *)
LEMMA RunnersInOrder ==
  ASSUME NEW p, IsRace(p), NEW readings \in Seq(Passages), NEW t \in Int,
         NEW d, d = RunnerDist(p, readings, t),
         NEW seen, seen = ToSet(Timings(p, readings))
  PROVE  /\ (d # None) <=> (HasBegun(p, seen, t) /\ \E e \in seen : e.time >= t)
         /\ d # None => d \in Int \X Int /\ d[2] > 0 /\ Underway(d, seen, t)
<1> PICK ts : ts = Timings(p, readings)
  OBVIOUS
<1> PICK start : start = RaceStart(p)
  OBVIOUS
<1>1. /\ ts \in Seq(Timing) /\ InTime(ts) /\ start \in Int \cup {None}
      /\ d = DistAtTime(ts, start, t) /\ seen = ToSet(ts)
  BY TimingsSorted, RaceStartIsTime DEF RunnerDist
<1>2. DOMAIN ts = 1..Len(ts) /\ Len(ts) \in Nat /\ \A k \in DOMAIN ts : ts[k] \in Timing
  BY <1>1, LenProperties
<1>3. \A k \in 1..Len(ts) : ts[k].time \in Int
  BY <1>2 DEF Timing
<1>4. (\E e \in seen : e.time <= t) <=> (ts # <<>> /\ ts[1].time <= t)
  <2>1. ts # <<>> => 1 \in 1..Len(ts)
    BY <1>1, <1>2, EmptySeq
  <2>2. ASSUME NEW e \in seen, e.time <= t PROVE ts # <<>> /\ ts[1].time <= t
    <3>1. PICK k \in 1..Len(ts) : e = ts[k]
      BY <1>1, <1>2 DEF ToSet
    <3>2. 1 \in 1..Len(ts) /\ 1 <= k /\ ts # <<>>
      BY <1>2, <3>1
    <3>3. ts[1].time <= ts[k].time
      BY <1>1, <1>2, <3>1, <3>2 DEF InTime
    <3> QED
      BY <1>3, <2>2, <3>1, <3>2, <3>3
  <2>3. ASSUME ts # <<>>, ts[1].time <= t PROVE \E e \in seen : e.time <= t
    <3>1. ts[1] \in seen
      BY <1>1, <1>2, <2>1, <2>3 DEF ToSet
    <3> QED
      BY <2>3, <3>1
  <2> QED
    BY <2>2, <2>3
<1>5. Begun(ts, start, t) <=> HasBegun(p, seen, t)
  BY <1>4 DEF Begun, HasBegun
<1>6. /\ (d # None) <=> (Begun(ts, start, t) /\ \E e \in ToSet(ts) : e.time >= t)
      /\ d # None => d \in Int \X Int /\ d[2] > 0 /\ Underway(d, ToSet(ts), t)
  BY <1>1, DistIsBetween
<1> QED
  BY <1>1, <1>5, <1>6

(* The same for both lists the page shows, at the cursor, and for the track *)
(* point that Lookup finds.                                                 *)
LEMMA RunnersPlaced ==
  ASSUME TypeOK
  PROVE  RunnersBetweenTimings
<1>1. IsRace(View) /\ cursor \in Int
  BY ViewIsRace DEF TypeOK
<1> SUFFICES ASSUME NEW readings \in {View.front, View.tail}
             PROVE  LET d == RunnerDist(View, readings, cursor)
                        seen == ToSet(Timings(View, readings))
                        begun == IF RaceStart(View) # None THEN RaceStart(View) <= cursor
                                 ELSE \E e \in seen : e.time <= cursor
                    IN  /\ (d # None) <=> (begun /\ \E e \in seen : e.time >= cursor)
                        /\ d # None => /\ Underway(d, seen, cursor)
                                       /\ View.track # <<>> =>
                                            LET i == Lookup(View.track, d).point
                                            IN  /\ \A k \in DOMAIN View.track :
                                                     View.track[k] * d[2] < d[1] => k <= i
                                                /\ i > 1 => View.track[i] * d[2] <= d[1]
  BY DEF RunnersBetweenTimings
<1> PICK p : p = View
  OBVIOUS
<1> PICK t : t = cursor
  OBVIOUS
<1> DEFINE d == RunnerDist(p, readings, t)
           seen == ToSet(Timings(p, readings))
<1>2. /\ IsRace(p) /\ t \in Int /\ readings \in Seq(Passages)
  BY <1>1 DEF IsRace
<1>3. /\ (d # None) <=> (HasBegun(p, seen, t) /\ \E e \in seen : e.time >= t)
      /\ d # None => d \in Int \X Int /\ d[2] > 0 /\ Underway(d, seen, t)
  BY <1>2, RunnersInOrder
<1>4. ASSUME d # None, p.track # <<>>
      PROVE  LET i == Lookup(p.track, d).point IN
             /\ \A k \in DOMAIN p.track : p.track[k] * d[2] < d[1] => k <= i
             /\ i > 1 => p.track[i] * d[2] <= d[1]
  <2> DEFINE i == SearchCumDist(p.track, d)
  <2>1. d \in Int \X Int /\ d[2] > 0
    BY <1>3, <1>4
  <2> HIDE DEF d
  <2>2. /\ p.track \in Seq(Int)
        /\ \A j, k \in DOMAIN p.track : j <= k => p.track[j] <= p.track[k]
    BY <1>2 DEF IsRace
  <2>3. /\ i \in 1..Len(p.track)
        /\ \A k \in DOMAIN p.track : p.track[k] * d[2] < d[1] => k <= i
        /\ i > 1 => p.track[i] * d[2] <= d[1]
    BY <1>4, <2>1, <2>2, SearchFindsPoint
  <2>4. Lookup(p.track, d).point = i
    <3>1. i # 0
      BY <2>3
    <3> QED
      BY <3>1 DEF Lookup
  <2> HIDE DEF i
  <2> QED
    BY <2>3, <2>4
<1> HIDE DEF d, seen
<1> QED
  BY <1>3, <1>4 DEF d, seen, HasBegun

(* In every state the front and the tail of the race are drawn between the  *)
(* station last passed and the next one, from the start until no timing is  *)
(* ahead, on the track segment that holds their distance: distAtTime and    *)
(* searchCumDist.                                                           *)
THEOREM RunnersStayBetween == Spec => []RunnersBetweenTimings
<1>1. TypeOK => RunnersBetweenTimings
  BY RunnersPlaced
<1> QED
  BY <1>1, ChronologieTypes, PTL

(* A list that is in order of time is left as it is.                        *)
LEMMA AlreadyInOrder ==
  ASSUME NEW S, NEW s \in Seq(S), \A i \in DOMAIN s : s[i].time \in Int,
         \A i, j \in DOMAIN s : i < j => s[i].time < s[j].time
  PROVE  ByTime(s, [i \in DOMAIN s |-> s[i].time]) = s
<1> DEFINE n == Len(s)
           time == [i \in DOMAIN s |-> s[i].time]
           Upto(i) == {j \in DOMAIN time : time[j] < time[i] \/ (time[j] = time[i] /\ j <= i)}
<1>1. n \in Nat /\ DOMAIN s = 1..n /\ DOMAIN time = 1..n
  BY LenProperties
<1>2. \A i \in 1..n : time[i] = s[i].time /\ time[i] \in Int
  BY <1>1
<1> HIDE DEF time, n
<1>3. \A i \in 1..n : Cardinality(Upto(i)) = i
  <2> SUFFICES ASSUME NEW i \in 1..n PROVE Cardinality(Upto(i)) = i
    OBVIOUS
  <2>1. ASSUME NEW j \in 1..n PROVE (time[j] < time[i] \/ (time[j] = time[i] /\ j <= i)) <=> j <= i
    <3>1. /\ i < j => time[i] < time[j]
          /\ j < i => time[j] < time[i]
          /\ time[i] \in Int /\ time[j] \in Int
      BY <1>1, <1>2
    <3> QED
      BY <1>1, <3>1
  <2>2. Upto(i) = {j \in 1..n : j <= i}
    BY <1>1, <2>1
  <2>3. {j \in 1..n : j <= i} = 1..i
    BY <1>1
  <2>4. Cardinality(1..i) = i
    BY <1>1, FS_Interval
  <2> QED
    BY <2>2, <2>3, <2>4
<1>4. Cardinality(DOMAIN time) = n
  BY <1>1, FS_Interval
<1>5. ByTime(s, time) = [k \in 1..n |-> s[CHOOSE i \in DOMAIN time : Cardinality(Upto(i)) = k]]
  BY <1>4 DEF ByTime
<1>6. ASSUME NEW k \in 1..n PROVE (CHOOSE i \in DOMAIN time : Cardinality(Upto(i)) = k) = k
  <2> HIDE DEF Upto
  <2>1. \E i \in DOMAIN time : Cardinality(Upto(i)) = k
    BY <1>1, <1>3
  <2>2. PICK c : c = CHOOSE i \in DOMAIN time : Cardinality(Upto(i)) = k
    OBVIOUS
  <2>3. c \in DOMAIN time /\ Cardinality(Upto(c)) = k
    BY <2>1, <2>2
  <2> QED
    BY <1>1, <1>3, <2>2, <2>3
<1>7. s = [k \in 1..n |-> s[k]]
  BY <1>1, SeqDef
<1> HIDE DEF Upto
<1>8. ByTime(s, time) = s
  BY <1>5, <1>6, <1>7
<1> QED
  BY <1>8 DEF time

ReadableStops(tr) == \A s \in ToSet(tr.stops) : s.time \in Int

(* The stops of a trip whose times can be read, by time.                     *)
LEMMA TimedStops ==
  ASSUME NEW tr, IsTrip(tr), ReadableStops(tr)
  PROVE  /\ Timed(tr) \in Seq(ToSet(tr.stops)) /\ InTime(Timed(tr))
         /\ (\A i, j \in DOMAIN tr.stops : i < j => tr.stops[i].time < tr.stops[j].time)
              => Timed(tr) = tr.stops
<1> DEFINE stops == tr.stops
           I == {i \in DOMAIN stops : stops[i].time # Unread}
<1>1. stops \in Seq(ToSet(stops)) /\ \A i \in DOMAIN stops : stops[i].time \in Int
  BY DEF IsTrip, ReadableStops, ToSet
<1>2. I = DOMAIN stops
  BY <1>1, NoneAssumption
<1>3. Timed(tr) = ByTime(stops, [i \in I |-> stops[i].time])
  BY DEF Timed
<1> HIDE DEF I, stops
<1>4. I \in SUBSET DOMAIN stops /\ \A i \in I : stops[i].time \in Int
  BY <1>1, <1>2
<1>5. Timed(tr) \in Seq(ToSet(stops)) /\ InTime(Timed(tr))
  <2> DEFINE S == ToSet(stops)  r == Timed(tr)
  <2>1. stops \in Seq(S) /\ r = ByTime(stops, [i \in I |-> stops[i].time])
    BY <1>1, <1>3
  <2> HIDE DEF S, r
  <2>2. r \in Seq(S) /\ InTime(r)
    BY <1>4, <2>1, SortedList
  <2> QED
    BY <2>2 DEF S, r
<1>6. ASSUME \A i, j \in DOMAIN stops : i < j => stops[i].time < stops[j].time
      PROVE  Timed(tr) = stops
  <2>1. ByTime(stops, [i \in DOMAIN stops |-> stops[i].time]) = stops
    BY <1>1, <1>6, AlreadyInOrder
  <2> QED
    BY <1>2, <1>3, <2>1
<1> QED
  BY <1>5, <1>6 DEF stops

(* Every stop of every trip has a readable time and a known station.        *)
Stops(p) == \A tr \in ToSet(p.trips) :
              ReadableStops(tr) /\ \A s \in ToSet(tr.stops) : s.vs \in p.known

(* A trip with a leg under way at t is under way at t.                      *)
LEMMA LegIsRunning ==
  ASSUME NEW tr, IsTrip(tr), ReadableStops(tr), NEW t \in Int,
         NEW k \in LegsAt(Timed(tr), 1, Len(Timed(tr)), t)
  PROVE  Running(tr, t)
<1> PICK stops : stops = Timed(tr)
  OBVIOUS
<1>1. /\ DOMAIN stops = 1..Len(stops) /\ Len(stops) \in Nat
      /\ \A i \in 1..Len(stops) : stops[i] \in ToSet(tr.stops)
  BY TimedStops, LenProperties
<1>2. k \in 1..(Len(stops) - 1) /\ stops[k].time <= t /\ t <= stops[k + 1].time
  BY DEF LegsAt
<1>3. k \in 1..Len(stops) /\ k + 1 \in 1..Len(stops)
  BY <1>1, <1>2
<1>4. PICK i \in DOMAIN tr.stops : stops[k] = tr.stops[i]
  BY <1>1, <1>3 DEF ToSet
<1>5. PICK j \in DOMAIN tr.stops : stops[k + 1] = tr.stops[j]
  BY <1>1, <1>3 DEF ToSet
<1> QED
  BY <1>2, <1>4, <1>5 DEF Running

(* A set of indices has its least and its greatest among them.              *)
LEMMA LatestIndex ==
  ASSUME NEW n \in Nat, NEW S \in SUBSET (1..n), S # {}
  PROVE  Max(S) \in S /\ Min(S) \in S /\ \A x \in S : Min(S) <= x /\ x <= Max(S)
<1>1. IsFiniteSet(S) /\ S \in SUBSET Int
  <2> DEFINE N == 1..n
  <2>1. IsFiniteSet(N) /\ N \in SUBSET Int
    BY FS_Interval
  <2> HIDE DEF N
  <2>2. IsFiniteSet(S)
    BY <2>1, FS_Subset DEF N
  <2> QED
    BY <2>1, <2>2 DEF N
<1> QED
  BY <1>1, LeastInteger, GreatestInteger

(* A rider drawn on a leg of a trip has boarded it and has not left it yet.  *)
LEMMA RideIsAboard ==
  ASSUME NEW tr, IsTrip(tr), ReadableStops(tr), NEW t \in Int, NEW v, NEW p,
         OnRide(p, Timed(tr), v, t) # None
  PROVE  Aboard(tr, v, t)
<1> PICK stops : stops = Timed(tr)
  OBVIOUS
<1> DEFINE boards == {i \in DOMAIN stops : v \in stops[i].board}
           alights == {i \in DOMAIN stops : v \in stops[i].alight}
           b == Max(boards)
           a == Max(alights)
<1>1. /\ DOMAIN stops = 1..Len(stops) /\ Len(stops) \in Nat /\ InTime(stops)
      /\ \A i \in 1..Len(stops) : stops[i] \in ToSet(tr.stops)
  BY TimedStops, LenProperties
<1>2. boards # {} /\ alights # {} /\ LegsAt(stops, b, a, t) # {}
  BY DEF OnRide
<1>3. b \in boards /\ a \in alights
  <2>1. boards \in SUBSET (1..Len(stops)) /\ alights \in SUBSET (1..Len(stops))
    BY <1>1
  <2> HIDE DEF boards, alights
  <2> QED
    BY <1>1, <1>2, <2>1, LatestIndex
<1>4. PICK k \in b..(a - 1) : stops[k].time <= t /\ t <= stops[k + 1].time
  BY <1>2 DEF LegsAt
<1> HIDE DEF b, a
<1>5. /\ b \in 1..Len(stops) /\ v \in stops[b].board
      /\ a \in 1..Len(stops) /\ v \in stops[a].alight
  BY <1>1, <1>3
<1>6. k \in 1..Len(stops) /\ k + 1 \in 1..Len(stops) /\ b <= k /\ k + 1 <= a /\ b < a
  BY <1>1, <1>4, <1>5
<1>7. stops[b].time <= stops[k].time /\ stops[k + 1].time <= stops[a].time
  BY <1>1, <1>5, <1>6 DEF InTime
<1>8. \A i \in 1..Len(stops) : stops[i].time \in Int
  BY <1>1 DEF ReadableStops
<1>9. stops[b].time <= t /\ t <= stops[a].time
  <2>1. /\ stops[b].time \in Int /\ stops[k].time \in Int
        /\ stops[a].time \in Int /\ stops[k + 1].time \in Int
    BY <1>5, <1>6, <1>8
  <2> QED
    BY <1>4, <1>7, <2>1
<1>10. PICK i \in DOMAIN tr.stops : stops[b] = tr.stops[i]
  BY <1>1, <1>5 DEF ToSet
<1>11. PICK j \in DOMAIN tr.stops : stops[a] = tr.stops[j]
  BY <1>1, <1>5 DEF ToSet
<1> QED
  BY <1>5, <1>9, <1>10, <1>11 DEF Aboard

(* On his one ride the rider is drawn where the car is, and somewhere.       *)
LEMMA RideIsWithCar ==
  ASSUME NEW tr, IsTrip(tr), ReadableStops(tr), NEW t \in Int, NEW v,
         NEW p, p.known \subseteq Stations, \A s \in ToSet(tr.stops) : s.vs \in p.known,
         OneRide(tr, v), Aboard(tr, v, t)
  PROVE  LET legs == LegsAt(Timed(tr), 1, Len(Timed(tr)), t) IN
         /\ legs # {} /\ OnRide(p, Timed(tr), v, t) # None
         /\ Same(OnRide(p, Timed(tr), v, t), OnLeg(p, Timed(tr), Min(legs), t))
<1> PICK stops : stops = tr.stops
  OBVIOUS
<1> DEFINE n == Len(stops)
<1>1. /\ Timed(tr) = stops /\ DOMAIN stops = 1..n /\ n \in Nat
      /\ \A i, j \in 1..n : i < j => stops[i].time < stops[j].time
      /\ \A i \in 1..n : stops[i].time \in Int /\ stops[i].vs \in p.known /\ Place[stops[i].vs] \in Int
  <2>1. stops \in Seq(ToSet(stops))
    BY DEF IsTrip
  <2>2. DOMAIN stops = 1..n /\ n \in Nat /\ \A i \in 1..n : stops[i] \in ToSet(stops)
    BY <2>1, LenProperties
  <2>3. \A i \in 1..n : stops[i].time \in Int /\ stops[i].vs \in p.known
    BY <2>2 DEF ReadableStops
  <2>4. Timed(tr) = stops
    BY TimedStops DEF OneRide
  <2>5. \A i, j \in 1..n : i < j => stops[i].time < stops[j].time
    BY <2>2 DEF OneRide
  <2> QED
    BY <2>2, <2>3, <2>4, <2>5, PlaceAssumption
<1>2. PICK b \in 1..n, a \in 1..n :
        v \in stops[b].board /\ v \in stops[a].alight /\ stops[b].time <= t /\ t <= stops[a].time
  BY <1>1 DEF Aboard
<1>3. b < a
  <2>1. b # a
    BY <1>1, <1>2 DEF OneRide
  <2>2. a < b => stops[a].time < stops[b].time
    BY <1>1
  <2> QED
    BY <1>1, <1>2, <2>1, <2>2
<1> DEFINE ride == LegsAt(stops, b, a, t)
           legs == LegsAt(stops, 1, n, t)
           kr == Min(ride)
           kc == Min(legs)
<1>4. OnRide(p, stops, v, t) = IF ride = {} THEN None ELSE OnLeg(p, stops, kr, t)
  <2> DEFINE boards == {i \in DOMAIN stops : v \in stops[i].board}
             alights == {i \in DOMAIN stops : v \in stops[i].alight}
  <2>1. boards = {b}
    BY <1>1, <1>2 DEF OneRide
  <2>2. alights = {a}
    BY <1>1, <1>2 DEF OneRide
  <2>3. Max({b}) = b /\ Max({a}) = a
    BY <1>1 DEF Max
  <2>4. OnRide(p, stops, v, t) =
          IF boards = {} \/ alights = {} THEN None
          ELSE LET found == LegsAt(stops, Max(boards), Max(alights), t)
               IN  IF found = {} THEN None ELSE OnLeg(p, stops, Min(found), t)
    BY DEF OnRide
  <2> HIDE DEF boards, alights
  <2> QED
    BY <2>1, <2>2, <2>3, <2>4
<1>5. ride \subseteq legs /\ legs \subseteq 1..n
  BY <1>1 DEF LegsAt
<1>6. ride # {}
  <2> DEFINE K == {k \in b..(a - 1) : stops[k].time <= t}
  <2>1. b \in K /\ K \in SUBSET (1..n)
    BY <1>1, <1>2, <1>3
  <2>2. PICK m \in K : \A x \in K : x <= m
    <3> HIDE DEF K
    <3> QED
      BY <1>1, <2>1, LatestIndex
  <2>3. t <= stops[m + 1].time
    <3>1. CASE m = a - 1
      <4>1. m + 1 = a
        BY <1>1, <3>1
      <4> QED
        BY <1>2, <4>1
    <3>2. CASE m # a - 1
      <4>1. m + 1 \in b..(a - 1) /\ m + 1 \in 1..n /\ ~(m + 1 <= m)
        BY <1>1, <2>1, <3>2
      <4>2. ~(stops[m + 1].time <= t)
        BY <2>2, <4>1
      <4> QED
        BY <1>1, <4>1, <4>2
    <3> QED
      BY <3>1, <3>2
  <2>4. m \in ride
    BY <2>2, <2>3 DEF LegsAt
  <2> QED
    BY <2>4
<1>7. kr \in ride /\ kc \in legs /\ kc <= kr /\ \A x \in ride : kr <= x
  <2> HIDE DEF ride, legs
  <2>1. ride \in SUBSET (1..n) /\ legs \in SUBSET (1..n) /\ legs # {}
    BY <1>5, <1>6
  <2> QED
    BY <1>1, <1>5, <1>6, <2>1, LatestIndex
<1> HIDE DEF kr, kc
<1>8. /\ kr \in b..(a - 1) /\ stops[kr].time <= t /\ t <= stops[kr + 1].time
      /\ kc \in 1..(n - 1) /\ stops[kc].time <= t /\ t <= stops[kc + 1].time
  BY <1>7 DEF LegsAt
<1>9. kr \in 1..n /\ kr + 1 \in 1..n /\ kc \in 1..n /\ kc + 1 \in 1..n
  <2>1. b \in Nat /\ 1 <= b /\ a \in Nat /\ a <= n
    BY <1>1, <1>2
  <2>2. kr \in Int /\ b <= kr /\ kr <= a - 1 /\ kc \in Int /\ 1 <= kc /\ kc <= n - 1
    BY <1>1, <1>8, <2>1
  <2> QED
    BY <1>1, <2>1, <2>2
<1> DEFINE P(i) == Place[stops[i].vs]
           T(i) == stops[i].time
<1>10. ASSUME NEW k \in 1..n, k + 1 \in 1..n
       PROVE  /\ T(k + 1) - T(k) \in Nat \ {0}
              /\ OnLeg(p, stops, k, t)
                   = <<P(k) * (T(k + 1) - T(k)) + (P(k + 1) - P(k)) * (t - T(k)), T(k + 1) - T(k)>>
              /\ OnLeg(p, stops, k, t) \in Int \X Int
  <2>1. k < k + 1 /\ T(k) < T(k + 1) /\ T(k) \in Int /\ T(k + 1) \in Int
    BY <1>1, <1>10
  <2>2. {stops[k].vs, stops[k + 1].vs} \subseteq p.known
    BY <1>1, <1>10
  <2>3. T(k + 1) - T(k) \in Nat \ {0}
    <3> HIDE DEF T
    <3> QED
      BY <2>1
  <2>4. OnLeg(p, stops, k, t)
           = <<P(k) * (T(k + 1) - T(k)) + (P(k + 1) - P(k)) * (t - T(k)), T(k + 1) - T(k)>>
    BY <2>2, <2>3 DEF OnLeg, Between
  <2>5. P(k) \in Int /\ P(k + 1) \in Int /\ t - T(k) \in Int
    BY <1>1, <1>10, <2>1
  <2> HIDE DEF P, T
  <2> QED
    BY <2>3, <2>4, <2>5
<1>11. OnRide(p, stops, v, t) = OnLeg(p, stops, kr, t)
  BY <1>4, <1>6
<1>12. OnRide(p, stops, v, t) # None /\ OnLeg(p, stops, kc, t) # None
  BY <1>9, <1>10, <1>11, NoneAssumption
<1>13. CASE kc >= b
  <2>1. kc \in ride
    BY <1>1, <1>7, <1>8, <1>13 DEF LegsAt
  <2>2. kc = kr
    BY <1>1, <1>7, <1>9, <2>1
  <2>3. Same(OnRide(p, stops, v, t), OnLeg(p, stops, kc, t))
    BY <1>11, <1>12, <2>2 DEF Same
  <2> QED
    BY <1>1, <1>5, <1>6, <1>12, <2>3 DEF kc
<1>14. CASE ~(kc >= b)
  <2>1. kc + 1 = b /\ t = T(b)
    <3>1. kc + 1 < b => T(kc + 1) < T(b)
      BY <1>1, <1>2, <1>9
    <3>2. T(kc + 1) \in Int /\ T(b) \in Int /\ T(b) <= t /\ t <= T(kc + 1)
      BY <1>1, <1>2, <1>8, <1>9
    <3>3. ~(kc + 1 < b)
      <4> HIDE DEF T
      <4> QED
        BY <3>1, <3>2
    <3>4. kc + 1 = b
      BY <1>2, <1>9, <1>14, <3>3
    <3> QED
      BY <3>2, <3>4
  <2>2. kr = b
    <3>1. b \in b..(a - 1) /\ b + 1 \in 1..n
      BY <1>1, <1>2, <1>3
    <3>2. T(b) < T(b + 1) /\ T(b) \in Int /\ T(b + 1) \in Int
      BY <1>1, <3>1
    <3>3. b \in ride
      BY <2>1, <3>1, <3>2 DEF LegsAt
    <3> QED
      BY <1>1, <1>7, <1>8, <3>3
  <2> DEFINE d == T(b) - T(kc)  e == T(b + 1) - T(b)
  <2>3. OnLeg(p, stops, kc, t) = <<P(kc) * d + (P(b) - P(kc)) * d, d>>
    BY <1>9, <1>10, <2>1
  <2>4. OnLeg(p, stops, kr, t) = <<P(b) * e + (P(b + 1) - P(b)) * 0, e>>
    <3>1. t - T(b) = 0
      BY <2>1
    <3> QED
      BY <1>9, <1>10, <2>2, <3>1
  <2>5. P(kc) \in Int /\ P(b) \in Int /\ P(b + 1) \in Int /\ d \in Int /\ e \in Int
    <3>1. kc \in 1..n /\ b \in 1..n /\ b + 1 \in 1..n
      BY <1>9, <2>2
    <3>2. \A i \in 1..n : P(i) \in Int /\ T(i) \in Int
      BY <1>1
    <3> HIDE DEF P, T
    <3> QED
      BY <3>1, <3>2
  <2> HIDE DEF P, T, d, e
  <2>6. (P(b) * e + (P(b + 1) - P(b)) * 0) * d = (P(kc) * d + (P(b) - P(kc)) * d) * e
    BY <2>5
  <2>7. Same(OnLeg(p, stops, kr, t), OnLeg(p, stops, kc, t))
    BY <1>11, <1>12, <2>3, <2>4, <2>6 DEF Same
  <2> QED
    BY <1>1, <1>5, <1>6, <1>11, <1>12, <2>7 DEF kc
<1> QED
  BY <1>13, <1>14

(* Off duty, no mission in the sorted list of a volunteer covers t.         *)
LEMMA OffDuty ==
  ASSUME NEW p, IsPlanning(p), NEW v, NEW t \in Int, ~OnDuty(p, v, t)
  PROVE  {m \in DOMAIN Duties(p, v) :
            /\ Duties(p, v)[m].start <= t /\ t < Duties(p, v)[m].end
            /\ Duties(p, v)[m].vs \in p.known} = {}
<1> DEFINE missions == p.missions
           S == ToSet(missions)
           I == {i \in DOMAIN missions : /\ v \in missions[i].assigned
                                         /\ Unread \notin {missions[i].start, missions[i].end}}
           r == Duties(p, v)
           start == [i \in I |-> missions[i].start]
<1>1. missions \in Seq(S) /\ \A i \in DOMAIN missions : missions[i] \in S /\ IsMission(missions[i])
  BY DEF IsPlanning, ToSet
<1>2. r = ByTime(missions, start)
  BY DEF Duties
<1>3. start \in [I -> Int] /\ I \in SUBSET Nat /\ IsFiniteSet(I)
  <2>1. \A i \in I : missions[i].start \in Int
    BY <1>1 DEF IsMission
  <2>2. DOMAIN missions = 1..Len(missions) /\ Len(missions) \in Nat
    BY <1>1, LenProperties
  <2>3. IsFiniteSet(DOMAIN missions) /\ I \in SUBSET DOMAIN missions
    BY <2>2, FS_Interval
  <2> HIDE DEF I, missions
  <2>4. IsFiniteSet(I)
    BY <2>3, FS_Subset
  <2> QED
    BY <2>1, <2>2, <2>3, <2>4
<1> HIDE DEF start, I
<1>4. Sorts(missions, I, start)
  <2> HIDE DEF missions
  <2> QED
    BY <1>3, ByTimeSorts
<1>5. ASSUME NEW m \in DOMAIN r PROVE \E i \in I : r[m] = missions[i]
  BY <1>2, <1>4 DEF Sorts
<1>6. ASSUME NEW m \in DOMAIN r, r[m].start <= t, t < r[m].end PROVE FALSE
  <2>1. PICK i \in I : r[m] = missions[i]
    BY <1>5
  <2>2. /\ missions[i] \in S /\ v \in missions[i].assigned
        /\ Unread \notin {missions[i].start, missions[i].end}
    BY <1>1 DEF I
  <2> QED
    BY <1>6, <2>1, <2>2 DEF OnDuty
<1> QED
  BY <1>6

(* The first trip of the volunteer that is under way is one he is aboard    *)
(* of, and the first trip of its car that is under way is that trip: both   *)
(* are then on the same leg, or on two legs that meet at t.                 *)
LEMMA RiderWithCar ==
  ASSUME NEW p, IsPlanning(p), Stops(p), NEW v, NEW t \in Int, ~OnDuty(p, v, t),
         NEW ride \in ToSet(p.trips), Aboard(ride, v, t),
         \A tr \in ToSet(p.trips) : Aboard(tr, v, t) => OneRide(tr, v),
         \A tr, x \in ToSet(p.trips) :
           Aboard(tr, v, t) /\ x.car = tr.car /\ Running(x, t) => x = tr
  PROVE  \E tr \in ToSet(p.trips) :
           Aboard(tr, v, t) /\ Same(VolunteerPosition(p, v, t), CarPosition(p, tr.car, t))
<1> PICK trips : trips = p.trips
  OBVIOUS
<1> DEFINE n == Len(trips)
           on(i) == OnRide(p, Timed(trips[i]), v, t)
           R == {i \in DOMAIN trips : on(i) # None}
           m == Min(R)
           tr == trips[m]
           legs(i) == LegsAt(Timed(trips[i]), 1, Len(Timed(trips[i])), t)
           under(i) == IF trips[i].car = tr.car THEN legs(i) ELSE {}
           Q == {i \in DOMAIN trips : under(i) # {}}
           q == Min(Q)
<1>1. /\ DOMAIN trips = 1..n /\ n \in Nat /\ ToSet(trips) = {trips[i] : i \in 1..n}
      /\ p.known \subseteq Stations
      /\ \A i \in 1..n : /\ trips[i] \in ToSet(p.trips) /\ IsTrip(trips[i]) /\ ReadableStops(trips[i])
                         /\ \A s \in ToSet(trips[i].stops) : s.vs \in p.known
  <2>1. trips \in Seq(ToSet(trips))
    BY DEF IsPlanning
  <2>2. DOMAIN trips = 1..n /\ n \in Nat
    BY <2>1, LenProperties
  <2> QED
    <3>1. ToSet(trips) = {trips[i] : i \in 1..n} /\ ToSet(p.trips) = ToSet(trips)
      BY <2>2 DEF ToSet
    <3>2. \A i \in 1..n : trips[i] \in ToSet(p.trips)
      BY <3>1
    <3>3. /\ p.known \subseteq Stations
          /\ \A x \in ToSet(p.trips) :
               IsTrip(x) /\ ReadableStops(x) /\ \A s \in ToSet(x.stops) : s.vs \in p.known
      BY DEF IsPlanning, Stops
    <3> QED
      BY <2>2, <3>1, <3>2, <3>3
<1>2. ASSUME NEW i \in 1..n, Aboard(trips[i], v, t)
      PROVE  /\ legs(i) # {} /\ on(i) # None
             /\ Same(on(i), OnLeg(p, Timed(trips[i]), Min(legs(i)), t))
  <2>1. OneRide(trips[i], v)
    BY <1>1, <1>2
  <2>2. PICK x : x = trips[i]
    OBVIOUS
  <2>3. /\ LegsAt(Timed(x), 1, Len(Timed(x)), t) # {} /\ OnRide(p, Timed(x), v, t) # None
        /\ Same(OnRide(p, Timed(x), v, t), OnLeg(p, Timed(x), Min(LegsAt(Timed(x), 1, Len(Timed(x)), t)), t))
    BY <1>1, <1>2, <2>1, <2>2, RideIsWithCar
  <2> QED
    BY <2>2, <2>3
<1>3. R # {}
  <2>1. PICK i \in 1..n : ride = trips[i]
    BY <1>1
  <2> QED
    BY <1>1, <1>2, <2>1
<1>4. m \in 1..n /\ on(m) # None
  <2>1. R \in SUBSET (1..n)
    BY <1>1
  <2>2. m \in R
    <3> HIDE DEF R
    <3> QED
      BY <1>1, <1>3, <2>1, LatestIndex
  <2> HIDE DEF m
  <2> QED
    BY <1>1, <2>2
<1> HIDE DEF m
<1>5. Aboard(tr, v, t) /\ tr \in ToSet(p.trips)
  BY <1>1, <1>4, RideIsAboard
<1>6. VolunteerPosition(p, v, t) = on(m)
  <2>1. VolunteerPosition(p, v, t) = IF R # {} THEN OnRide(p, Timed(trips[Min(R)]), v, t) ELSE Home(p, v)
    <3> DEFINE D == {j \in DOMAIN Duties(p, v) :
                       /\ Duties(p, v)[j].start <= t /\ t < Duties(p, v)[j].end
                       /\ Duties(p, v)[j].vs \in p.known}
    <3>1. D = {}
      <4> HIDE DEF D
      <4> QED
        BY OffDuty DEF D
    <3>2. VolunteerPosition(p, v, t)
            = IF D # {} THEN At(Duties(p, v)[Min(D)].vs)
              ELSE IF R # {} THEN OnRide(p, Timed(trips[Min(R)]), v, t) ELSE Home(p, v)
      BY DEF VolunteerPosition
    <3> HIDE DEF D, R
    <3> QED
      BY <3>1, <3>2
  <2> HIDE DEF R
  <2> QED
    BY <1>3, <2>1 DEF m
<1>7. m \in Q
  BY <1>1, <1>2, <1>4, <1>5
<1>8. q \in 1..n /\ under(q) # {}
  <2>1. Q \in SUBSET (1..n) /\ Q # {}
    BY <1>1, <1>7
  <2>2. q \in Q
    <3> HIDE DEF Q
    <3> QED
      BY <1>1, <2>1, LatestIndex
  <2> HIDE DEF q
  <2> QED
    BY <1>1, <2>2
<1>9. CarPosition(p, tr.car, t) = OnLeg(p, Timed(trips[q]), Min(under(q)), t)
  <2>1. Q # {}
    BY <1>7
  <2> QED
    BY <2>1 DEF CarPosition
<1> HIDE DEF q
<1>10. trips[q].car = tr.car /\ legs(q) # {} /\ under(q) = legs(q)
  BY <1>8
<1>11. Running(trips[q], t)
  <2>1. PICK x : x = trips[q]
    OBVIOUS
  <2>2. PICK k \in LegsAt(Timed(x), 1, Len(Timed(x)), t) : TRUE
    BY <1>10, <2>1
  <2> QED
    BY <1>1, <1>8, <2>1, <2>2, LegIsRunning
<1>12. trips[q] = tr
  BY <1>1, <1>5, <1>8, <1>10, <1>11
<1>13. Same(on(m), OnLeg(p, Timed(tr), Min(legs(m)), t))
  BY <1>2, <1>4, <1>5
<1>14. CarPosition(p, tr.car, t) = OnLeg(p, Timed(tr), Min(legs(m)), t)
  BY <1>9, <1>10, <1>12
<1> QED
  BY <1>5, <1>6, <1>13, <1>14

(* What the page sees of a plan is a plan, whichever queries have answered. *)
LEMMA ViewIsPlanning ==
  ASSUME TypeOK
  PROVE  IsPlanning(View)
<1> DEFINE free == [i \in DOMAIN plan.missions |-> [plan.missions[i] EXCEPT !.assigned = {}]]
<1>1. IsPlanning(plan) /\ IsRace(plan)
  BY PlansAssumption DEF TypeOK
<1>2. /\ DOMAIN View = DOMAIN plan /\ View.known = plan.known /\ View.trips = plan.trips
      /\ View.warnings = plan.warnings
      /\ View.missions = IF "assignments" \in late THEN plan.missions ELSE free
  BY <1>1 DEF View, Seen, IsPlanning, IsRace
<1>3. CASE "assignments" \in late
  BY <1>1, <1>2, <1>3 DEF IsPlanning
<1>4. CASE "assignments" \notin late
  <2>1. /\ DOMAIN free = DOMAIN plan.missions
        /\ \A i \in DOMAIN free :
             /\ free[i] = [plan.missions[i] EXCEPT !.assigned = {}]
             /\ plan.missions[i] \in ToSet(plan.missions) /\ IsMission(plan.missions[i])
    BY <1>1 DEF IsPlanning, ToSet
  <2>2. \A i \in DOMAIN free : /\ free[i].id = plan.missions[i].id /\ IsMission(free[i])
    BY <2>1 DEF IsMission
  <2>3. /\ plan.missions \in Seq(ToSet(plan.missions))
        /\ DOMAIN plan.missions = 1..Len(plan.missions) /\ Len(plan.missions) \in Nat
    BY <1>1, LenProperties DEF IsPlanning
  <2> HIDE DEF free
  <2>4. free \in Seq(ToSet(free))
    <3>1. free = [i \in 1..Len(plan.missions) |-> free[i]]
      BY <2>3 DEF free
    <3>2. \A i \in 1..Len(plan.missions) : free[i] \in ToSet(free)
      BY <2>1, <2>3 DEF ToSet
    <3>3. free \in [1..Len(plan.missions) -> ToSet(free)]
      BY <3>1, <3>2
    <3> QED
      BY <2>3, <3>3, SeqDef
  <2>5. \A m \in ToSet(free) : IsMission(m)
    BY <2>2 DEF ToSet
  <2>6. \A m, o \in ToSet(free) : m.id = o.id => m = o
    <3> SUFFICES ASSUME NEW i \in DOMAIN free, NEW j \in DOMAIN free, free[i].id = free[j].id
                 PROVE  free[i] = free[j]
      BY DEF ToSet
    <3>1. plan.missions[i] = plan.missions[j]
      BY <1>1, <2>1, <2>2 DEF IsPlanning
    <3> QED
      BY <2>1, <3>1
  <2> QED
    BY <1>1, <1>2, <1>4, <2>4, <2>5, <2>6 DEF IsPlanning
<1> QED
  BY <1>3, <1>4

(* The same at the cursor, for every volunteer.                             *)
LEMMA RidersPlaced ==
  ASSUME TypeOK
  PROVE  RidersMoveWithTheirCar
<1> PICK p : p = View
  OBVIOUS
<1> PICK t : t = cursor
  OBVIOUS
<1>1. IsPlanning(p) /\ t \in Int
  BY ViewIsPlanning DEF TypeOK
<1> SUFFICES ASSUME NEW v \in Volunteers, 
                    \A tr \in ToSet(p.trips) : {s.vs : s \in ToSet(tr.stops)} \subseteq p.known,
                    \A tr \in ToSet(p.trips) : Unread \notin {s.time : s \in ToSet(tr.stops)},
                    {tr \in ToSet(p.trips) : Aboard(tr, v, t)} # {},
                    \A tr \in {x \in ToSet(p.trips) : Aboard(x, v, t)} : OneRide(tr, v),
                    \A tr \in {y \in ToSet(p.trips) : Aboard(y, v, t)}, x \in ToSet(p.trips) :
                      x.car = tr.car /\ Running(x, t) => x = tr,
                    ~OnDuty(p, v, t)
             PROVE  \E tr \in {x \in ToSet(p.trips) : Aboard(x, v, t)} :
                      Same(VolunteerPosition(p, v, t), CarPosition(p, tr.car, t))
  BY DEF RidersMoveWithTheirCar
<1>2. Stops(p)
  <2> SUFFICES ASSUME NEW tr \in ToSet(p.trips), NEW s \in ToSet(tr.stops)
               PROVE  s.time \in Int /\ s.vs \in p.known
    BY DEF Stops, ReadableStops
  <2>1. s.time \in Int \cup {Unread} /\ s.time # Unread /\ s.vs \in p.known
    BY <1>1 DEF IsPlanning, IsTrip
  <2> QED
    BY <2>1
<1>3. PICK ride \in ToSet(p.trips) : Aboard(ride, v, t)
  OBVIOUS
<1>4. \E tr \in ToSet(p.trips) :
        Aboard(tr, v, t) /\ Same(VolunteerPosition(p, v, t), CarPosition(p, tr.car, t))
  BY <1>1, <1>2, <1>3, RiderWithCar
<1> QED
  BY <1>4

(* drawWarningBorder picks the gravest severity of the warnings it is       *)
(* given, staffing left out.                                                *)
LEMMA BorderIsGravest ==
  ASSUME NEW ws, \A w \in ws : w.severity \in Severities
  PROVE  GravestOf({w.severity : w \in {x \in ws : ~Staffing(x)}}, Border(ws))
<1> DEFINE about == {w.severity : w \in {x \in ws : x.kind \notin {"understaffed", "overstaffed"}}}
<1>1. about \subseteq {"error", "warn", "info"}
  BY DEF Severities
<1>2. Border(ws) = CASE "error" \in about -> "error"
                     [] "error" \notin about /\ "warn" \in about -> "warn"
                     [] about = {"info"} -> "info"
                     [] OTHER -> None
  BY DEF Border
<1>3. {w.severity : w \in {x \in ws : ~Staffing(x)}} = about
  BY DEF Staffing
<1> HIDE DEF about
<1>4. None # "error" /\ None # "warn" /\ None # "info"
  BY RowsAssumption DEF Severities
<1> PICK mark : mark = Border(ws)
  OBVIOUS
<1>5. GravestOf(about, mark)
  <2>1. CASE "error" \in about
    <3>1. mark = "error"
      BY <1>2, <2>1
    <3> QED
      BY <1>4, <2>1, <3>1 DEF GravestOf
  <2>2. CASE "error" \notin about /\ "warn" \in about
    <3>1. mark = "warn"
      BY <1>2, <2>2
    <3> QED
      BY <1>4, <2>2, <3>1 DEF GravestOf
  <2>3. CASE about = {"info"}
    <3>1. mark = "info"
      BY <1>2, <2>3
    <3> QED
      BY <1>4, <2>3, <3>1 DEF GravestOf
  <2>4. CASE about = {}
    <3>1. mark = None
      BY <1>2, <2>4
    <3> QED
      BY <2>4, <3>1 DEF GravestOf
  <2> QED
    BY <1>1, <2>1, <2>2, <2>3, <2>4
<1> QED
  BY <1>3, <1>5

(* Hence a bar is marked rightly when the lookup returns the warnings about *)
(* it.                                                                      *)
LEMMA MarkIsGravest ==
  ASSUME NEW p, IsPlanning(p), NEW bar, NEW ws,
         ws = {w \in ToSet(p.warnings) : Concerns(w, bar, p)},
         Marked(bar, p) = Border(ws)
  PROVE  GravestOf(About(p, bar), Marked(bar, p))
<1>1. \A w \in ws : w.severity \in Severities
  BY DEF IsPlanning, IsWarning
<1>2. GravestOf({w.severity : w \in {x \in ws : ~Staffing(x)}}, Border(ws))
  BY <1>1, BorderIsGravest
<1>3. {x \in ws : ~Staffing(x)} = {x \in ToSet(p.warnings) : Concerns(x, bar, p) /\ ~Staffing(x)}
  OBVIOUS
<1> QED
  BY <1>2, <1>3 DEF About

(* No warning is about a race bar, and none is drawn on it.                 *)
LEMMA RaceBarsUnmarked ==
  ASSUME NEW p, NEW bar \in RaceBars(p)
  PROVE  GravestOf(About(p, bar), Marked(bar, p))
<1>1. bar.row \in {"race-front", "race-tail"}
  BY DEF RaceBars, Legs
<1>2. bar.row \notin Stations /\ bar.row \notin Cars
  BY <1>1, RowsAssumption
<1>3. Marked(bar, p) = None
  BY <1>2 DEF Marked
<1>4. \A w : ~Concerns(w, bar, p)
  BY <1>2 DEF Concerns
<1>5. About(p, bar) = {}
  BY <1>4 DEF About
<1> QED
  BY <1>3, <1>5 DEF GravestOf

(* The lookup by mission returns the warnings that name the mission of the  *)
(* bar.                                                                     *)
LEMMA MissionBarsMarked ==
  ASSUME NEW p, IsPlanning(p), NEW bar \in MissionBars(p)
  PROVE  GravestOf(About(p, bar), Marked(bar, p))
<1>1. PICK m \in ToSet(p.missions) : bar.row = m.vs /\ bar.of = m.id
  BY DEF MissionBars
<1>2. bar.row \in Stations /\ bar.row \notin Cars
  BY <1>1, RowsAssumption DEF IsPlanning, IsMission
<1> PICK ws : ws = WarningsByMission(p, bar.of)
  OBVIOUS
<1>3. Marked(bar, p) = Border(ws)
  BY <1>2 DEF Marked
<1>4. ASSUME NEW w \in ToSet(p.warnings)
      PROVE  Concerns(w, bar, p) <=> bar.of \in MissionsOf(p, w)
  <2>1. bar.of \in {x.id : x \in ToSet(p.missions)}
    BY <1>1
  <2>2. Concerns(w, bar, p) <=>
          bar.of \in ToSet(w.missions) /\ w.kind \notin StopKinds \cup BookingKinds \cup NoBarKinds
    BY <1>2 DEF Concerns
  <2> QED
    BY <2>1, <2>2 DEF MissionsOf
<1>5. ws = {w \in ToSet(p.warnings) : Concerns(w, bar, p)}
  BY <1>4 DEF WarningsByMission
<1> QED
  BY <1>3, <1>5, MarkIsGravest

(* On a trip in order a warning reaches the legs that touch its stops.       *)
LEMMA LegsTouched ==
  ASSUME NEW tr, IsTrip(tr), ReadableStops(tr), OrderedTrip(tr),
         NEW w, IsWarning(w), Matches(tr, w), tr.id \in w.trips,
         NEW i \in 1..(Len(tr.stops) - 1)
  PROVE  i \in LegsOf(tr, w) <=>
           \/ w.kind \in BookingKinds \cup {"insufficient_travel"}
           \/ /\ w.kind \in StopKinds
              /\ \E s \in ToSet(tr.stops) :
                   s.id \in w.stops /\ s.time \in {tr.stops[i].time, tr.stops[i + 1].time}
<1> PICK stops : stops = tr.stops
  OBVIOUS
<1>1. /\ DOMAIN stops = 1..Len(stops) /\ Len(stops) \in Nat
      /\ ToSet(stops) = {stops[k] : k \in 1..Len(stops)}
  <2>1. stops \in Seq(ToSet(stops))
    BY DEF IsTrip
  <2> QED
    BY <2>1, LenProperties DEF ToSet
<1>2. i \in 1..Len(stops) /\ i + 1 \in 1..Len(stops)
  BY <1>1
<1>3. CASE w.kind \notin StopKinds
  BY <1>3 DEF LegsOf
<1>4. CASE w.kind \in StopKinds
  <2>1. w.stops # {} /\ w.stops \subseteq {s.id : s \in ToSet(stops)} /\ None \notin w.stops
    BY <1>4 DEF Matches, IsWarning
  <2>2. \E s \in ToSet(stops) : s.id # None
    BY <2>1
  <2>3. w.stops \ {None} = w.stops
    BY <2>1
  <2>4. i \in LegsOf(tr, w) <=> {stops[i].id, stops[i + 1].id} \cap w.stops # {}
    <3>1. LegsOf(tr, w) = {k \in 1..Len(stops) - 1 : {stops[k].id, stops[k + 1].id} \cap (w.stops \ {None}) # {}}
      BY <1>4, <2>1, <2>2 DEF LegsOf
    <3> QED
      BY <2>3, <3>1
  <2>5. w.kind \notin BookingKinds \cup {"insufficient_travel"}
    BY <1>4 DEF StopKinds, BookingKinds
  <2>6. ASSUME NEW k \in 1..Len(stops)
        PROVE  stops[k].time \in {stops[i].time, stops[i + 1].time} <=> k \in {i, i + 1}
    <3>1. \A x, y \in 1..Len(stops) : x < y => stops[x].time < stops[y].time
      BY <1>1 DEF OrderedTrip
    <3>2. \A x \in 1..Len(stops) : stops[x].time \in Int
      BY <1>1 DEF ReadableStops
    <3>3. \A x, y \in 1..Len(stops) : stops[x].time = stops[y].time => x = y
      <4> SUFFICES ASSUME NEW x \in 1..Len(stops), NEW y \in 1..Len(stops), x # y
                   PROVE  stops[x].time # stops[y].time
        OBVIOUS
      <4>1. x < y \/ y < x
        BY <1>1
      <4>2. stops[x].time < stops[y].time \/ stops[y].time < stops[x].time
        BY <3>1, <4>1
      <4> QED
        BY <3>2, <4>2
    <3> QED
      BY <1>2, <3>3
  <2>7. (\E s \in ToSet(stops) : s.id \in w.stops /\ s.time \in {stops[i].time, stops[i + 1].time})
          <=> {stops[i].id, stops[i + 1].id} \cap w.stops # {}
    <3>1. ASSUME NEW s \in ToSet(stops), s.id \in w.stops, s.time \in {stops[i].time, stops[i + 1].time}
          PROVE  {stops[i].id, stops[i + 1].id} \cap w.stops # {}
      <4>1. PICK k \in 1..Len(stops) : s = stops[k]
        BY <1>1
      <4>2. k \in {i, i + 1}
        BY <2>6, <3>1, <4>1
      <4> QED
        BY <3>1, <4>1, <4>2
    <3>2. ASSUME NEW k \in {i, i + 1}, stops[k].id \in w.stops
          PROVE  \E s \in ToSet(stops) : s.id \in w.stops /\ s.time \in {stops[i].time, stops[i + 1].time}
      BY <1>1, <1>2, <3>2
    <3> QED
      BY <3>1, <3>2
  <2> QED
    BY <1>4, <2>4, <2>5, <2>7
<1> QED
  BY <1>3, <1>4

(* The lookup by leg returns the warnings about the trip of the bar, or     *)
(* about a stop at one of its ends: the bars of an ordered trip have the    *)
(* rank of their leg.                                                       *)
LEMMA LegBarsMarked ==
  ASSUME NEW p, IsPlanning(p), \A tr \in ToSet(p.trips) : ReadableStops(tr) /\ OrderedTrip(tr),
         \A w \in ToSet(p.warnings), tr \in ToSet(p.trips) : Matches(tr, w),
         NEW bar \in LegBars(p)
  PROVE  GravestOf(About(p, bar), Marked(bar, p))
<1>1. PICK tr \in ToSet(p.trips) :
        \E i \in 1..(Len(tr.stops) - 1) :
          bar = [row |-> tr.car, from |-> tr.stops[i].time, to |-> tr.stops[i + 1].time,
                 of |-> tr.id, leg |-> i]
  <2> DEFINE stops(x) == IF Unread \in {s.time : s \in ToSet(x.stops)} THEN x.stops ELSE Timed(x)
             bars(x) == {[row |-> x.car, from |-> stops(x)[k].time,
                          to |-> stops(x)[k + 1].time, of |-> x.id, leg |-> k] :
                           k \in 1 .. Len(stops(x)) - 1}
  <2>1. PICK x \in ToSet(p.trips) : bar \in bars(x)
    BY DEF LegBars
  <2>2. stops(x) = x.stops
    <3>1. IsTrip(x) /\ ReadableStops(x) /\ OrderedTrip(x)
      BY DEF IsPlanning
    <3> QED
      BY <3>1, TimedStops DEF OrderedTrip
  <2> HIDE DEF stops
  <2>3. \E k \in 1..(Len(x.stops) - 1) :
          bar = [row |-> x.car, from |-> x.stops[k].time, to |-> x.stops[k + 1].time,
                 of |-> x.id, leg |-> k]
    BY <2>1, <2>2
  <2> QED
    BY <2>3
<1> PICK i \in 1..(Len(tr.stops) - 1) :
      bar = [row |-> tr.car, from |-> tr.stops[i].time, to |-> tr.stops[i + 1].time,
             of |-> tr.id, leg |-> i]
  BY <1>1
<1>2. IsTrip(tr) /\ ReadableStops(tr) /\ OrderedTrip(tr) /\ bar.row \in Cars /\ bar.row \notin Stations
  BY <1>1, RowsAssumption DEF IsPlanning, IsTrip
<1>3. \A x \in ToSet(p.trips) : x.id = bar.of <=> x = tr
  BY <1>1 DEF IsPlanning
<1>4. (CHOOSE x \in ToSet(p.trips) : x.id = bar.of) = tr
  BY <1>3
<1> PICK ws : ws = WarningsByTripLeg(p, tr, i)
  OBVIOUS
<1>5. Marked(bar, p) = Border(ws)
  BY <1>1, <1>2, <1>4 DEF Marked
<1>6. ASSUME NEW w \in ToSet(p.warnings)
      PROVE  Concerns(w, bar, p) <=> tr.id \in w.trips /\ i \in LegsOf(tr, w)
  <2>1. Concerns(w, bar, p) <=>
          /\ tr.id \in w.trips
          /\ \/ w.kind \in BookingKinds \cup {"insufficient_travel"}
             \/ /\ w.kind \in StopKinds
                /\ \E s \in ToSet(tr.stops) : s.id \in w.stops /\ s.time \in {bar.from, bar.to}
    BY <1>2, <1>3 DEF Concerns
  <2>2. IsWarning(w) /\ Matches(tr, w)
    BY DEF IsPlanning
  <2>3. bar.from = tr.stops[i].time /\ bar.to = tr.stops[i + 1].time
    BY <1>1
  <2> QED
    BY <1>2, <2>1, <2>2, <2>3, LegsTouched
<1>7. ws = {w \in ToSet(p.warnings) : Concerns(w, bar, p)}
  BY <1>6 DEF WarningsByTripLeg
<1> QED
  BY <1>5, <1>7, MarkIsGravest

(* The start of a mission on screen is its own.                             *)
LEMMA StartsAreOwn ==
  ASSUME NEW p, IsPlanning(p), NEW m \in ToSet(p.missions), m.start # Unread
  PROVE  MissionStart(p, m.id) = m.start /\ m.start \in Int
<1> PICK ms : ms = {x \in ToSet(p.missions) : x.id = m.id /\ x.start # Unread}
  OBVIOUS
<1>1. ms = {m}
  BY DEF IsPlanning
<1>2. MissionStart(p, m.id)
        = IF ms = {} THEN Max(Times(p) \ {None, Unread}) + 1 ELSE (CHOOSE x \in ms : TRUE).start
  BY DEF MissionStart
<1>3. m.start \in Int
  BY DEF IsPlanning, IsMission
<1> QED
  BY <1>1, <1>2, <1>3

(* Sorted by start, the first mission of a stranded warning does not start  *)
(* after the last.                                                          *)
LEMMA TurnsInOrder ==
  ASSUME NEW p, IsPlanning(p), NEW w, IsWarning(w), w.kind = "stranded", OnScreen(p, w), Len(w.missions) >= 2
  PROVE  \E o, l \in ToSet(p.missions) :
           Head(InTurn(p, w)) = o.id /\ Last(InTurn(p, w)) = l.id /\ o.start <= l.start
<1> DEFINE ids == w.missions
           I == DOMAIN ids
           time == [i \in I |-> MissionStart(p, ids[i])]
           r == InTurn(p, w)
           n == Cardinality(I)
<1>1. I = 1..Len(ids) /\ Len(ids) \in Nat /\ Len(ids) >= 2
  <2>1. ids \in Seq(ToSet(ids))
    BY DEF IsWarning
  <2> QED
    BY <2>1, LenProperties
<1>2. n = Len(ids) /\ IsFiniteSet(I) /\ I \in SUBSET Nat
  BY <1>1, FS_Interval
<1>3. ASSUME NEW i \in I
      PROVE  \E m \in ToSet(p.missions) : ids[i] = m.id /\ time[i] = m.start /\ m.start \in Int
  <2>1. ids[i] \in ToSet(ids)
    BY DEF ToSet
  <2>2. PICK m \in ToSet(p.missions) : ids[i] = m.id /\ Unread \notin {m.start, m.end}
    BY <2>1 DEF OnScreen
  <2>3. MissionStart(p, m.id) = m.start /\ m.start \in Int
    BY <2>2, StartsAreOwn
  <2> QED
    BY <2>2, <2>3
<1>4. time \in [I -> Int] /\ r = ByTime(ids, time)
  BY <1>3 DEF InTurn
<1> HIDE DEF time, r, ids
<1>5. PICK order \in [1..n -> I] :
        /\ ByTime(ids, time) = [k \in 1..n |-> ids[order[k]]]
        /\ \A k, l \in 1..n : k < l =>
             \/ time[order[k]] < time[order[l]]
             \/ time[order[k]] = time[order[l]] /\ order[k] < order[l]
  <2> HIDE DEF I
  <2>1. Sorts(ids, I, time)
    BY <1>2, <1>4, ByTimeSorts
  <2> QED
    BY <2>1 DEF Sorts
<1> HIDE DEF I, n
<1>6. 1 \in 1..n /\ n \in 1..n /\ 1 < n
  BY <1>1, <1>2
<1>7. r = [k \in 1..n |-> ids[order[k]]]
  BY <1>4, <1>5
<1>8. Head(r) = ids[order[1]] /\ Last(r) = ids[order[n]]
  <2>1. Len(r) = n
    BY <1>2, <1>6, <1>7
  <2>2. r[1] = ids[order[1]] /\ r[n] = ids[order[n]]
    BY <1>6, <1>7
  <2>3. Head(r) = r[1]
    <3>1. r \in Seq({ids[i] : i \in I})
      <4>1. r \in [1..n -> {ids[i] : i \in I}] /\ n \in Nat
        BY <1>1, <1>2, <1>7
      <4> QED
        BY <4>1, SeqDef
    <3>2. r # << >>
      BY <1>6, <2>1
    <3> QED
      BY <3>1, <3>2, HeadTailProperties
  <2> QED
    BY <2>1, <2>2, <2>3 DEF Last
<1>9. order[1] \in I /\ order[n] \in I
  BY <1>6
<1>10. PICK o \in ToSet(p.missions) :
         ids[order[1]] = o.id /\ time[order[1]] = o.start /\ o.start \in Int
  BY <1>3, <1>9
<1>11. PICK l \in ToSet(p.missions) :
         ids[order[n]] = l.id /\ time[order[n]] = l.start /\ l.start \in Int
  BY <1>3, <1>9
<1>12. o.start <= l.start
  <2>1. \/ time[order[1]] < time[order[n]]
        \/ time[order[1]] = time[order[n]] /\ order[1] < order[n]
    BY <1>5, <1>6
  <2> QED
    BY <1>10, <1>11, <2>1
<1>13. Head(r) = o.id /\ Last(r) = l.id
  BY <1>8, <1>10, <1>11
<1> QED
  BY <1>12, <1>13 DEF r

(* Hence a triangle pointing left stands on a mission that starts no        *)
(* earlier than one with a triangle pointing right.                         *)
LEMMA TrianglesPointForward ==
  ASSUME NEW p, IsPlanning(p),
         \A w \in ToSet(p.warnings) : OnScreen(p, w),
         NEW m \in ToSet(p.missions), m.id \in Stranded(p).left
  PROVE  \E o \in ToSet(p.missions) : o.id \in Stranded(p).right /\ o.start <= m.start
<1> DEFINE pairs == {w \in ToSet(p.warnings) :
                       w.kind = "stranded" /\ MissionsOf(p, w) # {} /\ Len(w.missions) >= 2}
           marked == {w \in pairs : Head(InTurn(p, w)) # Last(InTurn(p, w))}
<1>1. /\ Stranded(p).left = {Last(InTurn(p, w)) : w \in marked}
      /\ Stranded(p).right = {Head(InTurn(p, w)) : w \in marked}
  BY DEF Stranded
<1>2. PICK w \in marked : m.id = Last(InTurn(p, w))
  BY <1>1
<1>3. IsWarning(w) /\ w.kind = "stranded" /\ OnScreen(p, w) /\ Len(w.missions) >= 2
  BY DEF IsPlanning
<1>4. PICK o \in ToSet(p.missions), l \in ToSet(p.missions) :
        Head(InTurn(p, w)) = o.id /\ Last(InTurn(p, w)) = l.id /\ o.start <= l.start
  BY <1>3, TurnsInOrder
<1>5. l = m
  BY <1>2, <1>4 DEF IsPlanning
<1>6. o.id \in Stranded(p).right
  BY <1>1, <1>4
<1> QED
  BY <1>4, <1>5, <1>6

(* The three kinds of bars and the triangles together.                      *)
LEMMA AlarmsMarked ==
  ASSUME TypeOK
  PROVE  AlarmsAreMarked
<1> PICK p : p = View
  OBVIOUS
<1>1. IsPlanning(p)
  BY ViewIsPlanning
<1> SUFFICES ASSUME Current(p)
             PROVE  /\ \A bar \in Bars(p) : GravestOf(About(p, bar), Marked(bar, p))
                    /\ \A m \in ToSet(p.missions) :
                         m.id \in Stranded(p).left => \E o \in ToSet(p.missions) :
                           o.id \in Stranded(p).right /\ o.start <= m.start
  BY DEF AlarmsAreMarked
<1>2. \A tr \in ToSet(p.trips) : ReadableStops(tr)
  BY <1>1 DEF ReadableStops, IsPlanning, IsTrip, Current, OrderedTrip
<1>3. ASSUME NEW bar \in Bars(p)
      PROVE  GravestOf(About(p, bar), Marked(bar, p))
  <2>1. CASE bar \in RaceBars(p)
    BY <2>1, RaceBarsUnmarked
  <2>2. CASE bar \in MissionBars(p)
    BY <1>1, <2>2, MissionBarsMarked
  <2>3. CASE bar \in LegBars(p)
    BY <1>1, <1>2, <2>3, LegBarsMarked DEF Current
  <2> QED
    BY <2>1, <2>2, <2>3 DEF Bars
<1>4. ASSUME NEW m \in ToSet(p.missions), m.id \in Stranded(p).left
      PROVE  \E o \in ToSet(p.missions) : o.id \in Stranded(p).right /\ o.start <= m.start
  BY <1>1, <1>4, TrianglesPointForward DEF Current
<1> QED
  BY <1>3, <1>4

(* In every state, when what the warnings name is still on screen, each bar *)
(* of the chart carries the gravest of the warnings about it and no other   *)
(* mark, and the triangles of a stranded volunteer point from an earlier    *)
(* mission to a later one: buildWarningLookups, drawWarningBorder and       *)
(* buildStrandedPairs.                                                      *)
THEOREM BarsCarryTheirAlarms == Spec => []AlarmsAreMarked
<1>1. TypeOK => AlarmsAreMarked
  BY AlarmsMarked
<1> QED
  BY <1>1, ChronologieTypes, PTL

(* In every state, from his board to his alight and unless he is on duty, a *)
(* volunteer is drawn where his car is drawn, when it has no other trip     *)
(* then: VolunteerPosition and CarPosition agree although they look for the *)
(* leg among different stops.                                               *)
THEOREM RidersStayWithTheirCar == Spec => []RidersMoveWithTheirCar
<1>1. TypeOK => RidersMoveWithTheirCar
  BY RidersPlaced
<1> QED
  BY <1>1, ChronologieTypes, PTL
=================================================================================
