----------------------------- MODULE RaceProofs -----------------------------
(***************************************************************************)
(* Race timing, for every number of trials, stations, requests and         *)
(* missions.  In this order:                                               *)
(*   - the tags of missions: no scrub costs a mission the tag of a race    *)
(*     that exists (TagsInv);                                              *)
(*   - the recompute: the walk hands the arrivals of one trial on to the   *)
(*     next, and what it hands on is the envelope that Exact states        *)
(*     without a walk (RecomputedExact);                                   *)
(*   - the handlers keep the tables in shape (HandledSound, SmallKept);    *)
(*   - requests that overlap: a plan that is current is the one a request  *)
(*     would read now (TimingInv);                                         *)
(*   - one page beside other browsers (PageInv);                           *)
(*   - all of it together: DeskInv, which is inductive, and the theorems   *)
(*     of RaceDesk's Spec.                                                 *)
(***************************************************************************)
EXTENDS RaceDesk, Induction, SequenceTheorems

(* The list a scrub is to write back is the one the mission has, less the    *)
(* race of the scrub, unless the mission was patched since it was read.      *)
KeptIsCurrent == \A m \in pending \ crossed : kept[m] = tags[m] \ {scrub}
(* The race of the scrub is gone already: to write back drops no live tag.   *)
ScrubIsOfAGoneRace == scrub \notin races
IdleScrubHasNothingLeft == scrub = NoRace => pending = {}

TagsInv ==
  /\ TagsTypeOK
  /\ KeptIsCurrent
  /\ ScrubIsOfAGoneRace
  /\ IdleScrubHasNothingLeft
  /\ LiveTagsSurvive

-----------------------------------------------------------------------------
LEMMA TagsStart == TagsInit => TagsInv
<1>1. NoRace \notin Races
  BY RaceTagsAssumption
<1> QED
  BY <1>1 DEF TagsInit, TagsInv, TagsTypeOK, KeptIsCurrent, ScrubIsOfAGoneRace,
              IdleScrubHasNothingLeft, LiveTagsSurvive

LEMMA TypeStep == TagsInv /\ [TagsNext]_tagVars => TagsTypeOK'
<1> SUFFICES ASSUME TagsInv, [TagsNext]_tagVars PROVE TagsTypeOK'
  OBVIOUS
<1> USE DEF TagsInv, TagsTypeOK
<1>1. ASSUME NEW m \in Missions, NEW set \in SUBSET Races, Tag(m, set) PROVE TagsTypeOK'
  BY <1>1 DEF Tag
<1>2. ASSUME NEW r \in Races, DeleteAndScrub(r) PROVE TagsTypeOK'
  BY <1>2 DEF DeleteAndScrub
<1>3. ASSUME NEW m \in Missions, WriteBack(m) PROVE TagsTypeOK'
  BY <1>3 DEF WriteBack
<1>4. CASE EndScrub
  BY <1>4 DEF EndScrub
<1>5. CASE UNCHANGED tagVars
  BY <1>5 DEF tagVars
<1> QED
  BY <1>1, <1>2, <1>3, <1>4, <1>5 DEF TagsNext

(* A patch sets what the user wants; if the scrub has read the mission, the  *)
(* mission counts as crossed from then on.                                   *)
LEMMA TagStep ==
  ASSUME TagsInv, NEW m \in Missions, NEW set \in SUBSET Races, Tag(m, set)
  PROVE  KeptIsCurrent' /\ LiveTagsSurvive'
<1>1. tags \in [Missions -> SUBSET Races] /\ wanted \in [Missions -> SUBSET Races]
  BY DEF TagsInv, TagsTypeOK
<1>2. KeptIsCurrent'
  <2> SUFFICES ASSUME NEW n \in pending \ crossed' PROVE kept[n] = tags'[n] \ {scrub}
    BY DEF Tag, KeptIsCurrent
  <2>1. n # m /\ n \in pending \ crossed /\ n \in Missions
    BY DEF Tag, TagsInv, TagsTypeOK
  <2> QED
    BY <1>1, <2>1 DEF Tag, TagsInv, KeptIsCurrent
<1>3. LiveTagsSurvive'
  <2> SUFFICES ASSUME NEW n \in Missions \ crossed' PROVE tags'[n] \cap races = wanted'[n] \cap races
    BY DEF Tag, LiveTagsSurvive
  <2>1. CASE n = m
    BY <1>1, <2>1 DEF Tag
  <2>2. CASE n # m
    BY <1>1, <2>2 DEF Tag, TagsInv, LiveTagsSurvive
  <2> QED
    BY <2>1, <2>2
<1> QED
  BY <1>2, <1>3

(* The scrub reads: its lists are current, and its race counts no more.      *)
LEMMA ScrubStep ==
  ASSUME TagsInv, NEW r \in Races, DeleteAndScrub(r)
  PROVE  KeptIsCurrent' /\ LiveTagsSurvive'
<1>1. KeptIsCurrent'
  BY DEF DeleteAndScrub, KeptIsCurrent, TagsInv, TagsTypeOK
<1>2. LiveTagsSurvive'
  <2> SUFFICES ASSUME NEW n \in Missions \ crossed
               PROVE  tags[n] \cap (races \ {r}) = (wanted[n] \ {r}) \cap (races \ {r})
    BY DEF DeleteAndScrub, LiveTagsSurvive
  <2>1. tags[n] \cap races = wanted[n] \cap races
    BY DEF TagsInv, LiveTagsSurvive
  <2> QED
    BY <2>1
<1> QED
  BY <1>1, <1>2

(* What is written back differs from what is there by a gone race at most.   *)
LEMMA WriteStep ==
  ASSUME TagsInv, NEW m \in Missions, WriteBack(m)
  PROVE  KeptIsCurrent' /\ LiveTagsSurvive'
<1>1. tags \in [Missions -> SUBSET Races] /\ pending \subseteq Missions
  BY DEF TagsInv, TagsTypeOK
<1>2. KeptIsCurrent'
  <2> SUFFICES ASSUME NEW n \in pending \ crossed, n # m PROVE kept[n] = tags'[n] \ {scrub}
    BY DEF WriteBack, KeptIsCurrent
  <2> QED
    BY <1>1 DEF WriteBack, TagsInv, KeptIsCurrent
<1>3. LiveTagsSurvive'
  <2> SUFFICES ASSUME NEW n \in Missions \ crossed PROVE tags'[n] \cap races = wanted[n] \cap races
    BY DEF WriteBack, LiveTagsSurvive
  <2>1. tags[n] \cap races = wanted[n] \cap races
    BY DEF TagsInv, LiveTagsSurvive
  <2>2. CASE n = m
    <3>1. tags'[n] = tags[n] \ {scrub}
      BY <1>1, <2>2 DEF WriteBack, TagsInv, KeptIsCurrent
    <3> QED
      BY <2>1, <3>1 DEF TagsInv, ScrubIsOfAGoneRace
  <2>3. CASE n # m
    BY <1>1, <2>1, <2>3 DEF WriteBack
  <2> QED
    BY <2>2, <2>3
<1> QED
  BY <1>2, <1>3

LEMMA TagsInvStep == TagsInv /\ [TagsNext]_tagVars => TagsInv'
<1> SUFFICES ASSUME TagsInv, [TagsNext]_tagVars PROVE TagsInv'
  OBVIOUS
<1>1. TagsTypeOK'
  BY TypeStep
<1>2. NoRace \notin Races
  BY RaceTagsAssumption
<1>3. ASSUME NEW m \in Missions, NEW set \in SUBSET Races, Tag(m, set) PROVE TagsInv'
  BY <1>1, <1>3, TagStep DEF Tag, TagsInv, ScrubIsOfAGoneRace, IdleScrubHasNothingLeft
<1>4. ASSUME NEW r \in Races, DeleteAndScrub(r) PROVE TagsInv'
  BY <1>1, <1>2, <1>4, ScrubStep DEF DeleteAndScrub, TagsInv, ScrubIsOfAGoneRace, IdleScrubHasNothingLeft
<1>5. ASSUME NEW m \in Missions, WriteBack(m) PROVE TagsInv'
  BY <1>1, <1>5, WriteStep DEF WriteBack, TagsInv, ScrubIsOfAGoneRace, IdleScrubHasNothingLeft
<1>6. CASE EndScrub
  BY <1>1, <1>2, <1>6
     DEF EndScrub, TagsInv, TagsTypeOK, KeptIsCurrent, ScrubIsOfAGoneRace, IdleScrubHasNothingLeft,
         LiveTagsSurvive
<1>7. CASE UNCHANGED tagVars
  BY <1>1, <1>7
     DEF tagVars, TagsInv, KeptIsCurrent, ScrubIsOfAGoneRace, IdleScrubHasNothingLeft, LiveTagsSurvive
<1> QED
  BY <1>3, <1>4, <1>5, <1>6, <1>7 DEF TagsNext

-----------------------------------------------------------------------------
(* ScrubRaceTag, whatever it leaves half done and however its writes fall    *)
(* between the patches of missions, costs no mission the tag of a race that  *)
(* exists, unless that mission is patched between its read and its write.    *)
THEOREM ScrubsKeepLiveTags == TagsSpec => []LiveTagsSurvive
<1>1. TagsInv => LiveTagsSurvive
  BY DEF TagsInv
<1> QED
  BY <1>1, TagsStart, TagsInvStep, PTL DEF TagsSpec

(* The types of the tables and of a scrub under way.                         *)
THEOREM TagsTypeCorrect == TagsSpec => []TagsTypeOK
<1>1. TagsInv => TagsTypeOK
  BY DEF TagsInv
<1> QED
  BY <1>1, TagsStart, TagsInvStep, PTL DEF TagsSpec
-----------------------------------------------------------------------------
(* The order of the trials.  Unique numbers put every trial at one place.    *)
There(trials) == {t \in Trials : trials[t] # NoTrial}
Unique(trials) == \A t, u \in There(trials) : trials[t].seq = trials[u].seq => t = u
Before(trials, t) == {u \in There(trials) : trials[u].seq < trials[t].seq}
InPlace(trials, k) == CHOOSE t \in There(trials) : Cardinality(Before(trials, t)) = k - 1
IsOrder(order, trials) ==
  /\ order \in Seq(There(trials)) /\ Len(order) = Cardinality(There(trials))
  /\ \A i, j \in DOMAIN order : order[i] = order[j] => i = j
  /\ \A t \in There(trials) : \E i \in DOMAIN order : order[i] = t
  /\ \A i \in DOMAIN order : Cardinality(Before(trials, order[i])) = i - 1

LEMMA ThereIsFinite ==
  ASSUME NEW trials
  PROVE  IsFiniteSet(There(trials)) /\ Cardinality(There(trials)) \in Nat
<1>1. There(trials) \in SUBSET Trials
  BY DEF There
<1>2. IsFiniteSet(There(trials))
  BY <1>1, RaceTablesAssumption, FS_Subset
<1> QED
  BY <1>2, FS_CardinalityType

LEMMA RanksDiffer ==
  ASSUME NEW trials \in TrialTables, NEW t \in There(trials), NEW u \in There(trials),
         trials[t].seq < trials[u].seq
  PROVE  Cardinality(Before(trials, t)) < Cardinality(Before(trials, u))
<1>1. \A x \in There(trials) : trials[x].seq \in Nat
  BY DEF There, TrialTables, TrialRow
<1>2. Before(trials, t) \in SUBSET Before(trials, u) /\ t \notin Before(trials, t) /\ t \in Before(trials, u)
  BY <1>1 DEF Before
<1>3. Before(trials, u) \in SUBSET There(trials)
  BY DEF Before
<1>4. IsFiniteSet(Before(trials, u))
  BY <1>3, ThereIsFinite, FS_Subset
<1>5. /\ Cardinality(Before(trials, t)) <= Cardinality(Before(trials, u))
      /\ Cardinality(Before(trials, u)) = Cardinality(Before(trials, t)) => Before(trials, u) = Before(trials, t)
      /\ IsFiniteSet(Before(trials, t))
  BY <1>2, <1>4, FS_Subset
<1>6. Cardinality(Before(trials, u)) \in Nat /\ Cardinality(Before(trials, t)) \in Nat
  BY <1>4, <1>5, FS_CardinalityType
<1> QED
  BY <1>2, <1>5, <1>6

LEMMA RankOf ==
  ASSUME NEW trials \in TrialTables, NEW t \in There(trials)
  PROVE  Cardinality(Before(trials, t)) \in 0..(Cardinality(There(trials)) - 1)
<1>1. trials[t].seq \in Nat
  BY DEF There, TrialTables, TrialRow
<1>2. Before(trials, t) \in SUBSET There(trials) /\ t \notin Before(trials, t)
  BY <1>1 DEF Before
<1>3. /\ Cardinality(Before(trials, t)) <= Cardinality(There(trials))
      /\ Cardinality(There(trials)) = Cardinality(Before(trials, t)) => There(trials) = Before(trials, t)
      /\ IsFiniteSet(Before(trials, t))
  BY <1>2, ThereIsFinite, FS_Subset
<1>4. Cardinality(Before(trials, t)) \in Nat /\ Cardinality(There(trials)) \in Nat
  BY <1>3, ThereIsFinite, FS_CardinalityType
<1> QED
  BY <1>2, <1>3, <1>4

LEMMA RanksAreAll ==
  ASSUME NEW trials \in TrialTables, Unique(trials),
         NEW k \in 1..Cardinality(There(trials))
  PROVE  \E t \in There(trials) : Cardinality(Before(trials, t)) = k - 1
<1> DEFINE n == Cardinality(There(trials))
           rank == [t \in There(trials) |-> Cardinality(Before(trials, t))]
<1>1. n \in Nat /\ IsFiniteSet(There(trials))
  BY ThereIsFinite
<1>2. \A t \in There(trials) : rank[t] \in 0..(n - 1)
  BY RankOf
<1>3. ASSUME NEW t \in There(trials), NEW u \in There(trials), rank[t] = rank[u] PROVE t = u
  <2>1. trials[t].seq \in Nat /\ trials[u].seq \in Nat
    BY DEF There, TrialTables, TrialRow
  <2>2. rank[t] = Cardinality(Before(trials, t)) /\ rank[u] = Cardinality(Before(trials, u))
    OBVIOUS
  <2>3. ~(rank[t] < rank[u]) /\ ~(rank[u] < rank[t])
    BY <1>2, <1>3
  <2>4. ~(trials[t].seq < trials[u].seq) /\ ~(trials[u].seq < trials[t].seq)
    BY <2>2, <2>3, RanksDiffer
  <2> QED
    BY <2>1, <2>4 DEF Unique
<1>4. rank \in Injection(There(trials), 0..(n - 1))
  <2> HIDE DEF n
  <2> QED
    BY <1>2, <1>3 DEF Injection, IsInjective
<1>5. IsFiniteSet(0..(n - 1)) /\ Cardinality(0..(n - 1)) = n
  <2> HIDE DEF n
  <2>1. IsFiniteSet(0..(n - 1)) /\ Cardinality(0..(n - 1)) = IF 0 > n - 1 THEN 0 ELSE n - 1 - 0 + 1
    BY <1>1, FS_Interval
  <2> QED
    BY <1>1, <2>1
<1>6. rank \in Surjection(There(trials), 0..(n - 1))
  <2> HIDE DEF rank
  <2> QED
    BY <1>4, <1>5, FS_Injection
<1>7. k - 1 \in 0..(n - 1)
  BY <1>1
<1>8. \E t \in There(trials) : rank[t] = k - 1
  <2> HIDE DEF rank, n
  <2> QED
    BY <1>6, <1>7 DEF Surjection
<1> QED
  BY <1>8

LEMMA OrderOf ==
  ASSUME NEW trials \in TrialTables, Unique(trials)
  PROVE  IsOrder(InSequence(trials), trials)
<1> DEFINE n == Cardinality(There(trials))
           order == InSequence(trials)
<1>1. n \in Nat
  BY ThereIsFinite
<1>2. order = [k \in 1..n |-> InPlace(trials, k)]
  BY DEF InSequence, There, Before, InPlace
<1>3. \A k \in 1..n : InPlace(trials, k) \in There(trials) /\ Cardinality(Before(trials, InPlace(trials, k))) = k - 1
  BY RanksAreAll DEF InPlace
<1> HIDE DEF order
<1>4. order \in [1..n -> There(trials)]
  BY <1>2, <1>3
<1>5. order \in Seq(There(trials))
  BY <1>1, <1>4, SeqDef
<1>6. Len(order) = n /\ DOMAIN order = 1..n
  BY <1>1, <1>4, <1>5, LenProperties
<1>7. \A i \in 1..n : Cardinality(Before(trials, order[i])) = i - 1
  BY <1>2, <1>3
<1>8. \A i, j \in 1..n : order[i] = order[j] => i = j
  <2> SUFFICES ASSUME NEW i \in 1..n, NEW j \in 1..n, order[i] = order[j] PROVE i = j
    OBVIOUS
  <2>1. i - 1 = j - 1
    BY <1>7
  <2> QED
    BY <1>1, <2>1
<1>9. ASSUME NEW t \in There(trials) PROVE \E i \in 1..n : order[i] = t
  <2> DEFINE r == Cardinality(Before(trials, t))
  <2>1. r \in 0..(n - 1)
    BY RankOf
  <2>2. r + 1 \in 1..n
    BY <1>1, <2>1
  <2> DEFINE u == order[r + 1]
  <2>3. u \in There(trials) /\ Cardinality(Before(trials, u)) = r
    <3>1. Cardinality(Before(trials, u)) = (r + 1) - 1
      BY <1>7, <2>2
    <3> QED
      BY <1>4, <2>1, <2>2, <3>1
  <2>4. ~(trials[t].seq < trials[u].seq) /\ ~(trials[u].seq < trials[t].seq)
    <3> HIDE DEF u
    <3> QED
      BY <2>1, <2>3, RanksDiffer
  <2>5. trials[t].seq \in Nat /\ trials[u].seq \in Nat
    BY <2>3 DEF There, TrialTables, TrialRow
  <2>6. t = u
    <3> HIDE DEF u
    <3> QED
      BY <2>3, <2>4, <2>5 DEF Unique
  <2> QED
    BY <2>2, <2>6
<1>10. IsOrder(order, trials)
  BY <1>5, <1>6, <1>7, <1>8, <1>9 DEF IsOrder
<1> QED
  BY <1>10 DEF order
-----------------------------------------------------------------------------
(* What a recompute reads, and what its walk keeps.                          *)
TrackOrNone == Tracks \cup {NoTrack}
Plans == [race : BOOLEAN, trials : TrialTables, entries : Seq(Stations),
          place : [Stations -> Places], track : TrackOrNone]
RowTables == [Trials -> StationRows]
WalkStates == [front : NatOrNull, tail : NatOrNull, rows : RowTables]

LEMMA MaxOf ==
  ASSUME NEW S \in SUBSET Int, IsFiniteSet(S), S # {}
  PROVE  Max(S) \in S /\ \A x \in S : Max(S) >= x
<1>1. HasGreatest(S)
  BY GreatestElement
<1> QED
  BY <1>1 DEF HasGreatest, Max

LEMMA TrackType ==
  ASSUME NEW files \in SUBSET Files, NEW d, d.files = files, NEW t
  PROVE  TrackOf(d, t) \in TrackOrNone
<1> DEFINE fs == FilesOf(d, t)
           ids == {f.id : f \in fs}
<1>1. fs \in SUBSET Files
  BY DEF FilesOf
<1>2. CASE fs = {}
  BY <1>2 DEF TrackOf, TrackOrNone
<1>3. CASE fs # {}
  <2> HIDE DEF fs
  <2>1. ids \in SUBSET Nat /\ ids # {}
    BY <1>1, <1>3 DEF Files
  <2>2. PICK m \in ids : \A x \in ids : m <= x
    <3> HIDE DEF ids
    <3> QED
      BY <2>1, LeastElement
  <2>3. PICK f \in fs : f.id = m
    OBVIOUS
  <2>4. \A g \in fs : f.id <= g.id
    BY <2>2, <2>3
  <2>5. Oldest(fs) \in fs
    BY <2>3, <2>4 DEF Oldest
  <2>6. Oldest(fs).track \in Tracks
    BY <1>1, <2>5 DEF Files
  <2> QED
    BY <1>3, <2>6 DEF fs, TrackOf, TrackOrNone
<1> QED
  BY <1>2, <1>3

LEMMA NearestType ==
  ASSUME NEW track \in TrackOrNone, NEW place \in Places
  PROVE  NearestOnTrack(track, place) \in NatOrNull /\ (track = NoTrack => NearestOnTrack(track, place) = Off)
BY RaceTablesAssumption DEF NearestOnTrack, TrackOrNone, NatOrNull, Off, Null

LEMMA DivType ==
  ASSUME NEW a \in Nat, NEW b \in Nat, b # 0
  PROVE  a \div b \in Nat
OBVIOUS

LEMMA DivMonotone ==
  ASSUME NEW a \in Nat, NEW b \in Nat, NEW c \in Nat, c # 0, a <= b
  PROVE  a \div c <= b \div c
OBVIOUS

LEMMA ArrivalType ==
  ASSUME NEW start \in NatOrNull, NEW dist \in NatOrNull, NEW pace \in Nat
  PROVE  Arrival(start, dist, pace) \in NatOrNull
<1>1. CASE start = Null \/ dist = Off \/ pace = 0
  BY <1>1 DEF Arrival, NatOrNull
<1>2. CASE ~(start = Null \/ dist = Off \/ pace = 0)
  <2>1. start \in Nat /\ dist \in Nat /\ pace # 0
    BY <1>2 DEF NatOrNull, Null, Off
  <2>2. dist \div pace \in Nat
    BY <2>1, DivType
  <2> QED
    BY <1>2, <2>1, <2>2 DEF Arrival, NatOrNull
<1> QED
  BY <1>1, <1>2

LEMMA LaterType ==
  ASSUME NEW a \in NatOrNull, NEW b \in NatOrNull
  PROVE  Later(a, b) \in NatOrNull /\ Later(a, b) >= a /\ Later(a, b) >= b /\ Later(a, b) \in {a, b}
BY DEF Later, NatOrNull, Null

LEMMA FiniteRange ==
  ASSUME NEW s \in Seq(Stations)
  PROVE  IsFiniteSet(Range(s)) /\ Range(s) \in SUBSET Stations
<1>1. s \in [1..Len(s) -> Stations] /\ Len(s) \in Nat
  BY LenProperties
<1>2. IsFiniteSet(1..Len(s))
  BY <1>1, FS_Interval
<1>3. Range(s) = {s[i] : i \in 1..Len(s)}
  BY <1>1 DEF Range
<1>4. s = [i \in 1..Len(s) |-> s[i]]
  BY <1>1
<1>5. IsFiniteSet(Range(s))
  BY <1>2, <1>3, <1>4, FiniteImage
<1> QED
  BY <1>1, <1>3, <1>5

(* One trial: its rows.                                                      *)
Chosens == {"manual_include", "manual_exclude"}
LEMMA TrialRowsType ==
  ASSUME NEW trial \in TrialRow, NEW track \in TrackOrNone, NEW plan \in Plans,
         NEW from, from.front \in NatOrNull, from.tail \in NatOrNull,
         NEW rows \in StationRows
  PROVE  TrialRows(trial, track, from, plan, rows) \in StationRows
<1> SUFFICES ASSUME NEW s \in Stations
             PROVE  TrialRows(trial, track, from, plan, rows)[s]
                      \in [source : Sources, dist : NatOrNull, first : NatOrNull, last : NatOrNull, n : Nat]
  BY DEF TrialRows, StationRows
<1> DEFINE dist == NearestOnTrack(track, plan.place[s])
           first == Arrival(from.front, dist, trial.front)
           last == Arrival(from.tail, dist, trial.tail)
<1>1. dist \in NatOrNull
  BY NearestType DEF Plans
<1>2. first \in NatOrNull /\ last \in NatOrNull
  <2> HIDE DEF dist
  <2> QED
    BY <1>1, ArrivalType DEF TrialRow
<1>3. rows[s] \in [source : Sources, dist : NatOrNull, first : NatOrNull, last : NatOrNull, n : Nat]
  BY DEF StationRows
<1>4. deleteTrialVS(rows[s]) \in [source : Sources, dist : NatOrNull, first : NatOrNull, last : NatOrNull, n : Nat]
  BY <1>3 DEF deleteTrialVS, NoRow, Row, Sources, NatOrNull, Null
<1>5. upsertTrialVS(rows[s], dist, first, last) \in [source : Sources, dist : NatOrNull, first : NatOrNull, last : NatOrNull, n : Nat]
  <2> HIDE DEF dist, first, last
  <2> QED
    BY <1>1, <1>2, <1>3 DEF upsertTrialVS, Row, Sources
<1>6. TrialRows(trial, track, from, plan, rows)[s] \in {rows[s], deleteTrialVS(rows[s]), upsertTrialVS(rows[s], dist, first, last)}
  BY DEF TrialRows
<1> QED
  BY <1>3, <1>4, <1>5, <1>6

(* What the user chose is left alone.                                        *)
LEMMA TrialRowsChosen ==
  ASSUME NEW trial, NEW track, NEW plan, NEW from, NEW rows, NEW s \in Stations
  PROVE  /\ rows[s].source \in Chosens =>
              /\ TrialRows(trial, track, from, plan, rows)[s].source = rows[s].source
              /\ TrialRows(trial, track, from, plan, rows)[s].n = rows[s].n
         /\ TrialRows(trial, track, from, plan, rows)[s].source = "manual_exclude"
              <=> rows[s].source = "manual_exclude"
<1> DEFINE dist == NearestOnTrack(track, plan.place[s])
           first == Arrival(from.front, dist, trial.front)
           last == Arrival(from.tail, dist, trial.tail)
           new == TrialRows(trial, track, from, plan, rows)[s]
<1>1. \/ new = rows[s]
      \/ new = deleteTrialVS(rows[s]) /\ rows[s].source \notin Chosens
      \/ new = upsertTrialVS(rows[s], dist, first, last) /\ rows[s].source # "manual_exclude"
  BY DEF TrialRows, Chosens
<1> HIDE DEF dist, first, last
<1>2. CASE new = rows[s]
  BY <1>2
<1>3. CASE new = deleteTrialVS(rows[s]) /\ rows[s].source \notin Chosens
  BY <1>3 DEF deleteTrialVS, NoRow, Row, Chosens
<1>4. CASE new = upsertTrialVS(rows[s], dist, first, last) /\ rows[s].source # "manual_exclude"
  <2>1. new.source = (IF rows[s].source = "manual_include" THEN "manual_include" ELSE "auto")
    BY <1>4 DEF upsertTrialVS, Row
  <2>2. rows[s].source # "none" => new.n = rows[s].n
    BY <1>4 DEF upsertTrialVS, Row
  <2> QED
    BY <1>4, <2>1, <2>2 DEF Chosens
<1> QED
  BY <1>1, <1>2, <1>3, <1>4
-----------------------------------------------------------------------------
(* The walk, trial by trial.                                                 *)
RowsOf(plan, d, t, prev) ==
  TrialRows(plan.trials[t], TrackFor(plan, d, t), effectiveStarts(plan.trials[t], prev),
            plan, prev.rows[t])
CountedFor(plan, d, t, rows) == Projected(TrackFor(plan, d, t), plan, rows)

LEMMA WalkTrialType ==
  ASSUME NEW plan \in Plans, NEW d \in Databases, NEW t \in There(plan.trials), NEW prev \in WalkStates
  PROVE  /\ WalkTrial(plan, d, t, prev) \in WalkStates
         /\ RowsOf(plan, d, t, prev) \in StationRows
         /\ TrackFor(plan, d, t) \in TrackOrNone
         /\ effectiveStarts(plan.trials[t], prev).front \in NatOrNull
         /\ effectiveStarts(plan.trials[t], prev).tail \in NatOrNull
         /\ IsFiniteSet(CountedFor(plan, d, t, prev.rows[t]))
         /\ CountedFor(plan, d, t, prev.rows[t]) \in SUBSET Stations
<1> DEFINE track == TrackFor(plan, d, t)
           trial == plan.trials[t]
           from == effectiveStarts(trial, prev)
           rows == RowsOf(plan, d, t, prev)
           at == CountedFor(plan, d, t, prev.rows[t])
<1>1. t \in Trials /\ trial \in TrialRow
  BY DEF There, Plans, TrialTables
<1>2. track \in TrackOrNone
  <2>1. d.files \in SUBSET Files
    BY DEF Databases
  <2> QED
    BY <2>1, TrackType DEF TrackFor, Plans
<1>3. from.front \in NatOrNull /\ from.tail \in NatOrNull
  <2> HIDE DEF trial
  <2> QED
    BY <1>1, LaterType DEF effectiveStarts, WalkStates, TrialRow
<1>4. prev.rows[t] \in StationRows
  BY <1>1 DEF WalkStates, RowTables
<1>5. rows \in StationRows
  <2> HIDE DEF trial, track, from
  <2>1. TrialRows(trial, track, from, plan, prev.rows[t]) \in StationRows
    BY <1>1, <1>2, <1>3, <1>4, TrialRowsType
  <2> QED
    BY <2>1 DEF trial, track, from, RowsOf
<1>6. IsFiniteSet(at) /\ at \in SUBSET Stations
  <2>1. plan.entries \in Seq(Stations)
    BY DEF Plans
  <2>2. at \in SUBSET Range(plan.entries)
    BY DEF CountedFor, Projected
  <2> HIDE DEF at
  <2> QED
    BY <2>1, <2>2, FiniteRange, FS_Subset
<1>7. ASSUME NEW last \in NatOrNull, NEW times, NEW f, times = {f[s] : s \in at},
             \A s \in Stations : f[s] \in NatOrNull, f = [s \in Stations |-> f[s]]
      PROVE  LastArrival(last, times) \in NatOrNull
  <2> HIDE DEF at
  <2> DEFINE g == [s \in at |-> f[s]]
  <2>1. g = [s \in at |-> g[s]] /\ times = {g[s] : s \in at}
    BY <1>7
  <2>2. IsFiniteSet(times)
    <3> HIDE DEF g
    <3> QED
      BY <1>6, <2>1, FiniteImage
  <2>3. times \in SUBSET NatOrNull
    BY <1>6, <1>7
  <2>4. IsFiniteSet(times \cup {last}) /\ times \cup {last} # {}
    BY <2>2, FS_AddElement
  <2>5. times \cup {last} \in SUBSET NatOrNull /\ NatOrNull \in SUBSET Int
    BY <2>3 DEF NatOrNull, Null
  <2>6. Max(times \cup {last}) \in times \cup {last}
    BY <2>4, <2>5, MaxOf
  <2> QED
    BY <2>5, <2>6 DEF LastArrival
<1>8. LastArrival(prev.front, {rows[s].first : s \in at}) \in NatOrNull
  <2> DEFINE f == [s \in Stations |-> rows[s].first]
             times == {f[s] : s \in at}
  <2>1. \A s \in Stations : f[s] \in NatOrNull
    <3> HIDE DEF rows
    <3> QED
      BY <1>5 DEF StationRows
  <2>2. {rows[s].first : s \in at} = times
    <3> HIDE DEF rows, at
    <3> QED
      BY <1>6
  <2>3. prev.front \in NatOrNull
    BY DEF WalkStates
  <2>4. f = [s \in Stations |-> f[s]]
    OBVIOUS
  <2>5. LastArrival(prev.front, times) \in NatOrNull
    <3> HIDE DEF f, rows, at
    <3> QED
      BY <1>7, <2>1, <2>3, <2>4
  <2> QED
    BY <2>2, <2>5
<1>9. LastArrival(prev.tail, {rows[s].last : s \in at}) \in NatOrNull
  <2> DEFINE f == [s \in Stations |-> rows[s].last]
             times == {f[s] : s \in at}
  <2>1. \A s \in Stations : f[s] \in NatOrNull
    <3> HIDE DEF rows
    <3> QED
      BY <1>5 DEF StationRows
  <2>2. {rows[s].last : s \in at} = times
    <3> HIDE DEF rows, at
    <3> QED
      BY <1>6
  <2>3. prev.tail \in NatOrNull
    BY DEF WalkStates
  <2>4. f = [s \in Stations |-> f[s]]
    OBVIOUS
  <2>5. LastArrival(prev.tail, times) \in NatOrNull
    <3> HIDE DEF f, rows, at
    <3> QED
      BY <1>7, <2>1, <2>3, <2>4
  <2> QED
    BY <2>2, <2>5
<1>10. [prev.rows EXCEPT ![t] = rows] \in RowTables
  <2> HIDE DEF rows
  <2> QED
    BY <1>1, <1>5 DEF WalkStates, RowTables
<1>11. WalkTrial(plan, d, t, prev) \in WalkStates
  <2>1. WalkTrial(plan, d, t, prev) =
          [front |-> LastArrival(prev.front, {rows[s].first : s \in at}),
           tail |-> LastArrival(prev.tail, {rows[s].last : s \in at}),
           rows |-> [prev.rows EXCEPT ![t] = rows]]
    BY DEF WalkTrial, RowsOf, CountedFor
  <2> HIDE DEF rows, at
  <2> QED
    BY <1>8, <1>9, <1>10, <2>1 DEF WalkStates
<1> QED
  BY <1>2, <1>3, <1>5, <1>6, <1>11

WalkStart(d) == [front |-> Null, tail |-> Null, rows |-> d.rows]
IsWalk(f, plan, d, order) ==
  /\ f \in [0..Len(order) -> WalkStates] /\ f[0] = WalkStart(d)
  /\ \A k \in 1..Len(order) : f[k] = WalkTrial(plan, d, order[k], f[k - 1])

LEMMA WalkIs ==
  ASSUME NEW plan \in Plans, NEW d \in Databases, NEW order, order = InSequence(plan.trials),
         IsOrder(order, plan.trials)
  PROVE  \E f : IsWalk(f, plan, d, order) /\ Walk(plan, d) = f[Len(order)].rows
<1> DEFINE n == Len(order)
           T == WalkStates
           first == WalkStart(d)
           Body(k, prev) == WalkTrial(plan, d, order[k], prev)
           next == [p \in (1..n) \X T |-> Body(p[1], p[2])]
           Walks(f) == f = [k \in 0..Len(order) |->
                              IF k = 0 THEN [front |-> Null, tail |-> Null, rows |-> d.rows]
                              ELSE WalkTrial(plan, d, order[k], f[k - 1])]
           step == CHOOSE f : Walks(f)
<1>1. n \in Nat /\ \A k \in 1..n : order[k] \in There(plan.trials)
  BY LenProperties DEF IsOrder
<1>2. first \in T
  BY DEF WalkStart, WalkStates, Databases, RowTables, NatOrNull
<1>3. \A k \in 1..n, prev \in T : Body(k, prev) \in T
  BY <1>1, WalkTrialType
<1>4. next \in [(1..n) \X T -> T]
  <2> HIDE DEF Body, n, T
  <2> QED
    BY <1>3
<1>5. PICK f \in [0..n -> T] : f[0] = first /\ \A k \in 1..n : f[k] = next[<<k, f[k - 1]>>]
  <2> HIDE DEF n, T, next, first
  <2>1. Computable(n, T, first, next)
    BY <1>1, <1>2, <1>4, RecursiveFunction
  <2> QED
    BY <2>1 DEF Computable
<1>6. \A k \in 1..n : k \in 0..n /\ k - 1 \in 0..n /\ k # 0
  BY <1>1
<1>7. Walks(f)
  <2>1. ASSUME NEW k \in 1..n PROVE f[k] = Body(k, f[k - 1])
    <3> HIDE DEF n, T, Body
    <3>1. <<k, f[k - 1]>> \in (1..n) \X T
      BY <1>5, <1>6
    <3> QED
      BY <1>5, <3>1
  <2>2. \A k \in 0..n : k = 0 \/ k \in 1..n
    BY <1>1
  <2>3. f = [k \in 0..n |-> f[k]]
    BY <1>5
  <2> HIDE DEF next, T
  <2> QED
    BY <1>5, <2>1, <2>2, <2>3 DEF WalkStart
<1>8. Walks(step)
  <2> HIDE DEF Walks
  <2> QED
    BY <1>7
<1>9. Walk(plan, d) = step[Len(order)].rows
  BY DEF Walk
<1> HIDE DEF step
<1>10. /\ step[0] = first /\ DOMAIN step = 0..n
       /\ step = [k \in 0..n |-> step[k]]
       /\ \A k \in 1..n : step[k] = Body(k, step[k - 1])
  <2>1. step = [k \in 0..n |-> IF k = 0 THEN first ELSE Body(k, step[k - 1])]
    BY <1>8 DEF WalkStart
  <2> HIDE DEF n, first, Body, Walks
  <2>2. DOMAIN step = 0..n
    BY <2>1
  <2>3. 0 \in 0..n
    BY <1>1
  <2>4. step[0] = first
    BY <2>1, <2>3
  <2>5. \A k \in 1..n : step[k] = Body(k, step[k - 1])
    BY <1>6, <2>1
  <2> QED
    BY <2>1, <2>2, <2>4, <2>5
<1>11. \A k \in 0..n : step[k] \in T
  <2> DEFINE S == {k \in Nat : step[k] \in T}
  <2> HIDE DEF n, T, first, Body, Walks
  <2>1. 0 \in S
    BY <1>2, <1>10
  <2>2. ASSUME NEW k \in 1..n, k - 1 \in S PROVE k \in S
    <3>1. k \in Nat /\ step[k - 1] \in T
      BY <1>1, <2>2
    <3>2. Body(k, step[k - 1]) \in T
      BY <1>3, <3>1
    <3> QED
      BY <1>10, <3>1, <3>2
  <2>3. 0..n \subseteq S
    <3> HIDE DEF S
    <3> QED
      BY <1>1, <2>1, <2>2, BoundedInduction
  <2> QED
    BY <2>3
<1>12. step \in [0..n -> T]
  <2> HIDE DEF n, T, Walks
  <2> QED
    BY <1>10, <1>11
<1> QED
  BY <1>9, <1>10, <1>12 DEF IsWalk
-----------------------------------------------------------------------------
Rewritten(rows, t, new) == [rows EXCEPT ![t] = new]
LEMMA WalkTrialRows ==
  ASSUME NEW plan, NEW d, NEW t, NEW prev
  PROVE  WalkTrial(plan, d, t, prev).rows = Rewritten(prev.rows, t, RowsOf(plan, d, t, prev))
<1> DEFINE rows == RowsOf(plan, d, t, prev)
           at == CountedFor(plan, d, t, prev.rows[t])
<1>1. WalkTrial(plan, d, t, prev) =
        [front |-> LastArrival(prev.front, {rows[s].first : s \in at}),
         tail |-> LastArrival(prev.tail, {rows[s].last : s \in at}),
         rows |-> [prev.rows EXCEPT ![t] = rows]]
  BY DEF WalkTrial, RowsOf, CountedFor
<1> HIDE DEF rows, at
<1> DEFINE front == LastArrival(prev.front, {rows[s].first : s \in at})
           tail == LastArrival(prev.tail, {rows[s].last : s \in at})
           new == [prev.rows EXCEPT ![t] = rows]
<1>2. WalkTrial(plan, d, t, prev) = [front |-> front, tail |-> tail, rows |-> new]
  BY <1>1
<1> HIDE DEF front, tail, new
<1>3. WalkTrial(plan, d, t, prev).rows = new
  BY <1>2
<1> QED
  BY <1>3 DEF new, rows, Rewritten

(* Each trial of the order is visited once: until then its rows are those    *)
(* there were, from then on those its visit has left.                        *)
LEMMA WalkVisits ==
  ASSUME NEW plan \in Plans, NEW d \in Databases, NEW order, IsOrder(order, plan.trials),
         NEW f, IsWalk(f, plan, d, order)
  PROVE  /\ \A k \in 1..Len(order) : f[k - 1].rows[order[k]] = d.rows[order[k]]
         /\ \A k \in 1..Len(order) : f[Len(order)].rows[order[k]] = RowsOf(plan, d, order[k], f[k - 1])
         /\ \A t \in Trials \ There(plan.trials) : f[Len(order)].rows[t] = d.rows[t]
<1> DEFINE n == Len(order)
<1>1. /\ n \in Nat /\ \A k \in 1..n : order[k] \in There(plan.trials) /\ order[k] \in Trials
      /\ \A i, j \in 1..n : order[i] = order[j] => i = j
      /\ DOMAIN order = 1..n
  <2>1. order \in Seq(There(plan.trials)) /\ \A i, j \in DOMAIN order : order[i] = order[j] => i = j
    BY DEF IsOrder
  <2>2. n \in Nat /\ order \in [1..n -> There(plan.trials)] /\ DOMAIN order = 1..n
    BY <2>1, LenProperties
  <2>3. There(plan.trials) \subseteq Trials
    BY DEF There
  <2> HIDE DEF n
  <2> QED
    BY <2>1, <2>2, <2>3
<1>2. /\ f[0].rows = d.rows
      /\ \A k \in 0..n : DOMAIN f[k].rows = Trials
      /\ \A k \in 1..n : f[k].rows = [f[k - 1].rows EXCEPT ![order[k]] = RowsOf(plan, d, order[k], f[k - 1])]
  <2>1. \A k \in 0..n : f[k] \in WalkStates
    BY DEF IsWalk
  <2>2. \A k \in 1..n : f[k] = WalkTrial(plan, d, order[k], f[k - 1])
    BY DEF IsWalk
  <2>3. \A k \in 1..n : f[k].rows = [f[k - 1].rows EXCEPT ![order[k]] = RowsOf(plan, d, order[k], f[k - 1])]
    <3> SUFFICES ASSUME NEW k \in 1..n
                 PROVE  f[k].rows = [f[k - 1].rows EXCEPT ![order[k]] = RowsOf(plan, d, order[k], f[k - 1])]
      OBVIOUS
    <3> DEFINE t == order[k]
               prev == f[k - 1]
    <3>1. f[k] = WalkTrial(plan, d, t, prev)
      BY <2>2
    <3> HIDE DEF t, prev
    <3>2. f[k].rows = Rewritten(prev.rows, t, RowsOf(plan, d, t, prev))
      BY <3>1, WalkTrialRows
    <3> QED
      BY <3>2 DEF t, prev, Rewritten
  <2>4. f[0].rows = d.rows
    BY DEF IsWalk, WalkStart
  <2>5. \A k \in 0..n : DOMAIN f[k].rows = Trials
    BY <2>1 DEF WalkStates, RowTables
  <2> QED
    BY <2>3, <2>4, <2>5
<1>3. \A k \in 1..n : k \in 0..n /\ k - 1 \in 0..n /\ k \in Nat
  BY <1>1
<1> HIDE DEF n
<1>4. ASSUME NEW k \in 1..n, NEW t \in Trials, t # order[k] PROVE f[k].rows[t] = f[k - 1].rows[t]
  <2> DEFINE new == RowsOf(plan, d, order[k], f[k - 1])
             old == f[k - 1].rows
  <2>1. f[k].rows = [old EXCEPT ![order[k]] = new] /\ DOMAIN old = Trials
    BY <1>2, <1>3
  <2> HIDE DEF new, old
  <2>2. f[k].rows[t] = old[t]
    BY <1>4, <2>1
  <2> QED
    BY <2>2 DEF old
<1>5. ASSUME NEW k \in 1..n PROVE f[k].rows[order[k]] = RowsOf(plan, d, order[k], f[k - 1])
  <2> DEFINE new == RowsOf(plan, d, order[k], f[k - 1])
             old == f[k - 1].rows
  <2>1. f[k].rows = [old EXCEPT ![order[k]] = new] /\ DOMAIN old = Trials /\ order[k] \in Trials
    BY <1>1, <1>2, <1>3
  <2> HIDE DEF new, old
  <2>2. f[k].rows[order[k]] = new
    BY <2>1
  <2> QED
    BY <2>2 DEF new
<1>6. ASSUME NEW t \in Trials, NEW m \in 0..n, \A k \in 1..n : k <= m => order[k] # t
      PROVE  \A k \in 0..m : f[k].rows[t] = d.rows[t]
  <2> DEFINE S == {k \in Nat : f[k].rows[t] = d.rows[t]}
  <2>1. 0 \in S
    BY <1>2
  <2>2. ASSUME NEW k \in 1..m, k - 1 \in S PROVE k \in S
    <3>1. k \in 1..n /\ k \in Nat /\ order[k] # t
      BY <1>1, <1>6
    <3>2. f[k].rows[t] = f[k - 1].rows[t]
      BY <1>4, <3>1
    <3> QED
      BY <2>2, <3>1, <3>2
  <2>3. 0..m \subseteq S
    <3> HIDE DEF S
    <3>1. m \in Nat
      BY <1>1
    <3> QED
      BY <2>1, <2>2, <3>1, BoundedInduction
  <2> QED
    BY <2>3
<1>7. ASSUME NEW t \in Trials, NEW m \in 0..n, \A k \in 1..n : k > m => order[k] # t
      PROVE  f[n].rows[t] = f[m].rows[t]
  <2> DEFINE S == {i \in Nat : f[m + i].rows[t] = f[m].rows[t]}
             r == n - m
  <2>0. r \in Nat
    BY <1>1
  <2>1. 0 \in S
    BY <1>1
  <2>2. ASSUME NEW i \in 1..r, i - 1 \in S PROVE i \in S
    <3>1. m + i \in 1..n /\ i \in Nat /\ m + i > m /\ (m + i) - 1 = m + (i - 1)
      BY <1>1
    <3>2. order[m + i] # t
      BY <1>7, <3>1
    <3>3. f[m + i].rows[t] = f[(m + i) - 1].rows[t]
      BY <1>4, <3>1, <3>2
    <3> QED
      BY <2>2, <3>1, <3>3
  <2>3. 0..r \subseteq S
    <3> HIDE DEF S, r
    <3> QED
      BY <2>0, <2>1, <2>2, BoundedInduction
  <2>4. r \in S /\ m + r = n
    BY <1>1, <2>0, <2>3
  <2> QED
    BY <2>4
<1>8. ASSUME NEW k \in 1..n PROVE f[k - 1].rows[order[k]] = d.rows[order[k]]
  <2>1. k - 1 \in 0..n /\ order[k] \in Trials /\ \A i \in 1..n : i <= k - 1 => order[i] # order[k]
    BY <1>1
  <2>2. \A i \in 0..(k - 1) : f[i].rows[order[k]] = d.rows[order[k]]
    BY <1>6, <2>1
  <2> QED
    BY <1>1, <2>2
<1>9. ASSUME NEW k \in 1..n PROVE f[n].rows[order[k]] = RowsOf(plan, d, order[k], f[k - 1])
  <2>1. k \in 0..n /\ order[k] \in Trials /\ \A i \in 1..n : i > k => order[i] # order[k]
    BY <1>1
  <2>2. f[n].rows[order[k]] = f[k].rows[order[k]]
    BY <1>7, <2>1
  <2> QED
    BY <1>5, <2>2
<1>10. ASSUME NEW t \in Trials \ There(plan.trials) PROVE f[n].rows[t] = d.rows[t]
  <2>1. n \in 0..n /\ \A k \in 1..n : k <= n => order[k] # t
    BY <1>1
  <2>2. \A k \in 0..n : f[k].rows[t] = d.rows[t]
    BY <1>6, <2>1
  <2> QED
    BY <2>1, <2>2
<1> QED
  BY <1>8, <1>9, <1>10 DEF n

(* The recompute keeps the tables in shape, changes rows only and leaves     *)
(* what the user chose.                                                      *)
LEMMA RecomputedType ==
  ASSUME NEW plan \in Plans, Unique(plan.trials), NEW d \in Databases
  PROVE  /\ Recomputed(plan, d) \in Databases
         /\ \E rows \in RowTables :
              /\ Recomputed(plan, d) = [d EXCEPT !.rows = rows]
              /\ \A t \in Trials, s \in Stations :
                   d.rows[t][s].source \in Chosens =>
                     rows[t][s].source = d.rows[t][s].source /\ rows[t][s].n = d.rows[t][s].n
<1> DEFINE order == InSequence(plan.trials)
           n == Len(order)
<1>1. IsOrder(order, plan.trials)
  BY OrderOf DEF Plans
<1>2. CASE Idle(plan)
  <2>1. Recomputed(plan, d) = d
    BY <1>2 DEF Recomputed
  <2>2. d = [d EXCEPT !.rows = d.rows] /\ d.rows \in RowTables
    BY DEF Databases, RowTables
  <2> QED
    BY <2>1, <2>2
<1>3. CASE ~Idle(plan)
  <2>1. PICK f : IsWalk(f, plan, d, order) /\ Walk(plan, d) = f[n].rows
    <3> HIDE DEF order
    <3>1. order = InSequence(plan.trials)
      BY DEF order
    <3> QED
      BY <1>1, <3>1, WalkIs
  <2> DEFINE rows == f[n].rows
  <2>2. Recomputed(plan, d) = [d EXCEPT !.rows = rows]
    BY <1>3, <2>1 DEF Recomputed
  <2> HIDE DEF order
  <2>3. n \in 0..n /\ DOMAIN order = 1..n
    <3>1. order \in Seq(There(plan.trials))
      BY <1>1 DEF IsOrder
    <3> QED
      BY <3>1, LenProperties
  <2>4. rows \in RowTables
    <3>1. f[n] \in WalkStates
      BY <2>1, <2>3 DEF IsWalk
    <3> QED
      BY <3>1 DEF WalkStates
  <2>5. ASSUME NEW t \in Trials, NEW s \in Stations, d.rows[t][s].source \in Chosens
        PROVE  rows[t][s].source = d.rows[t][s].source /\ rows[t][s].n = d.rows[t][s].n
    <3>1. CASE t \in There(plan.trials)
      <4>1. PICK k \in 1..n : order[k] = t
        BY <1>1, <2>3, <3>1 DEF IsOrder
      <4>2. f[k - 1].rows[t] = d.rows[t] /\ rows[t] = RowsOf(plan, d, t, f[k - 1])
        BY <1>1, <2>1, <4>1, WalkVisits
      <4>3. rows[t] = TrialRows(plan.trials[t], TrackFor(plan, d, t),
                                effectiveStarts(plan.trials[t], f[k - 1]), plan, d.rows[t])
        BY <4>2 DEF RowsOf
      <4> HIDE DEF rows, n
      <4> QED
        BY <2>5, <4>3, TrialRowsChosen
    <3>2. CASE t \notin There(plan.trials)
      <4>1. rows[t] = d.rows[t]
        BY <1>1, <2>1, <3>2, WalkVisits
      <4> QED
        BY <4>1
    <3> QED
      BY <3>1, <3>2
  <2>6. [d EXCEPT !.rows = rows] \in Databases
    <3> HIDE DEF rows
    <3> QED
      BY <2>4 DEF Databases, RowTables
  <2> HIDE DEF rows
  <2> QED
    BY <2>2, <2>4, <2>5, <2>6
<1> QED
  BY <1>2, <1>3
-----------------------------------------------------------------------------
LEMMA MaxIs ==
  ASSUME NEW S \in SUBSET Int, NEW m \in S, \A x \in S : m >= x
  PROVE  Max(S) = m
<1>1. \A y \in S : (\A x \in S : y >= x) => y = m
  OBVIOUS
<1> QED
  BY <1>1 DEF Max

(* The last arrivals of a trial, out of its start, its stations' distances   *)
(* and its pace.                                                             *)
LEMMA LastArrivalIs ==
  ASSUME NEW start \in NatOrNull, NEW prev \in NatOrNull, prev <= start,
         NEW pace \in Nat, NEW at, IsFiniteSet(at), NEW dist \in [at -> Nat],
         NEW dists, dists = {dist[s] : s \in at},
         NEW times, times = {Arrival(start, dist[s], pace) : s \in at}
  PROVE  LastArrival(prev, times)
           = IF at # {} /\ pace # 0 /\ start # Null THEN start + Max(dists) \div pace ELSE prev
<1>1. CASE at # {} /\ pace # 0 /\ start # Null
  <2>1. dists \in SUBSET Nat /\ dists # {}
    BY <1>1
  <2>2. IsFiniteSet(dists)
    <3>1. dist = [s \in at |-> dist[s]]
      OBVIOUS
    <3> QED
      BY <3>1, FiniteImage
  <2>3. Max(dists) \in dists /\ \A x \in dists : Max(dists) >= x
    <3>1. dists \in SUBSET Int
      BY <2>1
    <3> QED
      BY <2>1, <2>2, <3>1, MaxOf
  <2> DEFINE most == Max(dists)
             last == start + most \div pace
  <2>4. PICK top \in at : dist[top] = most
    BY <2>3
  <2>5. start \in Nat /\ most \in Nat
    BY <1>1, <2>1, <2>3 DEF NatOrNull
  <2> HIDE DEF most
  <2>6. last \in Nat
    BY <1>1, <2>5, DivType
  <2>7. ASSUME NEW s \in at
        PROVE  Arrival(start, dist[s], pace) = start + dist[s] \div pace /\ Arrival(start, dist[s], pace) <= last
               /\ Arrival(start, dist[s], pace) \in Nat
    <3>1. dist[s] \in Nat /\ dist[s] <= most /\ dist[s] # Off
      BY <2>3 DEF Off, most
    <3>2. dist[s] \div pace <= most \div pace /\ dist[s] \div pace \in Nat /\ most \div pace \in Nat
      BY <1>1, <2>5, <3>1, DivMonotone, DivType
    <3>3. Arrival(start, dist[s], pace) = start + dist[s] \div pace
      BY <1>1, <3>1 DEF Arrival
    <3> QED
      BY <2>5, <3>2, <3>3
  <2>8. last = Arrival(start, dist[top], pace)
    BY <2>4, <2>7
  <2>9. last \in times
    BY <2>8
  <2>10. \A x \in times \cup {prev} : last >= x /\ x \in Int
    <3>1. \A x \in times : last >= x /\ x \in Int
      BY <2>7
    <3>2. last >= prev /\ prev \in Int
      <4>1. most \div pace \in Nat
        BY <1>1, <2>5, DivType
      <4> QED
        BY <2>5, <4>1 DEF NatOrNull, Null
    <3> QED
      BY <3>1, <3>2
  <2>11. Max(times \cup {prev}) = last
    <3> HIDE DEF last
    <3> QED
      BY <2>9, <2>10, MaxIs
  <2> QED
    BY <1>1, <2>11 DEF LastArrival, most
<1>2. CASE ~(at # {} /\ pace # 0 /\ start # Null)
  <2>1. \A x \in times : x = Null
    BY <1>2 DEF Arrival
  <2>2. times \cup {prev} \in SUBSET Int /\ \A x \in times \cup {prev} : prev >= x
    BY <2>1 DEF NatOrNull, Null
  <2>3. Max(times \cup {prev}) = prev
    BY <2>2, MaxIs
  <2> QED
    BY <1>2, <2>3 DEF LastArrival
<1> QED
  BY <1>1, <1>2

LEMMA ElapsedIs ==
  ASSUME NEW n \in Nat, NEW spans \in [1..n -> Nat]
  PROVE  /\ Elapsed(spans) \in [0..n -> Nat] /\ Elapsed(spans)[0] = 0
         /\ \A i \in 1..n : Elapsed(spans)[i] = Elapsed(spans)[i - 1] + spans[i]
<1> DEFINE T == Nat
           next == [p \in (1..n) \X T |-> p[2] + spans[p[1]]]
           Sums(f) == f = [i \in 0..Len(spans) |-> IF i = 0 THEN 0 ELSE f[i - 1] + spans[i]]
           sum == CHOOSE f : Sums(f)
<1>1. Len(spans) = n
  <2>1. spans \in Seq(Nat)
    BY SeqDef
  <2> QED
    BY <2>1, LenProperties
<1>2. next \in [(1..n) \X T -> T]
  OBVIOUS
<1>3. PICK f \in [0..n -> T] : f[0] = 0 /\ \A i \in 1..n : f[i] = next[<<i, f[i - 1]>>]
  <2> HIDE DEF next
  <2>1. Computable(n, T, 0, next)
    BY <1>2, RecursiveFunction
  <2> QED
    BY <2>1 DEF Computable
<1>4. Sums(f)
  <2>1. \A i \in 1..n : i \in 0..n /\ i - 1 \in 0..n /\ i # 0
    OBVIOUS
  <2>2. ASSUME NEW i \in 1..n PROVE f[i] = f[i - 1] + spans[i]
    <3>1. <<i, f[i - 1]>> \in (1..n) \X T
      BY <2>1
    <3> QED
      BY <1>3, <3>1
  <2>3. f = [i \in 0..n |-> f[i]] /\ \A i \in 0..n : i = 0 \/ i \in 1..n
    OBVIOUS
  <2> HIDE DEF next, T
  <2> QED
    BY <1>1, <1>3, <2>2, <2>3
<1>5. Sums(sum)
  <2> HIDE DEF Sums
  <2> QED
    BY <1>4
<1>6. Elapsed(spans) = sum
  BY DEF Elapsed
<1> HIDE DEF sum
<1>7. sum = [i \in 0..n |-> IF i = 0 THEN 0 ELSE sum[i - 1] + spans[i]]
  BY <1>1, <1>5
<1>8. sum[0] = 0 /\ \A i \in 1..n : sum[i] = sum[i - 1] + spans[i]
  BY <1>7
<1>9. 0..n \subseteq {i \in Nat : sum[i] \in Nat}
  <2> DEFINE S == {i \in Nat : sum[i] \in Nat}
  <2>1. 0 \in S
    BY <1>8
  <2>3. ASSUME NEW i \in 1..n, i - 1 \in S PROVE i \in S
    <3>1. sum[i] = sum[i - 1] + spans[i] /\ spans[i] \in Nat /\ i \in Nat
      BY <1>8
    <3>2. sum[i - 1] \in Nat
      BY <2>3
    <3> QED
      BY <3>1, <3>2
  <2> HIDE DEF S
  <2>2. 0..n \subseteq S
    BY <2>1, <2>3, BoundedInduction
  <2> QED
    BY <2>2 DEF S
<1>10. sum \in [0..n -> Nat]
  <2>1. \A i \in 0..n : sum[i] \in Nat
    BY <1>9
  <2> QED
    BY <1>7, <2>1
<1> QED
  BY <1>6, <1>8, <1>10

(* The envelope: handing the last arrival on from trial to trial gives the   *)
(* latest of all starts so far, each with the time the trials in between     *)
(* take.                                                                     *)
Starters(start, taking, k) == {j \in 1..k : start[j] # Null /\ (j = k \/ j \in taking)}
LatestOf(start, taking, el, k) ==
  LET from == Starters(start, taking, k)
  IN IF from = {} THEN Null ELSE Max({start[j] + el[k - 1] - el[j - 1] : j \in from})
HandedOn(n, start, taking, spans, el, last) ==
  /\ n \in Nat /\ start \in [1..n -> NatOrNull]
  /\ spans \in [1..n -> Nat] /\ \A k \in 1..n : k \notin taking => spans[k] = 0
  /\ el \in [0..n -> Nat] /\ \A k \in 1..n : el[k] = el[k - 1] + spans[k]
  /\ last \in [0..n -> NatOrNull] /\ last[0] = Null
  /\ \A k \in 1..n : last[k] = IF k \in taking /\ Later(start[k], last[k - 1]) # Null
                               THEN Later(start[k], last[k - 1]) + spans[k] ELSE last[k - 1]
LEMMA EnvelopeIs ==
  ASSUME NEW n, NEW start, NEW taking, NEW spans, NEW el, NEW last,
         HandedOn(n, start, taking, spans, el, last), NEW k \in 1..n
  PROVE  Later(start[k], last[k - 1]) = LatestOf(start, taking, el, k)
<1> USE DEF HandedOn
<1> DEFINE A(m) == {j \in 1..m : start[j] # Null /\ j \in taking}
           Reached(m) == \/ last[m] = Null /\ A(m) = {}
                         \/ /\ last[m] \in Nat
                            /\ \E j \in A(m) : last[m] = start[j] + el[m] - el[j - 1]
                            /\ \A j \in A(m) : start[j] + el[m] - el[j - 1] <= last[m]
           S == {m \in Nat : Reached(m)}
<1>1. 0 \in S
  OBVIOUS
<1>2. \A j \in 1..n : /\ j - 1 \in 0..n /\ j \in 0..n /\ start[j] \in NatOrNull
                      /\ (start[j] # Null => start[j] \in Nat)
                      /\ el[j] \in Nat /\ el[j - 1] \in Nat /\ spans[j] \in Nat
                      /\ last[j] \in NatOrNull /\ last[j - 1] \in NatOrNull
  BY DEF NatOrNull
(* What the start of the m-th trial is, from the one before.                 *)
<1>3. ASSUME NEW m \in 1..n, Reached(m - 1)
      PROVE  LET B == Starters(start, taking, m)
                 e == Later(start[m], last[m - 1])
             IN  \/ e = Null /\ B = {}
                 \/ /\ e \in Nat
                    /\ \E j \in B : e = start[j] + el[m - 1] - el[j - 1]
                    /\ \A j \in B : start[j] + el[m - 1] - el[j - 1] <= e
  <2> DEFINE B == Starters(start, taking, m)
             e == Later(start[m], last[m - 1])
  <2>1. B = A(m - 1) \cup (IF start[m] # Null THEN {m} ELSE {})
    <3>1. \A j : j \in 1..m <=> j \in 1..(m - 1) \/ j = m
      OBVIOUS
    <3> QED
      BY <3>1 DEF Starters
  <2>2. A(m - 1) \subseteq 1..n /\ m \in 1..n
    OBVIOUS
  <2>3. start[m] # Null => start[m] + el[m - 1] - el[m - 1] = start[m]
    BY <1>2
  <2> HIDE DEF B, A
  <2>4. CASE last[m - 1] = Null /\ A(m - 1) = {}
    <3>1. CASE start[m] = Null
      <4>1. e = Null /\ B = {}
        BY <2>1, <2>4, <3>1 DEF Later
      <4> QED
        BY <4>1 DEF B
    <3>2. CASE start[m] # Null
      <4>1. e = start[m] /\ B = {m} /\ start[m] \in Nat
        BY <1>2, <2>1, <2>4, <3>2 DEF Later, Null
      <4> QED
        BY <2>3, <3>2, <4>1 DEF B
    <3> QED
      BY <3>1, <3>2 DEF B
  <2>5. CASE /\ last[m - 1] \in Nat
             /\ \E j \in A(m - 1) : last[m - 1] = start[j] + el[m - 1] - el[j - 1]
             /\ \A j \in A(m - 1) : start[j] + el[m - 1] - el[j - 1] <= last[m - 1]
    <3>1. CASE start[m] # Null /\ start[m] > last[m - 1]
      <4>1. e = start[m] /\ start[m] \in Nat
        BY <1>2, <3>1 DEF Later
      <4>2. m \in B
        BY <2>1, <3>1
      <4>3. ASSUME NEW j \in B PROVE start[j] + el[m - 1] - el[j - 1] <= e
        <5>1. CASE j = m
          BY <2>3, <3>1, <4>1, <5>1
        <5>2. CASE j \in A(m - 1)
          <6>1. start[j] + el[m - 1] - el[j - 1] <= last[m - 1] /\ j \in 1..n /\ start[j] # Null
            BY <2>2, <2>5, <5>2 DEF A
          <6>2. start[j] + el[m - 1] - el[j - 1] \in Int
            BY <1>2, <6>1
          <6> QED
            BY <2>5, <3>1, <4>1, <6>1, <6>2
        <5> QED
          BY <2>1, <5>1, <5>2
      <4> QED
        BY <2>3, <3>1, <4>1, <4>2, <4>3 DEF B
    <3>2. CASE ~(start[m] # Null /\ start[m] > last[m - 1])
      <4>1. e = last[m - 1]
        BY <1>2, <2>5, <3>2 DEF Later, Null
      <4>2. ASSUME NEW j \in B PROVE start[j] + el[m - 1] - el[j - 1] <= e
        <5>1. CASE j = m /\ start[m] # Null
          BY <1>2, <2>3, <2>5, <3>2, <4>1, <5>1
        <5>2. CASE j \in A(m - 1)
          BY <2>5, <4>1, <5>2
        <5> QED
          BY <2>1, <5>1, <5>2
      <4>3. \E j \in B : e = start[j] + el[m - 1] - el[j - 1]
        BY <2>1, <2>5, <4>1
      <4> QED
        BY <2>5, <4>1, <4>2, <4>3 DEF B
    <3> QED
      BY <3>1, <3>2
  <2> QED
    BY <1>3, <2>4, <2>5
<1>4. ASSUME NEW m \in 1..n, Reached(m - 1) PROVE Reached(m)
  <2> DEFINE B == Starters(start, taking, m)
             e == Later(start[m], last[m - 1])
  <2>1. last[m] = IF m \in taking /\ e # Null THEN e + spans[m] ELSE last[m - 1]
    OBVIOUS
  <2>2. m \notin taking => A(m) = A(m - 1)
    OBVIOUS
  <2>3. m \in taking => A(m) = B
    <3>1. m \in taking => \A j \in 1..m : (j = m \/ j \in taking) <=> j \in taking
      OBVIOUS
    <3> QED
      BY DEF Starters
  <2>4. A(m) \subseteq 1..n /\ A(m - 1) \subseteq 1..n /\ \A j \in A(m) : start[j] # Null
    OBVIOUS
  <2>5. el[m] = el[m - 1] + spans[m]
    OBVIOUS
  <2>6. \/ e = Null /\ B = {}
        \/ /\ e \in Nat
           /\ \E j \in B : e = start[j] + el[m - 1] - el[j - 1]
           /\ \A j \in B : start[j] + el[m - 1] - el[j - 1] <= e
    BY <1>3, <1>4
  <2>7. e \in NatOrNull
    BY <1>2, LaterType
  <2> HIDE DEF B, e
  <2>8. CASE m \notin taking
    <3>1. last[m] = last[m - 1] /\ el[m] = el[m - 1] /\ A(m) = A(m - 1)
      <4>1. spans[m] = 0
        BY <2>8
      <4> QED
        BY <1>2, <2>1, <2>2, <2>5, <2>8, <4>1
    <3> HIDE DEF A
    <3> QED
      BY <1>4, <3>1
  <2>9. CASE m \in taking /\ e = Null
    <3>1. B = {} /\ last[m] = last[m - 1]
      BY <2>1, <2>6, <2>9 DEF Null
    <3>2. last[m - 1] = Null
      <4>1. start[m] \in NatOrNull /\ last[m - 1] \in NatOrNull
        BY <1>2
      <4>2. e >= last[m - 1]
        BY <4>1, LaterType DEF e
      <4> QED
        BY <2>9, <4>1, <4>2 DEF NatOrNull, Null
    <3> HIDE DEF A
    <3> QED
      BY <2>3, <2>9, <3>1, <3>2
  <2>10. CASE m \in taking /\ e # Null
    <3>1. A(m) = B /\ last[m] = e + spans[m] /\ e \in Nat
      BY <2>1, <2>3, <2>7, <2>10 DEF NatOrNull
    <3> HIDE DEF A
    <3>2. last[m] \in Nat
      BY <1>2, <3>1
    <3>3. ASSUME NEW j \in B
          PROVE  start[j] + el[m] - el[j - 1] = (start[j] + el[m - 1] - el[j - 1]) + spans[m]
      <4>1. j \in 1..n /\ start[j] # Null
        BY <2>4, <3>1
      <4>2. start[j] \in Nat /\ el[j - 1] \in Nat /\ el[m - 1] \in Nat /\ spans[m] \in Nat
        BY <1>2, <4>1
      <4> DEFINE a == start[j]
                 b == el[j - 1]
                 c == el[m - 1]
                 x == spans[m]
      <4>3. a \in Nat /\ b \in Nat /\ c \in Nat /\ x \in Nat /\ el[m] = c + x
        BY <2>5, <4>2
      <4> HIDE DEF a, b, c, x
      <4>4. a + el[m] - b = (a + c - b) + x
        BY <4>3
      <4> QED
        BY <4>4 DEF a, b, c, x
    <3>4. ASSUME NEW j \in B PROVE start[j] + el[m - 1] - el[j - 1] \in Int
      <4>1. j \in 1..n /\ start[j] # Null
        BY <2>4, <3>1
      <4>2. start[j] \in Nat /\ el[j - 1] \in Nat /\ el[m - 1] \in Nat
        BY <1>2, <4>1
      <4> QED
        BY <4>2
    <3>5. \A j \in B : start[j] + el[m] - el[j - 1] <= last[m]
      BY <1>2, <2>6, <2>10, <3>1, <3>3, <3>4
    <3>6. \E j \in B : last[m] = start[j] + el[m] - el[j - 1]
      BY <2>6, <2>10, <3>1, <3>3
    <3> QED
      BY <3>1, <3>2, <3>5, <3>6
  <2> QED
    BY <2>8, <2>9, <2>10
<1>5. Reached(k - 1)
  <2>1. \A m \in 1..n : m - 1 \in S => m \in S
    <3> HIDE DEF Reached
    <3> QED
      BY <1>4
  <2>2. 0..n \subseteq S
    <3> HIDE DEF S
    <3> QED
      BY <1>1, <2>1, BoundedInduction
  <2>3. k - 1 \in S
    BY <1>2, <2>2
  <2> HIDE DEF Reached
  <2> QED
    BY <2>3
<1> DEFINE B == Starters(start, taking, k)
           e == Later(start[k], last[k - 1])
           values == {start[j] + el[k - 1] - el[j - 1] : j \in B}
<1>6. \/ e = Null /\ B = {}
      \/ /\ e \in Nat
         /\ \E j \in B : e = start[j] + el[k - 1] - el[j - 1]
         /\ \A j \in B : start[j] + el[k - 1] - el[j - 1] <= e
  BY <1>3, <1>5
<1>7. \A j \in B : j \in 1..n /\ start[j] # Null
  BY DEF Starters
<1>0. LatestOf(start, taking, el, k) = IF B = {} THEN Null ELSE Max(values)
  BY DEF LatestOf
<1> HIDE DEF e, B
<1>8. CASE e = Null /\ B = {}
  BY <1>0, <1>8 DEF e
<1>9. CASE /\ e \in Nat
           /\ \E j \in B : e = start[j] + el[k - 1] - el[j - 1]
           /\ \A j \in B : start[j] + el[k - 1] - el[j - 1] <= e
  <2>0. ASSUME NEW j \in B PROVE start[j] + el[k - 1] - el[j - 1] \in Int
    <3>1. j \in 1..n /\ start[j] # Null
      BY <1>7
    <3> QED
      BY <1>2, <3>1
  <2>1. e \in values /\ values \in SUBSET Int /\ \A x \in values : e >= x
    <3>1. e \in values
      BY <1>9
    <3>2. ASSUME NEW x \in values PROVE x \in Int /\ e >= x
      <4>1. PICK j \in B : x = start[j] + el[k - 1] - el[j - 1]
        OBVIOUS
      <4>2. x \in Int /\ x <= e
        BY <1>9, <2>0, <4>1
      <4> QED
        BY <1>9, <4>2
    <3> QED
      BY <3>1, <3>2
  <2>2. Max(values) = e
    <3> HIDE DEF values
    <3> QED
      BY <2>1, MaxIs
  <2>3. B # {}
    BY <1>9
  <2> QED
    BY <1>0, <2>2, <2>3 DEF e
<1> QED
  BY <1>6, <1>8, <1>9
-----------------------------------------------------------------------------
LEMMA ReadType ==
  ASSUME NEW d \in Databases, Unique(d.trials)
  PROVE  /\ Read(d) \in Plans /\ Read(d).trials = d.trials /\ Read(d).entries = d.entries
         /\ Read(d).place = d.place /\ Read(d).race = d.race
         /\ Live(d) = There(d.trials)
         /\ Live(d) # {} => Read(d).track = TrackOf(d, Head(InSequence(d.trials)))
<1> DEFINE track == IF Live(d) = {} THEN NoTrack ELSE TrackOf(d, Head(InSequence(d.trials)))
<1>1. Live(d) = There(d.trials)
  BY DEF Live, There
<1>2. track \in TrackOrNone
  <2>1. d.files \in SUBSET Files
    BY DEF Databases
  <2>2. TrackOf(d, Head(InSequence(d.trials))) \in TrackOrNone
    BY <2>1, TrackType
  <2> QED
    BY <2>2 DEF TrackOrNone
<1>3. Read(d) = [race |-> d.race, trials |-> d.trials, entries |-> d.entries, place |-> d.place,
                 track |-> track]
  BY DEF Read
<1>4. Live(d) # {} => track = TrackOf(d, Head(InSequence(d.trials)))
  OBVIOUS
<1> HIDE DEF track
<1> QED
  BY <1>1, <1>2, <1>3, <1>4 DEF Plans, Databases

(* What the visit of a trial leaves in the row of a station that counts, or  *)
(* that its track does not pass.                                             *)
LEMMA TrialRowIs ==
  ASSUME NEW trial, NEW track, NEW plan, NEW from, NEW rows, NEW s \in Stations,
         s \in Range(plan.entries), rows[s].source # "manual_exclude",
         NEW dist, dist = NearestOnTrack(track, plan.place[s]),
         NEW row, row = TrialRows(trial, track, from, plan, rows)[s]
  PROVE  /\ dist # Off => /\ row.source # "none" /\ row.dist = dist
                          /\ row.first = Arrival(from.front, dist, trial.front)
                          /\ row.last = Arrival(from.tail, dist, trial.tail)
         /\ dist = Off /\ track # NoTrack =>
              row.source \in {"none", "manual_include"} /\ row.first = Null /\ row.last = Null
<1> DEFINE first == Arrival(from.front, dist, trial.front)
           last == Arrival(from.tail, dist, trial.tail)
           included == rows[s].source = "manual_include"
<1>1. track = NoTrack => dist = Off
  BY DEF NearestOnTrack
<1>2. row = IF track = NoTrack /\ ~included THEN rows[s]
            ELSE IF dist = Off /\ ~included THEN deleteTrialVS(rows[s])
            ELSE upsertTrialVS(rows[s], dist, first, last)
  BY DEF TrialRows
<1>3. upsertTrialVS(rows[s], dist, first, last).first = first
      /\ upsertTrialVS(rows[s], dist, first, last).last = last
      /\ upsertTrialVS(rows[s], dist, first, last).dist = dist
      /\ upsertTrialVS(rows[s], dist, first, last).source = IF included THEN "manual_include" ELSE "auto"
  <2> HIDE DEF first, last
  <2> QED
    BY DEF upsertTrialVS, Row
<1>4. /\ deleteTrialVS(rows[s]).source = "none" /\ deleteTrialVS(rows[s]).first = Null
      /\ deleteTrialVS(rows[s]).last = Null
  BY DEF deleteTrialVS, NoRow, Row
<1>5. dist = Off => first = Null /\ last = Null
  BY DEF Arrival
<1> HIDE DEF first, last
<1>6. CASE dist # Off
  BY <1>1, <1>2, <1>3, <1>6 DEF first, last
<1>7. CASE dist = Off /\ track # NoTrack /\ ~included
  BY <1>2, <1>4, <1>7
<1>8. CASE dist = Off /\ track # NoTrack /\ included
  <2>1. row = upsertTrialVS(rows[s], dist, first, last)
    BY <1>2, <1>8
  <2> QED
    BY <1>3, <1>5, <1>8, <2>1
<1> QED
  BY <1>6, <1>7, <1>8

LEMMA CountedType ==
  ASSUME NEW d \in Databases, NEW t \in Trials
  PROVE  /\ IsFiniteSet(Counted(d, t)) /\ Counted(d, t) \in SUBSET Stations
         /\ \A s \in Counted(d, t) : NearestOnTrack(TrackOf(d, t), d.place[s]) \in Nat
<1>1. d.files \in SUBSET Files /\ d.entries \in Seq(Stations) /\ d.place \in [Stations -> Places]
  BY DEF Databases
<1>2. TrackOf(d, t) \in TrackOrNone
  BY <1>1, TrackType
<1>3. Counted(d, t) \in SUBSET Range(d.entries)
  BY DEF Counted
<1>4. IsFiniteSet(Counted(d, t)) /\ Counted(d, t) \in SUBSET Stations
  BY <1>1, <1>3, FiniteRange, FS_Subset
<1>5. ASSUME NEW s \in Counted(d, t) PROVE NearestOnTrack(TrackOf(d, t), d.place[s]) \in Nat
  <2>1. NearestOnTrack(TrackOf(d, t), d.place[s]) \in NatOrNull
    BY <1>1, <1>2, <1>4, NearestType
  <2>2. NearestOnTrack(TrackOf(d, t), d.place[s]) # Off
    BY DEF Counted
  <2> QED
    BY <2>1, <2>2 DEF NatOrNull, Null, Off
<1> QED
  BY <1>4, <1>5

LEMMA SpanType ==
  ASSUME NEW d \in Databases, NEW t \in Trials, NEW pace \in Nat
  PROVE  Span(d, t, pace) \in Nat /\ (~Takes(d, t, pace) => Span(d, t, pace) = 0)
<1> DEFINE dist == [s \in Counted(d, t) |-> NearestOnTrack(TrackOf(d, t), d.place[s])]
           dists == {NearestOnTrack(TrackOf(d, t), d.place[s]) : s \in Counted(d, t)}
<1>1. CASE Takes(d, t, pace)
  <2>1. Counted(d, t) # {} /\ pace # 0
    BY <1>1 DEF Takes
  <2>2. dists = {dist[s] : s \in Counted(d, t)} /\ dist = [s \in Counted(d, t) |-> dist[s]]
    OBVIOUS
  <2>3. dists \in SUBSET Nat /\ dists # {}
    BY <2>1, CountedType
  <2>5. Span(d, t, pace) = Max(dists) \div pace
    BY <1>1 DEF Span
  <2> HIDE DEF dist, dists
  <2>4. Max(dists) \in Nat
    <3>1. IsFiniteSet(dists)
      BY <2>2, CountedType, FiniteImage
    <3>2. dists \in SUBSET Int
      BY <2>3
    <3>3. Max(dists) \in dists
      BY <2>3, <3>1, <3>2, MaxOf
    <3> QED
      BY <2>3, <3>3
  <2>6. Max(dists) \div pace \in Nat
    BY <2>1, <2>4, DivType
  <2> QED
    BY <1>1, <2>5, <2>6
<1>2. CASE ~Takes(d, t, pace)
  BY <1>2 DEF Span
<1> QED
  BY <1>1, <1>2

(* Any quantity handed on from trial to trial as the walk does is the        *)
(* envelope of its pace.                                                     *)
HandsOn(d, order, pace, last) ==
  /\ pace \in [Trials -> Nat] /\ last \in [0..Len(order) -> NatOrNull] /\ last[0] = Null
  /\ \A k \in 1..Len(order) :
       last[k] = LET e == Later(d.trials[order[k]].start, last[k - 1]) IN
                 IF Takes(d, order[k], pace[order[k]]) /\ e # Null
                 THEN e + Span(d, order[k], pace[order[k]]) ELSE last[k - 1]
InOrder(d, order) == order = InSequence(d.trials) /\ IsOrder(order, d.trials)
LEMMA EnvelopeOf ==
  ASSUME NEW d \in Databases, NEW order, InOrder(d, order),
         NEW pace, NEW last, HandsOn(d, order, pace, last)
  PROVE  \A k \in 1..Len(order) :
           EnvelopeStart(d, k, pace) = Later(d.trials[order[k]].start, last[k - 1])
<1> SUFFICES ASSUME NEW k \in 1..Len(order)
             PROVE  EnvelopeStart(d, k, pace) = Later(d.trials[order[k]].start, last[k - 1])
  OBVIOUS
<1> USE DEF HandsOn, InOrder
<1> DEFINE n == Len(order)
           start == [j \in 1..n |-> d.trials[order[j]].start]
           taking == {j \in 1..n : Takes(d, order[j], pace[order[j]])}
           spans == [j \in 1..n |-> Span(d, order[j], pace[order[j]])]
           el == Elapsed(spans)
<1>1. n \in Nat /\ DOMAIN order = 1..n /\ \A j \in 1..n : order[j] \in Trials /\ d.trials[order[j]] \in TrialRow
  <2>1. order \in Seq(There(d.trials)) /\ d.trials \in TrialTables
    BY DEF IsOrder, Databases
  <2>2. n \in Nat /\ DOMAIN order = 1..n /\ \A j \in 1..n : order[j] \in There(d.trials)
    BY <2>1, LenProperties
  <2>3. \A t \in There(d.trials) : t \in Trials /\ d.trials[t] \in TrialRow
    BY <2>1 DEF There, TrialTables
  <2> HIDE DEF n
  <2> QED
    BY <2>2, <2>3
<1>2. start \in [1..n -> NatOrNull]
  <2> HIDE DEF n
  <2> QED
    BY <1>1 DEF TrialRow
<1>3. spans \in [1..n -> Nat] /\ \A j \in 1..n : j \notin taking => spans[j] = 0
  <2> HIDE DEF n
  <2> QED
    BY <1>1, SpanType
<1>4. el \in [0..n -> Nat] /\ \A j \in 1..n : el[j] = el[j - 1] + spans[j]
  <2> HIDE DEF n, spans
  <2> QED
    BY <1>1, <1>3, ElapsedIs
<1>5. \A j \in 1..n : last[j] = IF j \in taking /\ Later(start[j], last[j - 1]) # Null
                                THEN Later(start[j], last[j - 1]) + spans[j] ELSE last[j - 1]
  BY DEF HandsOn
<1> DEFINE B == Starters(start, taking, k)
           from == {j \in 1..k : /\ d.trials[order[j]].start # Null
                                 /\ j = k \/ Takes(d, order[j], pace[order[j]])}
<1>6. B = from
  <2>1. \A j \in 1..k : j \in 1..n
    BY <1>1
  <2> HIDE DEF n
  <2> QED
    BY <2>1 DEF Starters
<1>7. EnvelopeStart(d, k, pace)
        = IF from = {} THEN Null
          ELSE Max({d.trials[order[j]].start + el[k - 1] - el[j - 1] : j \in from})
  BY <1>1 DEF EnvelopeStart
<1>8. {d.trials[order[j]].start + el[k - 1] - el[j - 1] : j \in from}
        = {start[j] + el[k - 1] - el[j - 1] : j \in B}
  <2>1. \A j \in from : start[j] = d.trials[order[j]].start
    <3>1. \A j \in 1..k : j \in 1..n
      BY <1>1
    <3> HIDE DEF n
    <3> QED
      BY <3>1
  <2> HIDE DEF from, B, start, el
  <2> QED
    BY <1>6, <2>1
<1>9. Later(start[k], last[k - 1]) = LatestOf(start, taking, el, k)
  <2>1. last \in [0..n -> NatOrNull] /\ last[0] = Null /\ k \in 1..n
    OBVIOUS
  <2> HIDE DEF n, start, taking, spans, el
  <2>2. HandedOn(n, start, taking, spans, el, last)
    BY <1>1, <1>2, <1>3, <1>4, <1>5, <2>1 DEF HandedOn
  <2> QED
    BY <2>1, <2>2, EnvelopeIs
<1>11. LatestOf(start, taking, el, k)
         = IF B = {} THEN Null ELSE Max({start[j] + el[k - 1] - el[j - 1] : j \in B})
  BY DEF LatestOf
<1>10. start[k] = d.trials[order[k]].start
  OBVIOUS
<1> HIDE DEF from, B, el, start
<1> QED
  BY <1>6, <1>7, <1>8, <1>9, <1>10, <1>11
-----------------------------------------------------------------------------
LEMMA SameCounted ==
  ASSUME NEW d, NEW x, NEW t, d.files = x.files, d.entries = x.entries, d.place = x.place,
         d.entries \in Seq(Stations),
         \A s \in Stations : x.rows[t][s].source = "manual_exclude" <=> d.rows[t][s].source = "manual_exclude"
  PROVE  /\ TrackOf(x, t) = TrackOf(d, t) /\ Counted(x, t) = Counted(d, t)
         /\ \A pace : Takes(x, t, pace) = Takes(d, t, pace) /\ Span(x, t, pace) = Span(d, t, pace)
<1>1. TrackOf(x, t) = TrackOf(d, t)
  BY DEF TrackOf, FilesOf
<1>2. Range(d.entries) \in SUBSET Stations
  BY FiniteRange
<1>3. Counted(x, t) = Counted(d, t)
  BY <1>1, <1>2 DEF Counted
<1>4. \A pace : Takes(x, t, pace) = Takes(d, t, pace)
  BY <1>3 DEF Takes
<1>5. ASSUME NEW pace PROVE Span(x, t, pace) = Span(d, t, pace)
  <2>1. Takes(x, t, pace) = Takes(d, t, pace)
    BY <1>4
  <2> QED
    BY <1>1, <1>3, <2>1 DEF Span
<1> QED
  BY <1>1, <1>3, <1>4, <1>5

(* The visit of a trial whose rows are as they were: what is handed on to    *)
(* the next one.                                                             *)
LEMMA VisitIs ==
  ASSUME NEW d \in Databases, Unique(d.trials), NEW t \in There(d.trials),
         NEW plan, plan = Read(d), NEW prev \in WalkStates, prev.rows[t] = d.rows[t],
         NEW trial, trial = d.trials[t],
         NEW front, front = Later(trial.start, prev.front), NEW tail, tail = Later(trial.start, prev.tail)
  PROVE  /\ TrackFor(plan, d, t) = TrackOf(d, t)
         /\ WalkTrial(plan, d, t, prev).front
              = IF Takes(d, t, trial.front) /\ front # Null THEN front + Span(d, t, trial.front) ELSE prev.front
         /\ WalkTrial(plan, d, t, prev).tail
              = IF Takes(d, t, trial.tail) /\ tail # Null THEN tail + Span(d, t, trial.tail) ELSE prev.tail
<1> DEFINE track == TrackOf(d, t)
           rows == RowsOf(plan, d, t, prev)
           at == Counted(d, t)
           dist == [s \in at |-> NearestOnTrack(track, d.place[s])]
           dists == {dist[s] : s \in at}
<1>1. /\ plan \in Plans /\ plan.trials = d.trials /\ plan.entries = d.entries /\ plan.place = d.place
      /\ Live(d) # {} => plan.track = TrackOf(d, Head(InSequence(d.trials)))
  BY ReadType
<1>2. t \in Trials /\ trial \in TrialRow
  BY DEF There, Databases, TrialTables
<1>3. TrackFor(plan, d, t) = track
  <2>1. Live(d) # {}
    BY DEF There, Live
  <2> QED
    BY <1>1, <2>1 DEF TrackFor
<1>4. /\ prev.front \in NatOrNull /\ prev.tail \in NatOrNull /\ trial.start \in NatOrNull
      /\ trial.front \in Nat /\ trial.tail \in Nat
  BY <1>2 DEF WalkStates, TrialRow
<1>5. /\ front \in NatOrNull /\ prev.front <= front /\ tail \in NatOrNull /\ prev.tail <= tail
  <2>1. front >= prev.front /\ front \in NatOrNull /\ tail >= prev.tail /\ tail \in NatOrNull
    BY <1>4, LaterType
  <2> QED
    BY <1>4, <2>1 DEF NatOrNull, Null
<1>6. CountedFor(plan, d, t, prev.rows[t]) = at
  BY <1>1, <1>3 DEF CountedFor, Projected, Counted
<1>7. IsFiniteSet(at) /\ at \in SUBSET Stations /\ dist \in [at -> Nat]
  BY <1>2, CountedType
<1>8. rows = TrialRows(trial, track, effectiveStarts(trial, prev), plan, d.rows[t])
  BY <1>1, <1>3 DEF RowsOf
<1>9. ASSUME NEW s \in at
      PROVE  rows[s].first = Arrival(front, dist[s], trial.front) /\ rows[s].last = Arrival(tail, dist[s], trial.tail)
  <2> DEFINE from == effectiveStarts(trial, prev)
  <2>1. from.front = front /\ from.tail = tail
    BY DEF effectiveStarts
  <2>2. /\ s \in Range(plan.entries) /\ s \in Stations /\ d.rows[t][s].source # "manual_exclude"
        /\ NearestOnTrack(track, plan.place[s]) # Off
        /\ dist[s] = NearestOnTrack(track, plan.place[s])
    BY <1>1, <1>7 DEF Counted
  <2> HIDE DEF from, track, at, dist, rows
  <2>3. rows[s] = TrialRows(trial, track, from, plan, d.rows[t])[s]
    BY <1>8 DEF from
  <2>4. /\ rows[s].first = Arrival(from.front, dist[s], trial.front)
        /\ rows[s].last = Arrival(from.tail, dist[s], trial.tail)
    BY <2>2, <2>3, TrialRowIs
  <2> QED
    BY <2>1, <2>4
<1> DEFINE firsts == {rows[s].first : s \in at}
           lasts == {rows[s].last : s \in at}
<1>10. /\ WalkTrial(plan, d, t, prev).front = LastArrival(prev.front, firsts)
       /\ WalkTrial(plan, d, t, prev).tail = LastArrival(prev.tail, lasts)
  <2> DEFINE new == [prev.rows EXCEPT ![t] = rows]
             newFront == LastArrival(prev.front, firsts)
             newTail == LastArrival(prev.tail, lasts)
  <2>1. WalkTrial(plan, d, t, prev) =
          [front |-> LastArrival(prev.front, {rows[s].first : s \in CountedFor(plan, d, t, prev.rows[t])}),
           tail |-> LastArrival(prev.tail, {rows[s].last : s \in CountedFor(plan, d, t, prev.rows[t])}),
           rows |-> new]
    BY DEF WalkTrial, RowsOf, CountedFor
  <2>2. WalkTrial(plan, d, t, prev) = [front |-> newFront, tail |-> newTail, rows |-> new]
    <3> HIDE DEF at, rows, new
    <3> QED
      BY <1>6, <2>1
  <2> HIDE DEF newFront, newTail, new
  <2>3. WalkTrial(plan, d, t, prev).front = newFront /\ WalkTrial(plan, d, t, prev).tail = newTail
    BY <2>2
  <2> QED
    BY <2>3 DEF newFront, newTail
<1>11. /\ firsts = {Arrival(front, dist[s], trial.front) : s \in at}
       /\ lasts = {Arrival(tail, dist[s], trial.tail) : s \in at}
  <2> HIDE DEF rows, at, dist
  <2> QED
    BY <1>9
<1>12. dists = {NearestOnTrack(track, d.place[s]) : s \in at}
  <2> HIDE DEF track, at
  <2> QED
    OBVIOUS
<1>13. \A pace : Takes(d, t, pace) => Span(d, t, pace) = Max(dists) \div pace
  <2>1. \A pace : Takes(d, t, pace) =>
          Span(d, t, pace) = Max({NearestOnTrack(track, d.place[s]) : s \in at}) \div pace
    BY DEF Span
  <2> HIDE DEF dists, at, dist, track
  <2> QED
    BY <1>12, <2>1
<1>14. \A pace \in Nat : Takes(d, t, pace) <=> at # {} /\ pace # 0
  BY DEF Takes
<1>15. ASSUME NEW start \in NatOrNull, NEW last \in NatOrNull, last <= start, NEW pace \in Nat,
              NEW times, times = {Arrival(start, dist[s], pace) : s \in at}
       PROVE  LastArrival(last, times)
                = IF Takes(d, t, pace) /\ start # Null THEN start + Span(d, t, pace) ELSE last
  <2>1. LastArrival(last, times)
          = IF at # {} /\ pace # 0 /\ start # Null THEN start + Max(dists) \div pace ELSE last
    <3> DEFINE places == dists
    <3>1. places = {dist[s] : s \in at}
      OBVIOUS
    <3> HIDE DEF at, dist, places
    <3>2. LastArrival(last, times)
            = IF at # {} /\ pace # 0 /\ start # Null THEN start + Max(places) \div pace ELSE last
      BY <1>7, <1>15, <3>1, LastArrivalIs
    <3> QED
      BY <3>2 DEF places
  <2> HIDE DEF dists, at
  <2> QED
    BY <1>13, <1>14, <2>1
<1> HIDE DEF firsts, lasts
<1>16. /\ LastArrival(prev.front, firsts)
            = IF Takes(d, t, trial.front) /\ front # Null THEN front + Span(d, t, trial.front) ELSE prev.front
       /\ LastArrival(prev.tail, lasts)
            = IF Takes(d, t, trial.tail) /\ tail # Null THEN tail + Span(d, t, trial.tail) ELSE prev.tail
  <2> HIDE DEF dist, at
  <2> QED
    BY <1>4, <1>5, <1>11, <1>15
<1> QED
  BY <1>3, <1>10, <1>16
-----------------------------------------------------------------------------
LEMMA NothingIsExact ==
  ASSUME NEW d, Live(d) = {} \/ d.entries = <<>>
  PROVE  Exact(d)
<1>1. CASE Live(d) = {}
  <2>1. There(d.trials) = {}
    BY <1>1 DEF Live, There
  <2>2. Cardinality(There(d.trials)) = 0
    BY <2>1, FS_EmptySet
  <2>3. DOMAIN InSequence(d.trials) = 1..Cardinality(There(d.trials))
    BY DEF InSequence, There
  <2>4. DOMAIN InSequence(d.trials) = {}
    <3> DEFINE order == InSequence(d.trials)
               c == Cardinality(There(d.trials))
    <3>1. DOMAIN order = 1..c /\ c = 0
      BY <2>2, <2>3
    <3> HIDE DEF order, c
    <3>2. DOMAIN order = {}
      BY <3>1
    <3> QED
      BY <3>2 DEF order
  <2> QED
    BY <2>4 DEF Exact
<1>2. CASE d.entries = <<>>
  <2>1. Range(d.entries) = {}
    BY <1>2 DEF Range
  <2> QED
    BY <2>1 DEF Exact
<1> QED
  BY <1>1, <1>2

(* The rows a walk leaves, trial by trial.                                   *)
LEMMA RecomputedRows ==
  ASSUME NEW d \in Databases, Unique(d.trials), NEW plan, plan = Read(d), ~Idle(plan),
         NEW order, order = InSequence(d.trials)
  PROVE  \E f : /\ IsWalk(f, plan, d, order)
                /\ Recomputed(plan, d) = [d EXCEPT !.rows = f[Len(order)].rows]
                /\ f[Len(order)].rows \in RowTables
                /\ \A k \in 1..Len(order) :
                     f[k - 1] \in WalkStates /\ f[k - 1].rows[order[k]] = d.rows[order[k]]
                     /\ f[Len(order)].rows[order[k]] = RowsOf(plan, d, order[k], f[k - 1])
<1>1. plan \in Plans /\ plan.trials = d.trials
  BY ReadType
<1>2. IsOrder(order, plan.trials) /\ order = InSequence(plan.trials)
  BY <1>1, OrderOf DEF Databases
<1>3. PICK f : IsWalk(f, plan, d, order) /\ Walk(plan, d) = f[Len(order)].rows
  BY <1>1, <1>2, WalkIs
<1>4. Recomputed(plan, d) = [d EXCEPT !.rows = f[Len(order)].rows]
  BY <1>3 DEF Recomputed
<1>5. Len(order) \in Nat
  BY <1>2, LenProperties DEF IsOrder
<1>6. \A k \in 0..Len(order) : f[k] \in WalkStates
  BY <1>3 DEF IsWalk
<1>7. f[Len(order)].rows \in RowTables
  BY <1>5, <1>6 DEF WalkStates
<1>8. \A k \in 1..Len(order) :
        f[k - 1].rows[order[k]] = d.rows[order[k]]
        /\ f[Len(order)].rows[order[k]] = RowsOf(plan, d, order[k], f[k - 1])
  BY <1>1, <1>2, <1>3, WalkVisits
<1>9. \A k \in 1..Len(order) : f[k - 1] \in WalkStates
  BY <1>5, <1>6
<1> WITNESS f
<1> QED
  BY <1>3, <1>4, <1>7, <1>8, <1>9

(* A recompute of what there is leaves the rows the tables ask for.          *)
IsRecompute(d, plan, x, order) ==
  plan = Read(d) /\ x = Recomputed(plan, d) /\ order = InSequence(d.trials)
LEMMA RecomputedExact ==
  ASSUME NEW d \in Databases, Consistent(d), NEW plan, NEW x, NEW order, IsRecompute(d, plan, x, order)
  PROVE  Exact(x)
<1> DEFINE n == Len(order)
<1>1. Unique(d.trials) /\ Live(d) = There(d.trials)
  BY DEF Consistent, Unique, Live, There
<1>2. /\ plan \in Plans /\ plan.trials = d.trials /\ plan.entries = d.entries /\ plan.place = d.place
      /\ plan.race = d.race
  BY <1>1, ReadType DEF IsRecompute
<1>3. CASE Idle(plan)
  <2>1. x = d
    BY <1>3 DEF Recomputed, IsRecompute
  <2>2. Live(d) = {} \/ d.entries = <<>>
    BY <1>2, <1>3 DEF Idle, Consistent, Live
  <2> QED
    BY <2>1, <2>2, NothingIsExact
<1>4. CASE ~Idle(plan)
  <2>1. PICK f : /\ IsWalk(f, plan, d, order)
                 /\ x = [d EXCEPT !.rows = f[n].rows]
                 /\ f[n].rows \in RowTables
                 /\ \A k \in 1..n :
                      f[k - 1] \in WalkStates /\ f[k - 1].rows[order[k]] = d.rows[order[k]]
                      /\ f[n].rows[order[k]] = RowsOf(plan, d, order[k], f[k - 1])
    <3>1. plan = Read(d) /\ order = InSequence(d.trials) /\ x = Recomputed(plan, d)
      BY DEF IsRecompute
    <3> QED
      BY <1>1, <1>4, <3>1, RecomputedRows
  <2>2. IsOrder(order, d.trials)
    BY <1>1, OrderOf DEF Databases, IsRecompute
  <2>3. n \in Nat /\ DOMAIN order = 1..n /\ \A k \in 1..n : order[k] \in There(d.trials)
    <3>1. order \in Seq(There(d.trials))
      BY <2>2 DEF IsOrder
    <3> QED
      BY <3>1, LenProperties
  <2>4. /\ x.trials = d.trials /\ x.files = d.files /\ x.entries = d.entries /\ x.place = d.place
        /\ x.rows = f[n].rows /\ x \in Databases
    <3> DEFINE rows == f[n].rows
    <3>1. x = [d EXCEPT !.rows = rows] /\ rows \in RowTables
      BY <2>1
    <3> HIDE DEF rows
    <3>2. /\ x.trials = d.trials /\ x.files = d.files /\ x.entries = d.entries /\ x.place = d.place
          /\ x.rows = rows /\ x \in Databases
      BY <3>1 DEF Databases, RowTables
    <3> QED
      BY <3>2 DEF rows
  <2>5. \A k \in 1..n : f[k - 1].rows[order[k]] = d.rows[order[k]] /\ f[k - 1] \in WalkStates
                        /\ order[k] \in Trials /\ order[k] \in There(d.trials)
    BY <2>1, <2>3 DEF There
  <2>6. ASSUME NEW k \in 1..n
        PROVE  x.rows[order[k]] = TrialRows(d.trials[order[k]], TrackFor(plan, d, order[k]),
                                            effectiveStarts(d.trials[order[k]], f[k - 1]), plan, d.rows[order[k]])
    BY <1>2, <2>1, <2>4 DEF RowsOf
  <2>7. ASSUME NEW k \in 1..n
        PROVE  /\ TrackOf(x, order[k]) = TrackOf(d, order[k])
               /\ \A pace : Takes(x, order[k], pace) = Takes(d, order[k], pace)
                            /\ Span(x, order[k], pace) = Span(d, order[k], pace)
               /\ \A s \in Stations : x.rows[order[k]][s].source = "manual_exclude"
                                        <=> d.rows[order[k]][s].source = "manual_exclude"
    <3> DEFINE t == order[k]
    <3> HIDE DEF t
    <3>1. \A s \in Stations : x.rows[t][s].source = "manual_exclude" <=> d.rows[t][s].source = "manual_exclude"
      BY <2>6, TrialRowsChosen DEF t
    <3>2. d.entries \in Seq(Stations)
      BY DEF Databases
    <3>3. /\ TrackOf(x, t) = TrackOf(d, t)
          /\ \A pace : Takes(x, t, pace) = Takes(d, t, pace) /\ Span(x, t, pace) = Span(d, t, pace)
      <4>1. d.files = x.files /\ d.entries = x.entries /\ d.place = x.place
        BY <2>4
      <4> QED
        BY <3>1, <3>2, <4>1, SameCounted
    <3> QED
      BY <3>1, <3>3 DEF t
  <2> DEFINE fronts == [k \in 0..n |-> f[k].front]
             tails == [k \in 0..n |-> f[k].tail]
  <2>8. fronts \in [0..n -> NatOrNull] /\ tails \in [0..n -> NatOrNull] /\ fronts[0] = Null /\ tails[0] = Null
    <3>1. \A k \in 0..n : f[k] \in WalkStates
      BY <2>1 DEF IsWalk
    <3>2. f[0].front = Null /\ f[0].tail = Null
      BY <2>1 DEF IsWalk, WalkStart
    <3> HIDE DEF n
    <3> QED
      BY <2>3, <3>1, <3>2 DEF WalkStates
  <2>9. ASSUME NEW k \in 1..n
        PROVE  LET trial == d.trials[order[k]]
                   front == Later(trial.start, fronts[k - 1])
                   tail == Later(trial.start, tails[k - 1])
               IN  /\ TrackFor(plan, d, order[k]) = TrackOf(d, order[k])
                   /\ effectiveStarts(trial, f[k - 1]).front = front
                   /\ effectiveStarts(trial, f[k - 1]).tail = tail
                   /\ fronts[k] = IF Takes(d, order[k], trial.front) /\ front # Null
                                  THEN front + Span(d, order[k], trial.front) ELSE fronts[k - 1]
                   /\ tails[k] = IF Takes(d, order[k], trial.tail) /\ tail # Null
                                 THEN tail + Span(d, order[k], trial.tail) ELSE tails[k - 1]
    <3> DEFINE t == order[k]
               prev == f[k - 1]
               trial == d.trials[t]
               front == Later(trial.start, prev.front)
               tail == Later(trial.start, prev.tail)
    <3>1. t \in There(d.trials) /\ prev \in WalkStates /\ prev.rows[t] = d.rows[t]
      BY <2>5
    <3>2. f[k] = WalkTrial(plan, d, t, prev)
      BY <2>1 DEF IsWalk
    <3>3. fronts[k] = f[k].front /\ fronts[k - 1] = prev.front /\ tails[k] = f[k].tail /\ tails[k - 1] = prev.tail
      <4>1. k \in 0..n /\ k - 1 \in 0..n
        BY <2>3
      <4> HIDE DEF n
      <4> QED
        BY <4>1
    <3>4. effectiveStarts(trial, prev).front = front /\ effectiveStarts(trial, prev).tail = tail
      BY DEF effectiveStarts
    <3>5. plan = Read(d)
      BY DEF IsRecompute
    <3> HIDE DEF t, prev, fronts, tails
    <3>6. /\ TrackFor(plan, d, t) = TrackOf(d, t)
          /\ f[k].front = IF Takes(d, t, trial.front) /\ front # Null THEN front + Span(d, t, trial.front) ELSE prev.front
          /\ f[k].tail = IF Takes(d, t, trial.tail) /\ tail # Null THEN tail + Span(d, t, trial.tail) ELSE prev.tail
      <4> DEFINE y == trial
                 fr == front
                 ta == tail
      <4>1. y = d.trials[t] /\ fr = Later(y.start, prev.front) /\ ta = Later(y.start, prev.tail)
        OBVIOUS
      <4> HIDE DEF y, fr, ta
      <4>2. /\ TrackFor(plan, d, t) = TrackOf(d, t)
            /\ WalkTrial(plan, d, t, prev).front = IF Takes(d, t, y.front) /\ fr # Null THEN fr + Span(d, t, y.front) ELSE prev.front
            /\ WalkTrial(plan, d, t, prev).tail = IF Takes(d, t, y.tail) /\ ta # Null THEN ta + Span(d, t, y.tail) ELSE prev.tail
        BY <1>1, <3>1, <3>5, <4>1, VisitIs
      <4> QED
        BY <3>2, <4>2 DEF y, fr, ta
    <3> QED
      BY <3>3, <3>4, <3>6 DEF t, prev
  <2>10. Fronts(x) \in [Trials -> Nat] /\ Tails(x) \in [Trials -> Nat]
    <3>1. \A t \in Trials : x.trials[t].front \in Nat /\ x.trials[t].tail \in Nat
      BY <2>4 DEF Databases, TrialTables, TrialRow, NoTrial
    <3> QED
      BY <3>1 DEF Fronts, Tails
  <2>11. \A k \in 1..n : /\ Fronts(x)[order[k]] = d.trials[order[k]].front
                         /\ Tails(x)[order[k]] = d.trials[order[k]].tail
                         /\ x.trials[order[k]] = d.trials[order[k]]
    BY <2>4, <2>5 DEF Fronts, Tails
  <2>12. HandsOn(x, order, Fronts(x), fronts) /\ HandsOn(x, order, Tails(x), tails)
    <3> SUFFICES ASSUME NEW k \in 1..n
                 PROVE  LET front == Later(x.trials[order[k]].start, fronts[k - 1])
                            tail == Later(x.trials[order[k]].start, tails[k - 1])
                        IN  /\ fronts[k] = IF Takes(x, order[k], Fronts(x)[order[k]]) /\ front # Null
                                           THEN front + Span(x, order[k], Fronts(x)[order[k]]) ELSE fronts[k - 1]
                            /\ tails[k] = IF Takes(x, order[k], Tails(x)[order[k]]) /\ tail # Null
                                          THEN tail + Span(x, order[k], Tails(x)[order[k]]) ELSE tails[k - 1]
      BY <2>8, <2>10 DEF HandsOn
    <3> HIDE DEF fronts, tails, n
    <3> QED
      BY <2>7, <2>9, <2>11
  <2>13. ASSUME NEW k \in 1..n
         PROVE  /\ EnvelopeStart(x, k, Fronts(x)) = Later(d.trials[order[k]].start, fronts[k - 1])
                /\ EnvelopeStart(x, k, Tails(x)) = Later(d.trials[order[k]].start, tails[k - 1])
    <3>1. InOrder(x, order)
      BY <2>2, <2>4 DEF IsRecompute, InOrder
    <3>0. k \in 1..Len(order)
      OBVIOUS
    <3>2. ASSUME NEW pace, NEW last, HandsOn(x, order, pace, last)
          PROVE  EnvelopeStart(x, k, pace) = Later(x.trials[order[k]].start, last[k - 1])
      <4>1. \A j \in 1..Len(order) : EnvelopeStart(x, j, pace) = Later(x.trials[order[j]].start, last[j - 1])
        <5>1. x \in Databases
          BY <2>4
        <5>2. HandsOn(x, order, pace, last)
          BY <3>2
        <5> QED
          BY <3>1, <5>1, <5>2, EnvelopeOf
      <4> QED
        BY <3>0, <4>1
    <3> HIDE DEF fronts, tails, n
    <3> QED
      BY <2>11, <2>12, <3>2
  <2>14. ASSUME NEW k \in 1..n, NEW t, t = order[k], TrackOf(x, t) # NoTrack,
                NEW s \in Range(x.entries), NEW row, row = x.rows[t][s], row.source # "manual_exclude",
                NEW dist, dist = NearestOnTrack(TrackOf(x, t), x.place[s])
         PROVE  IF dist = Off
                THEN row.source \in {"none", "manual_include"} /\ row.first = Null /\ row.last = Null
                ELSE /\ row.source # "none" /\ row.dist = dist
                     /\ row.first = Arrival(EnvelopeStart(x, k, Fronts(x)), dist, x.trials[t].front)
                     /\ row.last = Arrival(EnvelopeStart(x, k, Tails(x)), dist, x.trials[t].tail)
    <3> DEFINE trial == d.trials[t]
               from == effectiveStarts(trial, f[k - 1])
               front == EnvelopeStart(x, k, Fronts(x))
               tail == EnvelopeStart(x, k, Tails(x))
               track == TrackOf(d, t)
    <3>1. from.front = front /\ from.tail = tail /\ TrackFor(plan, d, t) = track /\ TrackOf(x, t) = track
          /\ x.trials[t] = trial
      BY <2>7, <2>9, <2>11, <2>13, <2>14
    <3>2. x.entries = plan.entries /\ x.place = plan.place
      BY <1>2, <2>4
    <3>3. s \in Stations
      <4>1. d.entries \in Seq(Stations)
        BY DEF Databases
      <4> QED
        BY <2>4, <2>14, <4>1, FiniteRange
    <3>4. x.rows[t] = TrialRows(trial, track, from, plan, d.rows[t])
      BY <2>6, <2>14, <3>1
    <3>5. d.rows[t][s].source # "manual_exclude"
      BY <2>7, <2>14, <3>3
    <3> HIDE DEF trial, from, front, tail, track
    <3>6. row = TrialRows(trial, track, from, plan, d.rows[t])[s]
      BY <2>14, <3>4
    <3>7. s \in Range(plan.entries) /\ dist = NearestOnTrack(track, plan.place[s]) /\ track # NoTrack
      BY <2>14, <3>1, <3>2
    <3>8. /\ dist # Off => /\ row.source # "none" /\ row.dist = dist
                           /\ row.first = Arrival(from.front, dist, trial.front)
                           /\ row.last = Arrival(from.tail, dist, trial.tail)
          /\ dist = Off /\ track # NoTrack =>
               row.source \in {"none", "manual_include"} /\ row.first = Null /\ row.last = Null
      BY <3>3, <3>5, <3>6, <3>7, TrialRowIs
    <3> QED
      BY <3>1, <3>7, <3>8 DEF front, tail
  <2>15. InSequence(x.trials) = order
    BY <2>4 DEF IsRecompute
  <2> HIDE DEF fronts, tails, n
  <2>16. ASSUME NEW k \in 1..n, NEW s \in Range(x.entries) PROVE RowIsExact(x, k, s)
    <3> DEFINE t == order[k]
               row == x.rows[t][s]
               dist == NearestOnTrack(TrackOf(x, t), x.place[s])
    <3>1. RowIsExact(x, k, s) =
            (TrackOf(x, t) # NoTrack /\ row.source # "manual_exclude" =>
               IF dist = Off
               THEN row.source \in {"none", "manual_include"} /\ row.first = Null /\ row.last = Null
               ELSE /\ row.source # "none" /\ row.dist = dist
                    /\ row.first = Arrival(EnvelopeStart(x, k, Fronts(x)), dist, x.trials[t].front)
                    /\ row.last = Arrival(EnvelopeStart(x, k, Tails(x)), dist, x.trials[t].tail))
      BY <2>15 DEF RowIsExact
    <3>2. t = order[k] /\ row = x.rows[t][s] /\ dist = NearestOnTrack(TrackOf(x, t), x.place[s])
      OBVIOUS
    <3> HIDE DEF t, row, dist
    <3>3. TrackOf(x, t) # NoTrack /\ row.source # "manual_exclude" =>
            IF dist = Off
            THEN row.source \in {"none", "manual_include"} /\ row.first = Null /\ row.last = Null
            ELSE /\ row.source # "none" /\ row.dist = dist
                 /\ row.first = Arrival(EnvelopeStart(x, k, Fronts(x)), dist, x.trials[t].front)
                 /\ row.last = Arrival(EnvelopeStart(x, k, Tails(x)), dist, x.trials[t].tail)
      BY <2>14, <3>2
    <3> QED
      BY <3>1, <3>3
  <2> QED
    BY <2>3, <2>15, <2>16 DEF Exact
<1> QED
  BY <1>3, <1>4
-----------------------------------------------------------------------------
(* One element taken out of a sequence, or put into it.                      *)
IsRemoval(r, s, i) ==
  /\ Len(r) = Len(s) - 1
  /\ \A j \in 1..Len(r) : r[j] = IF j < i THEN s[j] ELSE s[j + 1]
IsInsertion(r, s, i, e) ==
  /\ Len(r) = Len(s) + 1
  /\ \A j \in 1..Len(r) : r[j] = IF j < i THEN s[j] ELSE IF j = i THEN e ELSE s[j - 1]

LEMMA RemoveAtType ==
  ASSUME NEW S, NEW s \in Seq(S), NEW i \in DOMAIN s
  PROVE  RemoveAt(s, i) \in Seq(S) /\ Len(RemoveAt(s, i)) = Len(s) - 1
<1> DEFINE n == Len(s)
<1>1. n \in Nat /\ DOMAIN s = 1..n /\ \A j \in 1..n : s[j] \in S
  BY LenProperties
<1>2. i \in 1..n /\ i - 1 \in Int /\ i + 1 \in Int /\ n \in Int
  BY <1>1
<1>3. \A j \in 1..(i - 1) : s[j] \in S
  BY <1>1, <1>2
<1>4. \A j \in (i + 1)..n : s[j] \in S
  BY <1>1, <1>2
<1> HIDE DEF n
<1>5. SubSeq(s, 1, i - 1) \in Seq(S) /\ Len(SubSeq(s, 1, i - 1)) = i - 1
  <2>1. /\ SubSeq(s, 1, i - 1) \in Seq(S)
        /\ Len(SubSeq(s, 1, i - 1)) = IF 1 <= i - 1 THEN i - 1 - 1 + 1 ELSE 0
    BY <1>2, <1>3, SubSeqProperties
  <2> QED
    BY <1>2, <2>1
<1>6. SubSeq(s, i + 1, n) \in Seq(S) /\ Len(SubSeq(s, i + 1, n)) = n - i
  <2>1. /\ SubSeq(s, i + 1, n) \in Seq(S)
        /\ Len(SubSeq(s, i + 1, n)) = IF i + 1 <= n THEN n - (i + 1) + 1 ELSE 0
    BY <1>2, <1>4, SubSeqProperties
  <2> QED
    BY <1>1, <1>2, <2>1
<1>7. /\ SubSeq(s, 1, i - 1) \o SubSeq(s, i + 1, n) \in Seq(S)
      /\ Len(SubSeq(s, 1, i - 1) \o SubSeq(s, i + 1, n)) = (i - 1) + (n - i)
  BY <1>5, <1>6, ConcatProperties
<1>8. RemoveAt(s, i) = SubSeq(s, 1, i - 1) \o SubSeq(s, i + 1, n)
  BY DEF RemoveAt, n
<1>9. (i - 1) + (n - i) = n - 1
  BY <1>1, <1>2
<1>10. RemoveAt(s, i) \in Seq(S) /\ Len(RemoveAt(s, i)) = n - 1
  BY <1>7, <1>8, <1>9
<1> QED
  BY <1>10 DEF n

LEMMA RemoveAtIs ==
  ASSUME NEW S, NEW s \in Seq(S), NEW i \in DOMAIN s
  PROVE  RemoveAt(s, i) \in Seq(S) /\ IsRemoval(RemoveAt(s, i), s, i)
<1> DEFINE n == Len(s)
           left == SubSeq(s, 1, i - 1)
           right == SubSeq(s, i + 1, n)
           r == RemoveAt(s, i)
<1>1. n \in Nat /\ DOMAIN s = 1..n /\ (\A j \in 1..n : s[j] \in S) /\ i \in 1..n
  BY LenProperties
<1>2. i - 1 \in Int /\ i + 1 \in Int /\ n \in Int
  BY <1>1
<1>3. r \in Seq(S) /\ Len(r) = n - 1
  BY RemoveAtType
<1>4. r = left \o right
  BY DEF RemoveAt
<1> HIDE DEF n, r
<1>5. left \in Seq(S) /\ Len(left) = i - 1 /\ \A j \in 1..(i - 1) : left[j] = s[j]
  <2>1. \A j \in 1..(i - 1) : s[j] \in S
    BY <1>1, <1>2
  <2>2. /\ left \in Seq(S) /\ Len(left) = IF 1 <= i - 1 THEN i - 1 - 1 + 1 ELSE 0
        /\ \A j \in 1 .. i - 1 - 1 + 1 : left[j] = s[1 + j - 1]
    BY <1>2, <2>1, SubSeqProperties
  <2>3. Len(left) = i - 1
    BY <1>1, <2>2
  <2>4. \A j \in 1..(i - 1) : j \in 1..(i - 1 - 1 + 1) /\ 1 + j - 1 = j
    BY <1>1
  <2> HIDE DEF left
  <2> QED
    BY <2>2, <2>3, <2>4
<1>6. right \in Seq(S) /\ Len(right) = n - i /\ \A j \in 1..(n - i) : right[j] = s[i + j]
  <2>1. \A j \in (i + 1)..n : s[j] \in S
    BY <1>1, <1>2
  <2>2. /\ right \in Seq(S) /\ Len(right) = IF i + 1 <= n THEN n - (i + 1) + 1 ELSE 0
        /\ \A j \in 1 .. n - (i + 1) + 1 : right[j] = s[i + 1 + j - 1]
    BY <1>2, <2>1, SubSeqProperties
  <2>3. Len(right) = n - i
    BY <1>1, <2>2
  <2>4. \A j \in 1..(n - i) : j \in 1..(n - (i + 1) + 1) /\ i + 1 + j - 1 = i + j
    BY <1>1
  <2> HIDE DEF right
  <2> QED
    BY <2>2, <2>3, <2>4
<1> HIDE DEF left, right
<1>7. \A j \in 1..(Len(left) + Len(right)) :
        (left \o right)[j] = IF j <= Len(left) THEN left[j] ELSE right[j - Len(left)]
  BY <1>5, <1>6, ConcatProperties
<1>8. ASSUME NEW j \in 1..(n - 1) PROVE r[j] = IF j < i THEN s[j] ELSE s[j + 1]
  <2>1. r[j] = IF j <= i - 1 THEN left[j] ELSE right[j - (i - 1)]
    <3>1. j \in 1..(Len(left) + Len(right))
      BY <1>1, <1>5, <1>6
    <3> QED
      BY <1>4, <1>5, <1>7, <3>1
  <2>2. CASE j < i
    BY <1>1, <1>5, <2>1, <2>2
  <2>3. CASE ~(j < i)
    <3>1. j - (i - 1) \in 1..(n - i) /\ i + (j - (i - 1)) = j + 1 /\ ~(j <= i - 1)
      BY <1>1, <2>3
    <3>2. right[j - (i - 1)] = s[i + (j - (i - 1))]
      BY <1>6, <3>1
    <3> QED
      BY <2>1, <2>3, <3>1, <3>2
  <2> QED
    BY <2>2, <2>3
<1>9. r \in Seq(S) /\ Len(r) = Len(s) - 1 /\ \A j \in 1..Len(r) : r[j] = IF j < i THEN s[j] ELSE s[j + 1]
  BY <1>3, <1>8 DEF n
<1> QED
  BY <1>9 DEF r, IsRemoval
-----------------------------------------------------------------------------
(* The calls there are, with what they carry.                                *)
Items == [trial : Trials, sequence : Nat]
Operations == {"create", "patch", "delete", "reorder", "upload", "delete gpx", "list", "move", "row",
               "delete vs", "delete race"}
ProperCall(call) ==
  /\ call.op \in Operations
  /\ call.op = "create" => call.sequence \in Nat
  /\ call.op = "patch" => /\ call.trial \in Trials /\ call.patch.start \in NatOrNull
                          /\ call.patch.front \in Nat /\ call.patch.tail \in Nat
  /\ call.op = "delete" => call.trial \in Trials
  /\ call.op = "reorder" => call.items \in Seq(Items)
  /\ call.op = "upload" => call.trial \in Trials /\ call.track \in Tracks
  /\ call.op = "list" => call.list \in Seq(Stations)
  /\ call.op = "move" => call.vs \in Stations /\ call.place \in Places
  /\ call.op = "delete vs" => call.vs \in Stations
  /\ call.op = "row" => call.trial \in Trials /\ call.vs \in Stations /\ call.source \in Sources

(* Tables in shape, and an answer that leaves them so: a refusal changes     *)
(* nothing.                                                                  *)
Sound(d) == d \in Databases /\ Consistent(d)
SoundAnswer(d, a) ==
  /\ a.ok \in BOOLEAN /\ Sound(a.db)
  /\ ~a.ok => a.db = d

LEMMA AnswerIs ==
  ASSUME NEW d
  PROVE  /\ Answer(TRUE, d).ok = TRUE /\ Answer(TRUE, d).db = d
         /\ Answer(FALSE, d).ok = FALSE /\ Answer(FALSE, d).db = d
BY DEF Answer

LEMMA RefusalIs ==
  ASSUME NEW d, Sound(d)
  PROVE  SoundAnswer(d, Answer(FALSE, d))
BY AnswerIs DEF SoundAnswer

LEMMA AcceptanceIs ==
  ASSUME NEW d, NEW x, Sound(x)
  PROVE  SoundAnswer(d, Answer(TRUE, x))
BY AnswerIs DEF SoundAnswer

LEMMA CreateSound ==
  ASSUME NEW d, Sound(d), NEW seq \in Nat, d.born < Cardinality(Trials)
  PROVE  SoundAnswer(d, CreateTrial(d, seq))
<1>1. CASE ~d.race \/ Taken(d.trials, seq, Trials)
  BY <1>1, RefusalIs DEF CreateTrial
<1>2. CASE ~(~d.race \/ Taken(d.trials, seq, Trials))
  <2> DEFINE new == [seq |-> seq, start |-> Null, front |-> 2, tail |-> 1]
             t == d.born + 1
             trials == [d.trials EXCEPT ![t] = new]
             x == [d EXCEPT !.born = t, !.trials = trials]
  <2>1. CreateTrial(d, seq) = Answer(TRUE, x)
    BY <1>2 DEF CreateTrial
  <2>2. t \in Trials /\ t \in 0..Cardinality(Trials)
    BY RaceTablesAssumption, FS_CardinalityType DEF Sound, Databases
  <2>3. new \in TrialRow
    BY DEF TrialRow, NatOrNull
  <2> HIDE DEF t
  <2>4. trials \in TrialTables
    BY <2>2, <2>3 DEF Sound, Databases, TrialTables
  <2>5. \A u \in Trials : trials[u] = IF u = t THEN new ELSE d.trials[u]
    BY <2>2 DEF Sound, Databases, TrialTables
  <2>6. new.seq = seq
    OBVIOUS
  <2>7. \A u, v \in There(trials) : trials[u].seq = trials[v].seq => u = v
    <3> HIDE DEF trials, new
    <3> SUFFICES ASSUME NEW u \in There(trials), NEW v \in There(trials), trials[u].seq = trials[v].seq, u # v
                 PROVE  FALSE
      OBVIOUS
    <3>1. u \in Trials /\ v \in Trials /\ trials[u] # NoTrial /\ trials[v] # NoTrial
      BY DEF There
    <3>2. u # t => d.trials[u].seq # seq
      BY <1>2, <2>5, <3>1 DEF Taken
    <3>3. v # t => d.trials[v].seq # seq
      BY <1>2, <2>5, <3>1 DEF Taken
    <3>4. u # t /\ v # t
      BY <2>5, <2>6, <3>1, <3>2, <3>3
    <3>5. u \in Live(d) /\ v \in Live(d) /\ d.trials[u].seq = d.trials[v].seq
      BY <2>5, <3>1, <3>4 DEF Live
    <3> QED
      BY <3>5 DEF Sound, Consistent
  <2> HIDE DEF trials
  <2>8. x \in Databases /\ x.trials = trials /\ x.race = d.race /\ x.vs = d.vs /\ x.entries = d.entries
    BY <2>2, <2>4 DEF Sound, Databases
  <2> HIDE DEF x
  <2>9. Sound(x)
    BY <1>2, <2>7, <2>8 DEF Sound, Consistent, Live, There
  <2> QED
    BY <2>1, <2>9, AcceptanceIs
<1> QED
  BY <1>1, <1>2

LEMMA PatchSound ==
  ASSUME NEW d, Sound(d), NEW t \in Trials, NEW patch, patch.start \in NatOrNull,
         patch.front \in Nat, patch.tail \in Nat
  PROVE  SoundAnswer(d, PatchTrial(d, t, patch))
<1>1. CASE t \notin Live(d)
  BY <1>1, RefusalIs DEF PatchTrial
<1>2. CASE t \in Live(d)
  <2> DEFINE start == IF patch.start = Null THEN d.trials[t].start ELSE patch.start
             new == [d.trials[t] EXCEPT !.start = start, !.front = patch.front, !.tail = patch.tail]
             trials == [d.trials EXCEPT ![t] = new]
             x == [d EXCEPT !.trials = trials]
  <2>1. PatchTrial(d, t, patch) = Answer(TRUE, x)
    BY <1>2 DEF PatchTrial
  <2>2. d.trials \in TrialTables /\ d.trials[t] \in TrialRow
    BY <1>2 DEF Sound, Databases, TrialTables, Live
  <2>3. start \in NatOrNull
    BY <2>2 DEF TrialRow
  <2> HIDE DEF start
  <2>4. new \in TrialRow /\ new.seq = d.trials[t].seq
    BY <2>2, <2>3 DEF TrialRow
  <2> HIDE DEF new
  <2>5. trials \in TrialTables /\ \A u \in Trials : trials[u] = IF u = t THEN new ELSE d.trials[u]
    BY <2>2, <2>4 DEF TrialTables
  <2> HIDE DEF trials
  <2>6. x \in Databases /\ x.trials = trials /\ x.race = d.race /\ x.vs = d.vs /\ x.entries = d.entries
    BY <2>5 DEF Sound, Databases
  <2> HIDE DEF x
  <2>7. \A u \in Live(x) : u \in Live(d) /\ x.trials[u].seq = d.trials[u].seq
    BY <1>2, <2>4, <2>5, <2>6 DEF Live
  <2>8. Sound(x)
    BY <2>6, <2>7 DEF Sound, Consistent
  <2> QED
    BY <2>1, <2>8, AcceptanceIs
<1> QED
  BY <1>1, <1>2

LEMMA EmptyRows ==
  ASSUME NEW rows \in StationRows
  PROVE  [s \in Stations |-> NoRow(rows[s].n)] \in StationRows
BY DEF StationRows, NoRow, Row, Sources, NatOrNull, Null

LEMMA DeleteSound ==
  ASSUME NEW d, Sound(d), NEW t \in Trials
  PROVE  SoundAnswer(d, DeleteTrial(d, t))
<1>1. CASE t \notin Live(d)
  BY <1>1, RefusalIs DEF DeleteTrial
<1>2. CASE t \in Live(d)
  <2> DEFINE trials == [d.trials EXCEPT ![t] = NoTrial]
             empty == [s \in Stations |-> NoRow(d.rows[t][s].n)]
             rows == [d.rows EXCEPT ![t] = empty]
             files == {IF f.trial = t THEN [f EXCEPT !.trial = 0] ELSE f : f \in d.files}
             x == [d EXCEPT !.trials = trials, !.rows = rows, !.files = files]
  <2>1. DeleteTrial(d, t) = Answer(TRUE, x)
    BY <1>2 DEF DeleteTrial
  <2>2. trials \in TrialTables /\ \A u \in Trials : trials[u] = IF u = t THEN NoTrial ELSE d.trials[u]
    BY DEF Sound, Databases, TrialTables
  <2>3. empty \in StationRows
    <3>1. d.rows[t] \in StationRows
      BY DEF Sound, Databases
    <3> QED
      BY <3>1, EmptyRows
  <2> HIDE DEF empty
  <2>4. rows \in [Trials -> StationRows]
    BY <2>3 DEF Sound, Databases
  <2>5. files \in SUBSET Files
    <3>1. \A f \in d.files : (IF f.trial = t THEN [f EXCEPT !.trial = 0] ELSE f) \in Files
      BY DEF Sound, Databases, Files
    <3> QED
      BY <3>1
  <2> HIDE DEF trials, rows, files
  <2>6. x \in Databases /\ x.trials = trials /\ x.race = d.race /\ x.vs = d.vs /\ x.entries = d.entries
    BY <2>2, <2>4, <2>5 DEF Sound, Databases
  <2> HIDE DEF x
  <2>7. \A u \in Live(x) : u \in Live(d) /\ x.trials[u].seq = d.trials[u].seq
    BY <2>2, <2>6 DEF Live
  <2>8. Sound(x)
    BY <2>6, <2>7 DEF Sound, Consistent
  <2> QED
    BY <2>1, <2>8, AcceptanceIs
<1> QED
  BY <1>1, <1>2

LEMMA UploadSound ==
  ASSUME NEW d, Sound(d), NEW t \in Trials, NEW track \in Tracks
  PROVE  SoundAnswer(d, UploadGPX(d, t, track))
<1>1. CASE t \notin Live(d)
  BY <1>1, RefusalIs DEF UploadGPX
<1>2. CASE t \in Live(d)
  <2> DEFINE files == d.files \cup {[id |-> d.uploads + 1, trial |-> t, track |-> track]}
             x == [d EXCEPT !.uploads = d.uploads + 1, !.files = files]
  <2>1. UploadGPX(d, t, track) = Answer(TRUE, x)
    BY <1>2 DEF UploadGPX
  <2>2. files \in SUBSET Files /\ d.uploads + 1 \in Nat
    BY DEF Sound, Databases, Files
  <2> HIDE DEF files
  <2>3. x \in Databases /\ x.trials = d.trials /\ x.race = d.race /\ x.vs = d.vs /\ x.entries = d.entries
    BY <2>2 DEF Sound, Databases
  <2> HIDE DEF x
  <2>4. Sound(x)
    BY <2>3 DEF Sound, Consistent, Live
  <2> QED
    BY <2>1, <2>4, AcceptanceIs
<1> QED
  BY <1>1, <1>2

LEMMA DeleteGPXSound ==
  ASSUME NEW d, Sound(d), NEW t, NEW id
  PROVE  SoundAnswer(d, DeleteGPX(d, t, id))
<1> DEFINE files == {f \in d.files : ~(f.id = id /\ f.trial = t)}
           x == [d EXCEPT !.files = files]
<1>1. DeleteGPX(d, t, id) \in {Answer(FALSE, d), Answer(TRUE, x)}
  BY DEF DeleteGPX
<1>2. files \in SUBSET Files
  BY DEF Sound, Databases
<1> HIDE DEF files
<1>3. x \in Databases /\ x.trials = d.trials /\ x.race = d.race /\ x.vs = d.vs /\ x.entries = d.entries
  BY <1>2 DEF Sound, Databases
<1> HIDE DEF x
<1>4. Sound(x)
  BY <1>3 DEF Sound, Consistent, Live
<1> QED
  BY <1>1, <1>4, RefusalIs, AcceptanceIs

LEMMA ListSound ==
  ASSUME NEW d, Sound(d), NEW list \in Seq(Stations)
  PROVE  SoundAnswer(d, ReplaceList(d, list))
<1> DEFINE Bad == list # <<>> /\ (~d.race \/ ~IsInjective(list) \/ ~(Range(list) \subseteq d.vs))
<1>1. CASE Bad
  BY <1>1, RefusalIs DEF ReplaceList
<1>2. CASE ~Bad
  <2> DEFINE x == [d EXCEPT !.entries = list]
  <2>1. ReplaceList(d, list) = Answer(TRUE, x)
    BY <1>2 DEF ReplaceList
  <2>2. x \in Databases /\ x.trials = d.trials /\ x.race = d.race /\ x.vs = d.vs /\ x.entries = list
    BY DEF Sound, Databases
  <2> HIDE DEF x
  <2>4. IsInjective(list) /\ Range(list) \subseteq d.vs
    <3>1. CASE list = <<>>
      BY <3>1 DEF IsInjective, Range
    <3> QED
      BY <1>2, <3>1
  <2>3. Sound(x)
    BY <1>2, <2>2, <2>4 DEF Sound, Consistent, Live
  <2> QED
    BY <2>1, <2>3, AcceptanceIs
<1> QED
  BY <1>1, <1>2

LEMMA MoveSound ==
  ASSUME NEW d, Sound(d), NEW s \in Stations, NEW place \in Places
  PROVE  SoundAnswer(d, MoveVS(d, s, place))
<1> DEFINE places == [d.place EXCEPT ![s] = place]
           x == [d EXCEPT !.place = places]
<1>1. MoveVS(d, s, place) \in {Answer(FALSE, d), Answer(TRUE, x)}
  BY DEF MoveVS
<1>2. places \in [Stations -> Places]
  BY DEF Sound, Databases
<1> HIDE DEF places
<1>3. x \in Databases /\ x.trials = d.trials /\ x.race = d.race /\ x.vs = d.vs /\ x.entries = d.entries
  BY <1>2 DEF Sound, Databases
<1> HIDE DEF x
<1>4. Sound(x)
  BY <1>3 DEF Sound, Consistent, Live
<1> QED
  BY <1>1, <1>4, RefusalIs, AcceptanceIs

LEMMA RowSound ==
  ASSUME NEW d, Sound(d), NEW t \in Trials, NEW s \in Stations, NEW n, NEW source \in Sources
  PROVE  SoundAnswer(d, PatchTrialVSRow(d, t, s, n, source))
<1> DEFINE row == [d.rows[t][s] EXCEPT !.source = source]
           of == [d.rows[t] EXCEPT ![s] = row]
           rows == [d.rows EXCEPT ![t] = of]
           x == [d EXCEPT !.rows = rows]
<1>1. PatchTrialVSRow(d, t, s, n, source) \in {Answer(FALSE, d), Answer(TRUE, x)}
  BY DEF PatchTrialVSRow
<1>2. d.rows[t] \in StationRows /\ d.rows \in [Trials -> StationRows]
  BY DEF Sound, Databases
<1>3. row \in [source : Sources, dist : NatOrNull, first : NatOrNull, last : NatOrNull, n : Nat]
  BY <1>2 DEF StationRows
<1> HIDE DEF row
<1>4. of \in StationRows
  BY <1>2, <1>3 DEF StationRows
<1> HIDE DEF of
<1>5. rows \in [Trials -> StationRows]
  BY <1>2, <1>4
<1> HIDE DEF rows
<1>6. x \in Databases /\ x.trials = d.trials /\ x.race = d.race /\ x.vs = d.vs /\ x.entries = d.entries
  BY <1>5 DEF Sound, Databases
<1> HIDE DEF x
<1>7. Sound(x)
  BY <1>6 DEF Sound, Consistent, Live
<1> QED
  BY <1>1, <1>7, RefusalIs, AcceptanceIs

LEMMA DeleteRaceSound ==
  ASSUME NEW d, Sound(d)
  PROVE  SoundAnswer(d, DeleteRace(d))
<1>1. CASE ~d.race
  BY <1>1, RefusalIs DEF DeleteRace
<1>2. CASE d.race
  <2> DEFINE trials == [t \in Trials |-> NoTrial]
             rows == [t \in Trials |-> [s \in Stations |-> NoRow(d.rows[t][s].n)]]
             x == [d EXCEPT !.race = FALSE, !.trials = trials, !.entries = <<>>, !.files = {}, !.rows = rows]
  <2>1. DeleteRace(d) = Answer(TRUE, x)
    BY <1>2 DEF DeleteRace
  <2>2. trials \in TrialTables /\ \A t \in Trials : trials[t] = NoTrial
    BY DEF TrialTables
  <2>3. rows \in [Trials -> StationRows]
    <3>1. \A t \in Trials : d.rows[t] \in StationRows
      BY DEF Sound, Databases
    <3>2. \A t \in Trials : [s \in Stations |-> NoRow(d.rows[t][s].n)] \in StationRows
      BY <3>1, EmptyRows
    <3> QED
      BY <3>2
  <2>4. <<>> \in Seq(Stations) /\ {} \in SUBSET Files
    OBVIOUS
  <2> HIDE DEF trials, rows
  <2>5. x \in Databases /\ x.trials = trials /\ x.race = FALSE /\ x.vs = d.vs /\ x.entries = <<>>
    BY <2>2, <2>3, <2>4 DEF Sound, Databases
  <2> HIDE DEF x
  <2>6. Live(x) = {}
    BY <2>2, <2>5 DEF Live
  <2>8. IsInjective(x.entries) /\ Range(x.entries) = {}
    BY <2>5 DEF IsInjective, Range
  <2>7. Sound(x)
    BY <2>5, <2>6, <2>8 DEF Sound, Consistent
  <2> QED
    BY <2>1, <2>7, AcceptanceIs
<1> QED
  BY <1>1, <1>2
(* The rows of a station that goes, and the list without it.                 *)
LEMMA UnlistedIs ==
  ASSUME NEW list \in Seq(Stations), IsInjective(list), NEW s \in Stations
  PROVE  /\ Unlisted(list, s) \in Seq(Stations) /\ IsInjective(Unlisted(list, s))
         /\ Range(Unlisted(list, s)) = Range(list) \ {s}
         /\ list = <<>> => Unlisted(list, s) = <<>>
<1> DEFINE n == Len(list)
           at == CHOOSE i \in DOMAIN list : list[i] = s
           r == RemoveAt(list, at)
<1>1. n \in Nat /\ DOMAIN list = 1..n /\ Range(list) = {list[i] : i \in 1..n}
  BY LenProperties DEF Range
<1>2. CASE s \notin Range(list)
  <2>1. Unlisted(list, s) = list
    BY <1>2 DEF Unlisted
  <2> QED
    BY <1>2, <2>1
<1>3. CASE s \in Range(list)
  <2>1. at \in 1..n /\ list[at] = s
    BY <1>1, <1>3
  <2>2. Unlisted(list, s) = r
    BY <1>3 DEF Unlisted
  <2> HIDE DEF at
  <2>3. r \in Seq(Stations) /\ IsRemoval(r, list, at)
    BY <1>1, <2>1, RemoveAtIs
  <2> HIDE DEF r, n
  <2>4. DOMAIN r = 1..(n - 1) /\ \A j \in 1..(n - 1) : r[j] = IF j < at THEN list[j] ELSE list[j + 1]
    <3>1. Len(r) = n - 1
      BY <2>3 DEF IsRemoval, n
    <3> QED
      BY <2>3, <3>1, LenProperties DEF IsRemoval
  <2>5. \A i, j \in 1..n : list[i] = list[j] => i = j
    BY <1>1 DEF IsInjective
  <2>6. IsInjective(r)
    <3> SUFFICES ASSUME NEW i \in 1..(n - 1), NEW j \in 1..(n - 1), r[i] = r[j] PROVE i = j
      BY <2>4 DEF IsInjective
    <3> DEFINE a == IF i < at THEN i ELSE i + 1
               b == IF j < at THEN j ELSE j + 1
    <3>1. a \in 1..n /\ b \in 1..n /\ r[i] = list[a] /\ r[j] = list[b]
      BY <1>1, <2>1, <2>4
    <3>2. a = b
      BY <2>5, <3>1
    <3> QED
      BY <1>1, <2>1, <3>2
  <2>7. ASSUME NEW x \in Range(r) PROVE x \in Range(list) \ {s}
    <3>1. PICK j \in 1..(n - 1) : r[j] = x
      BY <2>4, <2>7 DEF Range
    <3> DEFINE a == IF j < at THEN j ELSE j + 1
    <3>2. a \in 1..n /\ a # at /\ list[a] = x
      BY <1>1, <2>1, <2>4, <3>1
    <3> HIDE DEF a
    <3> QED
      BY <1>1, <2>1, <2>5, <3>2
  <2>8. ASSUME NEW x \in Range(list), x # s PROVE x \in Range(r)
    <3>1. PICK i \in 1..n : list[i] = x
      BY <1>1
    <3> DEFINE a == IF i < at THEN i ELSE i - 1
    <3>2. i # at
      BY <2>1, <2>8, <3>1
    <3>3. a \in 1..(n - 1) /\ r[a] = x
      BY <1>1, <2>1, <2>4, <3>1, <3>2
    <3> HIDE DEF a
    <3> QED
      BY <2>4, <3>3 DEF Range
  <2>9. list # <<>>
    BY <1>1, <2>1
  <2> QED
    BY <2>2, <2>3, <2>6, <2>7, <2>8, <2>9
<1> QED
  BY <1>2, <1>3

(* What the deletion of a station that is there leaves.                      *)
Without(d, s) ==
  [d EXCEPT !.vs = d.vs \ {s}, !.entries = Unlisted(d.entries, s), !.rows = RowsWithout(d.rows, s)]
LEMMA WithoutIs ==
  ASSUME NEW d, Sound(d), NEW s \in Stations
  PROVE  LET x == Without(d, s) IN
         /\ x.race = d.race /\ x.trials = d.trials /\ x.files = d.files /\ x.place = d.place
         /\ x.vs = d.vs \ {s} /\ x.entries = Unlisted(d.entries, s) /\ x.rows = RowsWithout(d.rows, s)
         /\ x.born = d.born /\ x.uploads = d.uploads
BY DEF Without, Sound, Databases

LEMMA DeleteVSIs ==
  ASSUME NEW d, NEW s
  PROVE  DeleteVS(d, s) \in {Answer(FALSE, d), Answer(TRUE, Without(d, s))}
BY DEF DeleteVS, Without

LEMMA RowsWithoutIs ==
  ASSUME NEW rows \in RowTables, NEW s \in Stations
  PROVE  /\ RowsWithout(rows, s) \in RowTables
         /\ \A t \in Trials, u \in Stations : u # s => RowsWithout(rows, s)[t][u] = rows[t][u]
<1> DEFINE of(t) == [rows[t] EXCEPT ![s] = NoRow(rows[t][s].n)]
<1>1. ASSUME NEW t \in Trials PROVE of(t) \in StationRows /\ \A u \in Stations : u # s => of(t)[u] = rows[t][u]
  <2>1. rows[t] \in StationRows
    BY DEF RowTables
  <2>2. NoRow(rows[t][s].n) \in [source : Sources, dist : NatOrNull, first : NatOrNull, last : NatOrNull, n : Nat]
    BY <2>1 DEF StationRows, NoRow, Row, Sources, NatOrNull
  <2> QED
    BY <2>1, <2>2 DEF StationRows
<1>2. RowsWithout(rows, s) = [t \in Trials |-> of(t)]
  BY DEF RowsWithout
<1> HIDE DEF of
<1> QED
  BY <1>1, <1>2 DEF RowTables

LEMMA DeleteVSSound ==
  ASSUME NEW d, Sound(d), NEW s \in Stations
  PROVE  SoundAnswer(d, DeleteVS(d, s))
<1> DEFINE x == Without(d, s)
           list == Unlisted(d.entries, s)
           rows == RowsWithout(d.rows, s)
<1>1. d.entries \in Seq(Stations) /\ IsInjective(d.entries) /\ Range(d.entries) \subseteq d.vs
      /\ d.rows \in RowTables
  BY DEF Sound, Databases, Consistent, RowTables
<1>2. /\ list \in Seq(Stations) /\ IsInjective(list) /\ Range(list) = Range(d.entries) \ {s}
      /\ d.entries = <<>> => list = <<>>
  BY <1>1, UnlistedIs
<1>3. rows \in RowTables
  BY <1>1, RowsWithoutIs
<1>4. x = [d EXCEPT !.vs = d.vs \ {s}, !.entries = list, !.rows = rows]
  BY DEF Without
<1>5. /\ x.race = d.race /\ x.trials = d.trials /\ x.vs = d.vs \ {s} /\ x.entries = list
  BY WithoutIs
<1> HIDE DEF x, list, rows
<1>6. x \in Databases
  BY <1>2, <1>3, <1>4 DEF Sound, Databases, RowTables
<1>7. Sound(x)
  BY <1>1, <1>2, <1>5, <1>6 DEF Sound, Consistent, Live
<1> QED
  BY <1>7, DeleteVSIs, RefusalIs, AcceptanceIs DEF x
-----------------------------------------------------------------------------
(* A number set keeps the numbers unique, or refuses.                        *)
LEMMA SetSequenceSound ==
  ASSUME NEW trials \in TrialTables, Unique(trials), NEW item \in Items,
         NEW new, new = SetSequence(trials, item), new # Refused
  PROVE  new \in TrialTables /\ Unique(new) /\ There(new) = There(trials)
<1> DEFINE t == item.trial
           seq == item.sequence
           trial == [trials[t] EXCEPT !.seq = seq]
<1>1. CASE trials = Refused \/ trials[t] = NoTrial
  BY <1>1 DEF SetSequence
<1>2. CASE ~(trials = Refused \/ trials[t] = NoTrial)
  <2>1. ~Taken(trials, seq, Trials \ {t}) /\ new = [trials EXCEPT ![t].seq = seq]
    BY <1>2 DEF SetSequence
  <2>2. new = [trials EXCEPT ![t] = trial]
    BY <2>1
  <2>3. t \in Trials /\ seq \in Nat /\ trials[t] \in TrialRow
    BY <1>2 DEF Items, TrialTables
  <2>4. trial \in TrialRow /\ trial.seq = seq
    BY <2>3 DEF TrialRow
  <2>5. trial # NoTrial
    BY <2>4, <2>3 DEF NoTrial, Null
  <2> HIDE DEF trial
  <2>6. new \in TrialTables /\ \A u \in Trials : new[u] = IF u = t THEN trial ELSE trials[u]
    BY <2>2, <2>3, <2>4 DEF TrialTables
  <2>7. There(new) = There(trials)
    BY <1>2, <2>3, <2>5, <2>6 DEF There
  <2>8. ASSUME NEW u \in There(new), NEW v \in There(new), new[u].seq = new[v].seq, u # v PROVE FALSE
    <3>1. u \in Trials /\ v \in Trials /\ u \in There(trials) /\ v \in There(trials)
      BY <2>7 DEF There
    <3>2. \A w \in Trials : w # t /\ trials[w] # NoTrial => trials[w].seq # seq
      BY <2>1 DEF Taken
    <3>3. trials[u] # NoTrial /\ trials[v] # NoTrial
      BY <3>1 DEF There
    <3>4. u # t /\ v # t
      BY <2>4, <2>6, <2>8, <3>1, <3>2, <3>3
    <3> QED
      BY <2>6, <2>8, <3>1, <3>4 DEF Unique
  <2> QED
    BY <2>6, <2>7, <2>8 DEF Unique
<1> QED
  BY <1>1, <1>2

(* The numbers after each update.                                            *)
IsNumbering(set, trials, updates) ==
  /\ set[0] = trials
  /\ \A i \in 1..Len(updates) : set[i] = SetSequence(set[i - 1], updates[i])
  /\ \A i \in 0..Len(updates) :
       set[i] # Refused => set[i] \in TrialTables /\ Unique(set[i]) /\ There(set[i]) = There(trials)

Renumbered(trials, updates) ==
  CHOOSE set : set = [i \in 0..Len(updates) |->
    IF i = 0 THEN trials ELSE SetSequence(set[i - 1], updates[i])]

LEMMA PhasesType ==
  ASSUME NEW items \in Seq(Items)
  PROVE  /\ Phases(items) \in Seq(Items) /\ Len(Phases(items)) = 2 * Len(items)
         /\ \A i \in 1..Len(items) :
              /\ Phases(items)[i] = [trial |-> items[i].trial, sequence |-> Temporary + i - 1]
              /\ Phases(items)[Len(items) + i] = items[i]
<1> DEFINE n == Len(items)
           first == [i \in DOMAIN items |-> [trial |-> items[i].trial, sequence |-> Temporary + i - 1]]
<1>1. n \in Nat /\ DOMAIN items = 1..n /\ \A i \in 1..n : items[i] \in Items
  BY LenProperties
<1>2. first \in [1..n -> Items]
  BY <1>1 DEF Items, Temporary
<1>3. first \in Seq(Items) /\ Len(first) = n
  BY <1>1, <1>2, SeqDef, LenProperties
<1>4. Phases(items) = first \o items
  BY DEF Phases
<1>5. \A i \in 1..n : first[i] = [trial |-> items[i].trial, sequence |-> Temporary + i - 1]
  BY <1>1
<1> HIDE DEF first, n
<1>6. /\ first \o items \in Seq(Items) /\ Len(first \o items) = n + n
      /\ \A i \in 1..(n + n) : (first \o items)[i] = IF i <= n THEN first[i] ELSE items[i - n]
  <2>1. items \in Seq(Items) /\ Len(items) = n
    BY DEF n
  <2>2. /\ first \o items \in Seq(Items) /\ Len(first \o items) = Len(first) + Len(items)
        /\ \A i \in 1..(Len(first) + Len(items)) :
             (first \o items)[i] = IF i <= Len(first) THEN first[i] ELSE items[i - Len(first)]
    BY <1>3, <2>1, ConcatProperties
  <2> QED
    BY <1>3, <2>1, <2>2
<1>7. \A i \in 1..n : i \in 1..(n + n) /\ i <= n /\ n + i \in 1..(n + n) /\ ~(n + i <= n) /\ (n + i) - n = i
  BY <1>1
<1>8. \A i \in 1..n : (first \o items)[i] = first[i] /\ (first \o items)[n + i] = items[i]
  BY <1>6, <1>7
<1>9. n + n = 2 * n
  BY <1>1
<1> QED
  BY <1>4, <1>5, <1>6, <1>8, <1>9 DEF n

LEMMA NumberingIs ==
  ASSUME NEW trials \in TrialTables, Unique(trials), NEW updates \in Seq(Items)
  PROVE  IsNumbering(Renumbered(trials, updates), trials, updates)
<1> DEFINE n == Len(updates)
           T == {Refused} \cup {x \in TrialTables : Unique(x) /\ There(x) = There(trials)}
           Body(i, prev) == SetSequence(prev, updates[i])
           next == [p \in (1..n) \X T |-> Body(p[1], p[2])]
           Sets(set) == set = [i \in 0..Len(updates) |->
                                 IF i = 0 THEN trials ELSE SetSequence(set[i - 1], updates[i])]
           set == CHOOSE x : Sets(x)
<1>1. n \in Nat /\ \A i \in 1..n : updates[i] \in Items
  BY LenProperties
<1>2. trials \in T
  OBVIOUS
<1>3. \A i \in 1..n, prev \in T : Body(i, prev) \in T
  <2> SUFFICES ASSUME NEW i \in 1..n, NEW prev \in T, Body(i, prev) # Refused PROVE Body(i, prev) \in T
    OBVIOUS
  <2>1. prev # Refused
    BY DEF SetSequence
  <2> DEFINE new == Body(i, prev)
             item == updates[i]
  <2>2. prev \in TrialTables /\ Unique(prev) /\ There(prev) = There(trials)
    BY <2>1
  <2>3. item \in Items /\ new = SetSequence(prev, item) /\ new # Refused
    BY <1>1
  <2> HIDE DEF new, item
  <2>4. new \in TrialTables /\ Unique(new) /\ There(new) = There(prev)
    BY <2>2, <2>3, SetSequenceSound
  <2>5. new \in T
    BY <2>2, <2>4
  <2> QED
    BY <2>5 DEF new
<1>4. next \in [(1..n) \X T -> T]
  <2> HIDE DEF Body, n, T
  <2> QED
    BY <1>3
<1>5. PICK f \in [0..n -> T] : f[0] = trials /\ \A i \in 1..n : f[i] = next[<<i, f[i - 1]>>]
  <2> HIDE DEF n, T, next
  <2>1. Computable(n, T, trials, next)
    BY <1>1, <1>2, <1>4, RecursiveFunction
  <2> QED
    BY <2>1 DEF Computable
<1>6. \A i \in 1..n : i \in 0..n /\ i - 1 \in 0..n /\ i # 0
  BY <1>1
<1>7. Sets(f)
  <2>1. ASSUME NEW i \in 1..n PROVE f[i] = Body(i, f[i - 1])
    <3> HIDE DEF n, T, Body
    <3>1. <<i, f[i - 1]>> \in (1..n) \X T
      BY <1>5, <1>6
    <3> QED
      BY <1>5, <3>1
  <2>2. \A i \in 0..n : i = 0 \/ i \in 1..n
    BY <1>1
  <2>3. f = [i \in 0..n |-> f[i]]
    BY <1>5
  <2> HIDE DEF next, T
  <2> QED
    BY <1>5, <2>1, <2>2, <2>3
<1>8. Sets(set)
  <2> HIDE DEF Sets
  <2> QED
    BY <1>7
<1>9. Renumbered(trials, updates) = set
  BY DEF Renumbered
<1> HIDE DEF set
<1>10. /\ set[0] = trials
       /\ \A i \in 1..n : set[i] = Body(i, set[i - 1])
  <2>1. set = [i \in 0..n |-> IF i = 0 THEN trials ELSE Body(i, set[i - 1])]
    BY <1>8
  <2> HIDE DEF n, Body, Sets
  <2>2. 0 \in 0..n
    BY <1>1
  <2> QED
    BY <1>6, <2>1, <2>2
<1>11. \A i \in 0..n : set[i] \in T
  <2> DEFINE S == {i \in Nat : set[i] \in T}
  <2> HIDE DEF n, T, Body, Sets
  <2>1. 0 \in S
    BY <1>2, <1>10
  <2>2. ASSUME NEW i \in 1..n, i - 1 \in S PROVE i \in S
    <3>1. i \in Nat /\ set[i - 1] \in T
      BY <1>1, <2>2
    <3>2. Body(i, set[i - 1]) \in T
      BY <1>3, <3>1
    <3> QED
      BY <1>10, <3>1, <3>2
  <2>3. 0..n \subseteq S
    <3> HIDE DEF S
    <3> QED
      BY <1>1, <2>1, <2>2, BoundedInduction
  <2> QED
    BY <2>3
<1> HIDE DEF Sets
<1>12. \A i \in 0..n : set[i] # Refused =>
         set[i] \in TrialTables /\ Unique(set[i]) /\ There(set[i]) = There(trials)
  BY <1>11
<1> QED
  BY <1>9, <1>10, <1>12 DEF IsNumbering

LEMMA ReorderIs ==
  ASSUME NEW d, NEW items
  PROVE  LET updates == Phases(items)
             trials == Renumbered(d.trials, updates)[Len(updates)]
         IN  Reorder(d, items) = IF trials = Refused THEN Answer(FALSE, d)
                                 ELSE Answer(TRUE, [d EXCEPT !.trials = trials])
BY DEF Reorder, Renumbered

LEMMA ReorderSound ==
  ASSUME NEW d, Sound(d), NEW items \in Seq(Items)
  PROVE  SoundAnswer(d, Reorder(d, items))
<1> DEFINE updates == Phases(items)
           trials == Renumbered(d.trials, updates)[Len(updates)]
           x == [d EXCEPT !.trials = trials]
<1>1. Reorder(d, items) = IF trials = Refused THEN Answer(FALSE, d) ELSE Answer(TRUE, x)
  BY ReorderIs
<1>2. CASE trials = Refused
  BY <1>1, <1>2, RefusalIs
<1>3. CASE trials # Refused
  <2>1. d.trials \in TrialTables /\ Unique(d.trials)
    BY DEF Sound, Databases, Consistent, Unique, Live, There
  <2>2. updates \in Seq(Items)
    BY PhasesType
  <2> HIDE DEF updates
  <2>3. IsNumbering(Renumbered(d.trials, updates), d.trials, updates) /\ Len(updates) \in Nat
    BY <2>1, <2>2, NumberingIs, LenProperties
  <2>4. trials \in TrialTables /\ Unique(trials) /\ There(trials) = There(d.trials)
    BY <1>3, <2>3 DEF IsNumbering
  <2> HIDE DEF trials
  <2>5. x \in Databases /\ x.trials = trials /\ x.race = d.race /\ x.vs = d.vs /\ x.entries = d.entries
    BY <2>4 DEF Sound, Databases
  <2> HIDE DEF x
  <2>6. Sound(x)
    BY <2>4, <2>5 DEF Sound, Consistent, Live, There, Unique
  <2> QED
    BY <1>1, <1>3, <2>6, AcceptanceIs
<1> QED
  BY <1>2, <1>3

(* Whatever is called, the tables stay in shape; a race goes only with       *)
(* "delete race".                                                            *)
LEMMA HandledIs ==
  ASSUME NEW d, NEW call, ProperCall(call)
  PROVE  /\ call.op = "create" => Handled(d, call) = CreateTrial(d, call.sequence)
         /\ call.op = "patch" => Handled(d, call) = PatchTrial(d, call.trial, call.patch)
         /\ call.op = "delete" => Handled(d, call) = DeleteTrial(d, call.trial)
         /\ call.op = "reorder" => Handled(d, call) = Reorder(d, call.items)
         /\ call.op = "upload" => Handled(d, call) = UploadGPX(d, call.trial, call.track)
         /\ call.op = "delete gpx" => Handled(d, call) = DeleteGPX(d, call.trial, call.file)
         /\ call.op = "list" => Handled(d, call) = ReplaceList(d, call.list)
         /\ call.op = "move" => Handled(d, call) = MoveVS(d, call.vs, call.place)
         /\ call.op = "row" => Handled(d, call) = PatchTrialVSRow(d, call.trial, call.vs, call.n, call.source)
         /\ call.op = "delete vs" => Handled(d, call) = DeleteVS(d, call.vs)
         /\ call.op = "delete race" => Handled(d, call) = DeleteRace(d)
BY DEF Handled

LEMMA HandledSound ==
  ASSUME NEW d, Sound(d), NEW call, ProperCall(call), call.op = "create" => d.born < Cardinality(Trials)
  PROVE  SoundAnswer(d, Handled(d, call))
<1>1. CASE call.op = "create"
  BY <1>1, HandledIs, CreateSound DEF ProperCall
<1>2. CASE call.op = "patch"
  <2> DEFINE patch == call.patch
  <2>1. call.trial \in Trials /\ patch.start \in NatOrNull /\ patch.front \in Nat /\ patch.tail \in Nat
    BY <1>2 DEF ProperCall
  <2>2. Handled(d, call) = PatchTrial(d, call.trial, patch)
    BY <1>2, HandledIs
  <2> HIDE DEF patch
  <2> QED
    BY <2>1, <2>2, PatchSound
<1>3. CASE call.op = "delete"
  <2> DEFINE t == call.trial
  <2>1. Handled(d, call) = DeleteTrial(d, t)
    BY <1>3, HandledIs
  <2>2. t \in Trials
    BY <1>3 DEF ProperCall
  <2> HIDE DEF t
  <2> QED
    BY <2>1, <2>2, DeleteSound
<1>4. CASE call.op = "reorder"
  <2> DEFINE items == call.items
  <2>1. Handled(d, call) = Reorder(d, items)
    BY <1>4, HandledIs
  <2>2. items \in Seq(Items)
    BY <1>4 DEF ProperCall
  <2> HIDE DEF items
  <2> QED
    BY <2>1, <2>2, ReorderSound
<1>5. CASE call.op = "upload"
  <2> DEFINE t == call.trial
             track == call.track
  <2>1. Handled(d, call) = UploadGPX(d, t, track)
    BY <1>5, HandledIs
  <2>2. t \in Trials /\ track \in Tracks
    BY <1>5 DEF ProperCall
  <2> HIDE DEF t, track
  <2> QED
    BY <2>1, <2>2, UploadSound
<1>6. CASE call.op = "delete gpx"
  <2> DEFINE t == call.trial
             id == call.file
  <2>1. Handled(d, call) = DeleteGPX(d, t, id)
    BY <1>6, HandledIs
  <2> HIDE DEF t, id
  <2> QED
    BY <2>1, DeleteGPXSound
<1>7. CASE call.op = "list"
  <2> DEFINE list == call.list
  <2>1. Handled(d, call) = ReplaceList(d, list) /\ list \in Seq(Stations)
    BY <1>7, HandledIs DEF ProperCall
  <2> HIDE DEF list
  <2> QED
    BY <2>1, ListSound
<1>8. CASE call.op = "move"
  <2> DEFINE s == call.vs
             place == call.place
  <2>1. Handled(d, call) = MoveVS(d, s, place) /\ s \in Stations /\ place \in Places
    BY <1>8, HandledIs DEF ProperCall
  <2> HIDE DEF s, place
  <2> QED
    BY <2>1, MoveSound
<1>9. CASE call.op = "row"
  <2> DEFINE n == call.n
  <2>1. Handled(d, call) = PatchTrialVSRow(d, call.trial, call.vs, n, call.source)
    BY <1>9, HandledIs
  <2>2. call.trial \in Trials /\ call.vs \in Stations /\ call.source \in Sources
    BY <1>9 DEF ProperCall
  <2> HIDE DEF n
  <2> QED
    BY <2>1, <2>2, RowSound
<1>10. CASE call.op = "delete race"
  BY <1>10, HandledIs, DeleteRaceSound
<1>11. CASE call.op = "delete vs"
  <2> DEFINE s == call.vs
  <2>1. Handled(d, call) = DeleteVS(d, s)
    BY <1>11, HandledIs
  <2>2. s \in Stations
    BY <1>11 DEF ProperCall
  <2> HIDE DEF s
  <2> QED
    BY <2>1, <2>2, DeleteVSSound
<1> QED
  BY <1>1, <1>2, <1>3, <1>4, <1>5, <1>6, <1>7, <1>8, <1>9, <1>10, <1>11 DEF ProperCall, Operations

(* A recompute keeps them so, and rewrites rows only.                        *)
SameButRows(d, x) ==
  /\ x.race = d.race /\ x.born = d.born /\ x.trials = d.trials /\ x.uploads = d.uploads
  /\ x.files = d.files /\ x.vs = d.vs /\ x.entries = d.entries /\ x.place = d.place
LEMMA RecomputedSound ==
  ASSUME NEW d, Sound(d), NEW plan \in Plans, Unique(plan.trials)
  PROVE  /\ Sound(Recomputed(plan, d)) /\ SameButRows(d, Recomputed(plan, d))
         /\ \A t \in Trials, s \in Stations :
              d.rows[t][s].source \in Chosens =>
                /\ Recomputed(plan, d).rows[t][s].source = d.rows[t][s].source
                /\ Recomputed(plan, d).rows[t][s].n = d.rows[t][s].n
<1> DEFINE x == Recomputed(plan, d)
<1>1. d \in Databases
  BY DEF Sound
<1>2. x \in Databases
  BY <1>1, RecomputedType
<1>3. PICK rows \in RowTables :
        /\ x = [d EXCEPT !.rows = rows]
        /\ \A t \in Trials, s \in Stations :
             d.rows[t][s].source \in Chosens =>
               rows[t][s].source = d.rows[t][s].source /\ rows[t][s].n = d.rows[t][s].n
  BY <1>1, RecomputedType
<1> HIDE DEF x
<1>4. SameButRows(d, x) /\ x.rows = rows
  BY <1>1, <1>3 DEF SameButRows, Databases
<1>5. Sound(x)
  BY <1>2, <1>4 DEF Sound, Consistent, SameButRows, Live
<1> QED
  BY <1>3, <1>4, <1>5 DEF x
-----------------------------------------------------------------------------
(* Sequences as the pages and requests make them.                            *)
LEMMA NumberedType ==
  ASSUME NEW order \in Seq(Trials)
  PROVE  /\ Numbered(order) \in Seq(Items) /\ Len(Numbered(order)) = Len(order)
         /\ \A i \in 1..Len(order) : Numbered(order)[i] = [trial |-> order[i], sequence |-> i - 1]
<1> DEFINE n == Len(order)
           items == [i \in DOMAIN order |-> [trial |-> order[i], sequence |-> i - 1]]
<1>1. n \in Nat /\ DOMAIN order = 1..n /\ \A i \in 1..n : order[i] \in Trials
  BY LenProperties
<1>2. items \in [1..n -> Items] /\ \A i \in 1..n : items[i] = [trial |-> order[i], sequence |-> i - 1]
  BY <1>1 DEF Items
<1>3. Numbered(order) = items
  BY DEF Numbered
<1> HIDE DEF items
<1>4. items \in Seq(Items) /\ Len(items) = n
  <2> HIDE DEF n
  <2> QED
    BY <1>1, <1>2, SeqDef, LenProperties
<1> QED
  BY <1>2, <1>3, <1>4

LEMMA ReverseType ==
  ASSUME NEW S, NEW s \in Seq(S)
  PROVE  Reverse(s) \in Seq(S) /\ Len(Reverse(s)) = Len(s)
<1> DEFINE n == Len(s)
<1>1. n \in Nat /\ \A i \in 1..n : s[i] \in S
  BY LenProperties
<1>2. \A i \in 1..n : (n - i) + 1 \in 1..n
  BY <1>1
<1>3. Reverse(s) = [i \in 1..n |-> s[(n - i) + 1]]
  BY DEF Reverse
<1> HIDE DEF n
<1>4. [i \in 1..n |-> s[(n - i) + 1]] \in [1..n -> S]
  BY <1>1, <1>2
<1>5. Reverse(s) \in Seq(S)
  BY <1>1, <1>3, <1>4, SeqDef
<1>6. Len(Reverse(s)) = n
  <2>1. DOMAIN Reverse(s) = 1..n
    BY <1>3
  <2> QED
    BY <1>1, <1>5, <2>1, LenProperties
<1> QED
  BY <1>5, <1>6 DEF n

LEMMA InsertAtType ==
  ASSUME NEW S, NEW s \in Seq(S), NEW i \in 1..(Len(s) + 1), NEW e \in S
  PROVE  InsertAt(s, i, e) \in Seq(S)
<1> DEFINE n == Len(s)
<1>1. n \in Nat /\ DOMAIN s = 1..n /\ \A j \in 1..n : s[j] \in S
  BY LenProperties
<1>2. i \in 1..(n + 1) /\ i - 1 \in Int /\ i \in Int /\ n \in Int
  BY <1>1
<1>3. \A j \in 1..(i - 1) : s[j] \in S
  BY <1>1, <1>2
<1>4. \A j \in i..n : s[j] \in S
  BY <1>1, <1>2
<1>8. InsertAt(s, i, e) = SubSeq(s, 1, i - 1) \o <<e>> \o SubSeq(s, i, n)
  BY DEF InsertAt
<1> HIDE DEF n
<1>5. SubSeq(s, 1, i - 1) \in Seq(S)
  BY <1>2, <1>3, SubSeqProperties
<1>6. SubSeq(s, i, n) \in Seq(S)
  BY <1>2, <1>4, SubSeqProperties
<1>7. <<e>> \in Seq(S)
  OBVIOUS
<1>9. SubSeq(s, 1, i - 1) \o <<e>> \in Seq(S)
  BY <1>5, <1>7, ConcatProperties
<1>10. SubSeq(s, 1, i - 1) \o <<e>> \o SubSeq(s, i, n) \in Seq(S)
  BY <1>6, <1>9, ConcatProperties
<1> QED
  BY <1>8, <1>10

LEMMA arrayMoveType ==
  ASSUME NEW S, NEW s \in Seq(S), NEW from \in DOMAIN s, NEW to \in DOMAIN s
  PROVE  arrayMove(s, from, to) \in Seq(S)
<1>1. Len(s) \in Nat /\ DOMAIN s = 1..Len(s) /\ s[from] \in S
  BY LenProperties
<1>2. RemoveAt(s, from) \in Seq(S) /\ Len(RemoveAt(s, from)) = Len(s) - 1
  BY RemoveAtType
<1>3. to \in 1..(Len(RemoveAt(s, from)) + 1)
  BY <1>1, <1>2
<1> QED
  BY <1>1, <1>2, <1>3, InsertAtType DEF arrayMove

LEMMA OrderType ==
  ASSUME NEW trials \in TrialTables, Unique(trials)
  PROVE  /\ InSequence(trials) \in Seq(Trials)
         /\ Len(InSequence(trials)) = Cardinality(There(trials))
         /\ Len(InSequence(trials)) \in Nat
<1> DEFINE order == InSequence(trials)
<1>1. IsOrder(order, trials)
  BY OrderOf
<1>2. There(trials) \subseteq Trials
  BY DEF There
<1> HIDE DEF order
<1>3. order \in Seq(There(trials)) /\ Len(order) = Cardinality(There(trials))
  BY <1>1 DEF IsOrder
<1>4. order \in Seq(Trials)
  BY <1>2, <1>3, SeqMonotonic
<1>5. Len(order) \in Nat
  BY <1>3, LenProperties
<1> QED
  BY <1>3, <1>4, <1>5 DEF order

LEMMA SoundTables ==
  ASSUME NEW d, Sound(d)
  PROVE  /\ d.trials \in TrialTables /\ Unique(d.trials) /\ Live(d) = There(d.trials)
         /\ Cardinality(Live(d)) \in Nat /\ Live(d) \subseteq Trials
         /\ d.entries \in Seq(Stations) /\ d.files \in SUBSET Files /\ d.rows \in RowTables
         /\ Read(d) \in Plans /\ Read(d).trials = d.trials
<1>1. d.trials \in TrialTables /\ Unique(d.trials) /\ Live(d) = There(d.trials) /\ d \in Databases
  BY DEF Sound, Databases, Consistent, Unique, Live, There
<1>2. Cardinality(Live(d)) \in Nat
  BY <1>1, ThereIsFinite
<1>3. Live(d) \subseteq Trials
  BY DEF Live
<1>4. d.entries \in Seq(Stations) /\ d.files \in SUBSET Files /\ d.rows \in RowTables
  BY <1>1 DEF Databases, RowTables
<1>5. Read(d) \in Plans /\ Read(d).trials = d.trials
  BY <1>1, ReadType
<1> QED
  BY <1>1, <1>2, <1>3, <1>4, <1>5

LEMMA SomeCallIsProper ==
  ASSUME NEW d, Sound(d), NEW call \in SomeCall(d)
  PROVE  ProperCall(call) /\ (call.op = "create" => d.born < Cardinality(Trials))
<1> DEFINE creates == {[op |-> "create", sequence |-> n] :
                         n \in {x \in {Cardinality(Live(d))} : d.born < Cardinality(Trials)}}
           deletes == {[op |-> "delete", trial |-> t] : t \in Live(d)}
           removals == {[op |-> "delete gpx", trial |-> f.trial, file |-> f.id] : f \in d.files}
           reorders == {[op |-> "reorder", items |-> Numbered(Reverse(InSequence(d.trials)))]}
           lists == {[op |-> "list", list |-> list] : list \in Lists(d)}
           stations == {[op |-> "delete vs", vs |-> s] : s \in d.vs}
           deletions == {[op |-> "delete race"]}
<1>0. SomeCall(d) = creates \cup Patches(d) \cup Uploads(d) \cup Moves \cup Chips(d)
                    \cup deletes \cup removals \cup reorders \cup lists \cup stations \cup deletions
  BY DEF SomeCall
<1>1. CASE call \in creates
  <2>1. PICK n \in {Cardinality(Live(d))} : d.born < Cardinality(Trials) /\ call = [op |-> "create", sequence |-> n]
    BY <1>1
  <2>2. n \in Nat
    BY SoundTables
  <2> QED
    BY <2>1, <2>2 DEF ProperCall, Operations
<1>2. CASE call \in Patches(d)
  <2>1. PICK t \in Live(d), at \in Times, pace \in Paces :
          call = [op |-> "patch", trial |-> t, patch |-> [start |-> at, front |-> 2, tail |-> pace]]
    BY <1>2 DEF Patches
  <2>2. at \in Nat /\ pace \in Nat /\ t \in Trials
    BY SoundTables, RaceTablesAssumption
  <2> QED
    BY <2>1, <2>2 DEF NatOrNull, ProperCall, Operations
<1>3. CASE call \in deletes
  <2>1. PICK t \in Live(d) : call = [op |-> "delete", trial |-> t]
    BY <1>3
  <2>2. t \in Trials
    BY SoundTables
  <2> QED
    BY <2>1, <2>2 DEF ProperCall, Operations
<1>4. CASE call \in removals
  <2>1. PICK f \in d.files : call = [op |-> "delete gpx", trial |-> f.trial, file |-> f.id]
    BY <1>4
  <2> QED
    BY <2>1 DEF ProperCall, Operations
<1>5. CASE call \in Uploads(d)
  <2>1. PICK t \in Live(d), track \in Tracks : call = [op |-> "upload", trial |-> t, track |-> track]
    BY <1>5 DEF Uploads
  <2>2. t \in Trials
    BY SoundTables
  <2> QED
    BY <2>1, <2>2 DEF ProperCall, Operations
<1>6. CASE call \in reorders
  <2> DEFINE items == Numbered(Reverse(InSequence(d.trials)))
  <2>1. d.trials \in TrialTables /\ Unique(d.trials)
    BY SoundTables
  <2>2. Reverse(InSequence(d.trials)) \in Seq(Trials)
    BY <2>1, OrderType, ReverseType
  <2>3. items \in Seq(Items)
    BY <2>2, NumberedType
  <2>4. call = [op |-> "reorder", items |-> items]
    BY <1>6
  <2> HIDE DEF items
  <2> QED
    BY <2>3, <2>4 DEF ProperCall, Operations
<1>7. CASE call \in lists
  <2>1. PICK list \in Lists(d) : call = [op |-> "list", list |-> list]
    BY <1>7
  <2>2. d.entries \in Seq(Stations)
    BY SoundTables
  <2>3. list \in Seq(Stations)
    <3>1. CASE list \in {Append(d.entries, s) : s \in Stations \ Range(d.entries)}
      <4>1. PICK s \in Stations : list = Append(d.entries, s)
        BY <3>1
      <4> QED
        BY <2>2, <4>1, AppendProperties
    <3>2. CASE list \in {RemoveAt(d.entries, i) : i \in DOMAIN d.entries}
      <4>1. PICK i \in DOMAIN d.entries : list = RemoveAt(d.entries, i)
        BY <3>2
      <4> QED
        BY <2>2, <4>1, RemoveAtType
    <3> QED
      BY <2>1, <3>1, <3>2 DEF Lists
  <2> QED
    BY <2>1, <2>3 DEF ProperCall, Operations
<1>8. CASE call \in Moves
  <2>1. PICK s \in Stations, p \in Places : call = [op |-> "move", vs |-> s, place |-> p]
    BY <1>8 DEF Moves
  <2> QED
    BY <2>1 DEF ProperCall, Operations
<1>9. CASE call \in Chips(d)
  <2>1. PICK t \in Live(d), s \in Stations, source \in Sources \ {"none"} :
          call = [op |-> "row", trial |-> t, vs |-> s, n |-> d.rows[t][s].n, source |-> source]
    BY <1>9 DEF Chips
  <2>2. t \in Trials
    BY SoundTables
  <2> QED
    BY <2>1, <2>2 DEF ProperCall, Operations
<1>10. CASE call \in deletions
  <2>1. call = [op |-> "delete race"]
    BY <1>10
  <2> QED
    BY <2>1 DEF ProperCall, Operations
<1>11. CASE call \in stations
  <2>1. PICK s \in d.vs : call = [op |-> "delete vs", vs |-> s]
    BY <1>11
  <2>2. s \in Stations
    BY DEF Sound, Databases
  <2> QED
    BY <2>1, <2>2 DEF ProperCall, Operations
<1> HIDE DEF creates, deletes, removals, reorders, lists, stations, deletions
<1> QED
  BY <1>0, <1>1, <1>2, <1>3, <1>4, <1>5, <1>6, <1>7, <1>8, <1>9, <1>10, <1>11
-----------------------------------------------------------------------------
(* Requests that overlap: a plan that is current is what a request would     *)
(* read now, and a recompute from such a plan leaves the rows exact.         *)
TimingTypes ==
  /\ Sound(db)
  /\ reading \in [Requests -> SUBSET Plans]
  /\ \A r \in Requests : /\ reading[r] # {} => r \in waiting
                         /\ \A plan \in reading[r] : Unique(plan.trials)
  /\ current \subseteq waiting /\ waiting \subseteq Requests
  /\ served \in Nat /\ waiting \subseteq 1..served /\ spoiled \in BOOLEAN
CurrentPlans == \A r \in current : reading[r] = {Read(db)}
TimingInv == TimingTypes /\ CurrentPlans /\ QuietRowsAreExact

(* What a recompute reads is not what it writes.                             *)
LEMMA ReadOfRows ==
  ASSUME NEW d, NEW x, SameButRows(d, x)
  PROVE  Read(x) = Read(d)
<1>1. \A t : TrackOf(x, t) = TrackOf(d, t)
  BY DEF SameButRows, TrackOf, FilesOf
<1>2. Live(x) = Live(d) /\ InSequence(x.trials) = InSequence(d.trials)
  BY DEF SameButRows, Live
<1>3. (IF Live(x) = {} THEN NoTrack ELSE TrackOf(x, Head(InSequence(x.trials))))
        = (IF Live(d) = {} THEN NoTrack ELSE TrackOf(d, Head(InSequence(d.trials))))
  BY <1>1, <1>2
<1> QED
  BY <1>3 DEF Read, SameButRows

(* What a handler whose change is not followed by a recompute leaves.        *)
LEMMA RowChosen ==
  ASSUME NEW d, Sound(d), NEW call, ProperCall(call), call.op = "row"
  PROVE  SameButRows(d, Handled(d, call).db)
<1> DEFINE n == call.n
           t == call.trial
           s == call.vs
           rows == [d.rows EXCEPT ![t][s].source = call.source]
           x == [d EXCEPT !.rows = rows]
           a == Handled(d, call)
<1>1. a = PatchTrialVSRow(d, t, s, n, call.source)
  BY HandledIs
<1>2. a.db \in {d, x}
  <2>1. a \in {Answer(FALSE, d), Answer(TRUE, x)}
    BY <1>1 DEF PatchTrialVSRow
  <2>2. Answer(FALSE, d).db = d /\ Answer(TRUE, x).db = x
    BY AnswerIs
  <2> HIDE DEF a, x
  <2> QED
    BY <2>1, <2>2
<1> HIDE DEF rows, a
<1>3. SameButRows(d, x) /\ SameButRows(d, d)
  BY DEF SameButRows, Sound, Databases
<1> HIDE DEF x
<1>4. SameButRows(d, a.db)
  BY <1>2, <1>3
<1> QED
  BY <1>4 DEF a

(* What the rows are computed from may change where no listed station, and   *)
(* no time handed on to another trial, depends on it.                        *)
SameTimes(d, x, t) ==
  \A pace \in Nat : Takes(x, t, pace) = Takes(d, t, pace) /\ Span(x, t, pace) = Span(d, t, pace)
SameWhereListed(d, x) ==
  /\ x.trials = d.trials /\ x.files = d.files
  /\ Range(x.entries) \subseteq Range(d.entries)
  /\ \A s \in Range(x.entries) : x.place[s] = d.place[s] /\ \A t \in Trials : x.rows[t][s] = d.rows[t][s]
  /\ \A t \in Live(d) : Followed(d, t) => SameTimes(d, x, t)

LEMMA SameTracks ==
  ASSUME NEW d, NEW x, x.files = d.files, NEW t
  PROVE  TrackOf(x, t) = TrackOf(d, t)
BY DEF TrackOf, FilesOf

(* The time a trial takes is that of its farthest stations.                  *)
Reach(d, t) == {NearestOnTrack(TrackOf(d, t), d.place[s]) : s \in Counted(d, t)}
LEMMA ReachType ==
  ASSUME NEW d \in Databases, NEW t \in Trials
  PROVE  Reach(d, t) \in SUBSET Nat /\ IsFiniteSet(Reach(d, t)) /\ (Reach(d, t) = {} <=> Counted(d, t) = {})
<1> DEFINE dist == [s \in Counted(d, t) |-> NearestOnTrack(TrackOf(d, t), d.place[s])]
<1>1. Reach(d, t) = {dist[s] : s \in Counted(d, t)} /\ dist = [s \in Counted(d, t) |-> dist[s]]
  BY DEF Reach
<1>2. Reach(d, t) \in SUBSET Nat /\ (Reach(d, t) = {} <=> Counted(d, t) = {})
  BY CountedType DEF Reach
<1> HIDE DEF dist
<1>3. IsFiniteSet(Reach(d, t))
  BY <1>1, CountedType, FiniteImage
<1> QED
  BY <1>2, <1>3

LEMMA ReachDecides ==
  ASSUME NEW d \in Databases, NEW x \in Databases, NEW t \in Trials,
         Reach(x, t) \subseteq Reach(d, t),
         \A m \in Reach(d, t) : \E k \in Reach(x, t) : m <= k
  PROVE  SameTimes(d, x, t)
<1> SUFFICES ASSUME NEW pace \in Nat
             PROVE  Takes(x, t, pace) = Takes(d, t, pace) /\ Span(x, t, pace) = Span(d, t, pace)
  BY DEF SameTimes
<1>1. Counted(x, t) = {} <=> Counted(d, t) = {}
  BY ReachType
<1>2. Takes(x, t, pace) = Takes(d, t, pace)
  BY <1>1 DEF Takes
<1>3. /\ Span(x, t, pace) = IF Takes(x, t, pace) THEN Max(Reach(x, t)) \div pace ELSE 0
      /\ Span(d, t, pace) = IF Takes(d, t, pace) THEN Max(Reach(d, t)) \div pace ELSE 0
  BY DEF Span, Reach
<1>4. ASSUME Takes(x, t, pace) PROVE Max(Reach(x, t)) = Max(Reach(d, t))
  <2> DEFINE ours == Reach(x, t)
             theirs == Reach(d, t)
  <2>1. /\ ours \in SUBSET Int /\ IsFiniteSet(ours) /\ ours # {}
        /\ theirs \in SUBSET Int /\ ours \subseteq theirs /\ \A m \in theirs : \E k \in ours : m <= k
    BY <1>4, ReachType DEF Takes
  <2> HIDE DEF ours, theirs
  <2>2. Max(ours) \in ours /\ \A k \in ours : Max(ours) >= k
    BY <2>1, MaxOf
  <2> DEFINE most == Max(ours)
  <2>3. most \in theirs /\ \A m \in theirs : most >= m
    <3> HIDE DEF most
    <3>1. most \in ours /\ \A k \in ours : most >= k
      BY <2>2 DEF most
    <3> QED
      BY <2>1, <3>1
  <2> HIDE DEF most
  <2>4. Max(theirs) = most
    BY <2>1, <2>3, MaxIs
  <2> QED
    BY <2>4 DEF most, ours, theirs
<1> QED
  BY <1>2, <1>3, <1>4

(* What starts a trial comes from itself and from trials it follows.         *)
LEMMA EarlierAreFollowed ==
  ASSUME NEW d, Sound(d), NEW order, InOrder(d, order), NEW k \in 1..Len(order), NEW j \in 1..(k - 1)
  PROVE  order[j] \in Live(d) /\ Followed(d, order[j])
<1>1. /\ order \in Seq(There(d.trials)) /\ d.trials \in TrialTables /\ Unique(d.trials)
      /\ Live(d) = There(d.trials)
  BY SoundTables DEF InOrder, IsOrder
<1>2. Len(order) \in Nat /\ DOMAIN order = 1..Len(order) /\ j \in DOMAIN order /\ k \in DOMAIN order /\ j # k
  BY <1>1, LenProperties
<1> DEFINE t == order[j]
           u == order[k]
<1>3. t \in There(d.trials) /\ u \in There(d.trials) /\ t # u
  <2>1. t \in There(d.trials) /\ u \in There(d.trials)
    BY <1>1, <1>2, ElementOfSeq
  <2>2. \A x, y \in DOMAIN order : order[x] = order[y] => x = y
    BY DEF InOrder, IsOrder
  <2> QED
    BY <1>2, <2>1, <2>2
<1>4. Cardinality(Before(d.trials, t)) = j - 1 /\ Cardinality(Before(d.trials, u)) = k - 1
  BY <1>2 DEF InOrder, IsOrder
<1> HIDE DEF t, u
<1>5. d.trials[t].seq \in Nat /\ d.trials[u].seq \in Nat
  BY <1>1, <1>3 DEF There, TrialTables, TrialRow
<1>6. d.trials[t].seq # d.trials[u].seq
  BY <1>1, <1>3 DEF Unique
<1>7. ~(d.trials[u].seq < d.trials[t].seq)
  <2> SUFFICES ASSUME d.trials[u].seq < d.trials[t].seq PROVE FALSE
    OBVIOUS
  <2>1. Cardinality(Before(d.trials, u)) < Cardinality(Before(d.trials, t))
    BY <1>1, <1>3, RanksDiffer
  <2> QED
    BY <1>2, <1>4, <2>1
<1>8. d.trials[t].seq < d.trials[u].seq
  BY <1>5, <1>6, <1>7
<1>9. t \in Live(d) /\ Followed(d, t)
  BY <1>1, <1>3, <1>8 DEF Followed
<1> QED
  BY <1>9 DEF t

LEMMA SameElapsed ==
  ASSUME NEW n \in Nat, NEW a \in [1..n -> Nat], NEW b \in [1..n -> Nat], NEW k \in 1..n,
         \A j \in 1..(k - 1) : a[j] = b[j]
  PROVE  \A i \in 0..(k - 1) : Elapsed(a)[i] = Elapsed(b)[i]
<1> DEFINE ea == Elapsed(a)
           eb == Elapsed(b)
           S == {i \in Nat : ea[i] = eb[i]}
<1>1. ea[0] = eb[0] /\ \A i \in 1..n : ea[i] = ea[i - 1] + a[i] /\ eb[i] = eb[i - 1] + b[i]
  BY ElapsedIs
<1> HIDE DEF ea, eb
<1>2. 0 \in S
  BY <1>1
<1>3. ASSUME NEW i \in 1..(k - 1), i - 1 \in S PROVE i \in S
  BY <1>1, <1>3
<1>4. k - 1 \in Nat
  OBVIOUS
<1>5. 0..(k - 1) \subseteq S
  <2> DEFINE m == k - 1
  <2> HIDE DEF S
  <2>1. m \in Nat /\ \A i \in 1..m : i - 1 \in S => i \in S
    BY <1>3, <1>4
  <2> HIDE DEF m
  <2>2. 0..m \subseteq S
    BY <1>2, <2>1, BoundedInduction
  <2> QED
    BY <2>2 DEF m
<1> QED
  BY <1>5 DEF ea, eb

LEMMA SameEnvelope ==
  ASSUME NEW d, Sound(d), NEW x, Sound(x), SameWhereListed(d, x), NEW order, InOrder(d, order),
         NEW k \in 1..Len(order), NEW pace \in [Trials -> Nat]
  PROVE  EnvelopeStart(x, k, pace) = EnvelopeStart(d, k, pace)
<1> DEFINE n == Len(order)
           start(j) == d.trials[order[j]].start
           ours == [j \in 1..n |-> Span(x, order[j], pace[order[j]])]
           theirs == [j \in 1..n |-> Span(d, order[j], pace[order[j]])]
           el == Elapsed(ours)
           es == Elapsed(theirs)
           from == {j \in 1..k : start(j) # Null /\ (j = k \/ Takes(x, order[j], pace[order[j]]))}
           since == {j \in 1..k : start(j) # Null /\ (j = k \/ Takes(d, order[j], pace[order[j]]))}
           A == {start(j) + el[k - 1] - el[j - 1] : j \in from}
           B == {start(j) + es[k - 1] - es[j - 1] : j \in since}
<1>1. n \in Nat /\ DOMAIN order = 1..n /\ \A j \in 1..n : order[j] \in Trials
  <2>1. order \in Seq(There(d.trials))
    BY DEF InOrder, IsOrder
  <2>2. n \in Nat /\ DOMAIN order = 1..n /\ \A j \in 1..n : order[j] \in There(d.trials)
    BY <2>1, LenProperties
  <2> QED
    BY <2>2 DEF There
<1>2. InSequence(x.trials) = order /\ InSequence(d.trials) = order /\ x.trials = d.trials
  BY DEF SameWhereListed, InOrder
<1>3. EnvelopeStart(x, k, pace) = IF from = {} THEN Null ELSE Max(A)
  BY <1>1, <1>2 DEF EnvelopeStart
<1>4. EnvelopeStart(d, k, pace) = IF since = {} THEN Null ELSE Max(B)
  BY <1>1, <1>2 DEF EnvelopeStart
<1>5. ASSUME NEW j \in 1..(k - 1)
      PROVE  /\ Takes(x, order[j], pace[order[j]]) = Takes(d, order[j], pace[order[j]])
             /\ ours[j] = theirs[j]
  <2>1. order[j] \in Live(d) /\ Followed(d, order[j])
    BY EarlierAreFollowed
  <2>2. SameTimes(d, x, order[j])
    BY <2>1 DEF SameWhereListed
  <2>3. j \in 1..n /\ order[j] \in Trials /\ pace[order[j]] \in Nat
    BY <1>1
  <2> QED
    BY <2>2, <2>3 DEF SameTimes
<1>6. from = since
  <2>1. \A j \in 1..k : j = k \/ j \in 1..(k - 1)
    BY <1>1
  <2> HIDE DEF n
  <2> QED
    BY <1>5, <2>1
<1>7. ours \in [1..n -> Nat] /\ theirs \in [1..n -> Nat]
  <2> HIDE DEF n
  <2> QED
    BY <1>1, SpanType DEF Sound
<1>8. \A i \in 0..(k - 1) : el[i] = es[i]
  <2>1. \A j \in 1..(k - 1) : ours[j] = theirs[j]
    BY <1>5
  <2> HIDE DEF n, ours, theirs
  <2>2. k \in 1..n
    BY DEF n
  <2> QED
    BY <1>1, <1>7, <2>1, <2>2, SameElapsed
<1>9. A = B
  <2>1. \A j \in from : j - 1 \in 0..(k - 1)
    <3>1. k \in Nat
      BY <1>1
    <3> HIDE DEF start
    <3> QED
      BY <3>1
  <2>2. k - 1 \in 0..(k - 1)
    BY <1>1
  <2> HIDE DEF from, since, el, es, start
  <2> QED
    BY <1>6, <1>8, <2>1, <2>2
<1> HIDE DEF from, since, A, B
<1> QED
  BY <1>3, <1>4, <1>6, <1>9

LEMMA ExactWhereListed ==
  ASSUME NEW d, Sound(d), NEW x, Sound(x), SameWhereListed(d, x), Exact(d)
  PROVE  Exact(x)
<1> DEFINE order == InSequence(d.trials)
<1>1. /\ InSequence(x.trials) = order /\ x.trials = d.trials /\ Fronts(x) = Fronts(d) /\ Tails(x) = Tails(d)
  BY DEF SameWhereListed, Fronts, Tails
<1>2. InOrder(d, order)
  BY SoundTables, OrderOf DEF InOrder
<1>3. DOMAIN order = 1..Len(order) /\ \A k \in 1..Len(order) : order[k] \in Trials
  <2>1. order \in Seq(There(d.trials))
    BY <1>2 DEF InOrder, IsOrder
  <2> HIDE DEF order
  <2>2. DOMAIN order = 1..Len(order) /\ \A k \in 1..Len(order) : order[k] \in There(d.trials)
    BY <2>1, LenProperties
  <2> QED
    BY <2>2 DEF There
<1>4. Fronts(d) \in [Trials -> Nat] /\ Tails(d) \in [Trials -> Nat]
  <2>1. \A t \in Trials : d.trials[t].front \in Nat /\ d.trials[t].tail \in Nat
    BY DEF Sound, Databases, TrialTables, TrialRow, NoTrial
  <2> QED
    BY <2>1 DEF Fronts, Tails
<1>5. ASSUME NEW k \in 1..Len(order), NEW s \in Range(x.entries) PROVE RowIsExact(x, k, s)
  <2> DEFINE t == order[k]
             front == EnvelopeStart(d, k, Fronts(d))
             tail == EnvelopeStart(d, k, Tails(d))
             dist == NearestOnTrack(TrackOf(d, t), d.place[s])
             row == d.rows[t][s]
             Right == TrackOf(d, t) # NoTrack /\ row.source # "manual_exclude" =>
               IF dist = Off
               THEN row.source \in {"none", "manual_include"} /\ row.first = Null /\ row.last = Null
               ELSE /\ row.source # "none" /\ row.dist = dist
                    /\ row.first = Arrival(front, dist, d.trials[t].front)
                    /\ row.last = Arrival(tail, dist, d.trials[t].tail)
  <2>1. RowIsExact(d, k, s)
    BY <1>3 DEF Exact, SameWhereListed
  <2>2. Right
    BY <2>1 DEF RowIsExact
  <2>3. x.place[s] = d.place[s] /\ x.rows[t][s] = row
    BY <1>3 DEF SameWhereListed
  <2>4. /\ TrackOf(x, t) = TrackOf(d, t) /\ EnvelopeStart(x, k, Fronts(x)) = front
        /\ EnvelopeStart(x, k, Tails(x)) = tail
    <3> HIDE DEF t, order
    <3>1. EnvelopeStart(x, k, Fronts(d)) = front /\ EnvelopeStart(x, k, Tails(d)) = tail
      BY <1>2, <1>4, SameEnvelope
    <3> QED
      BY <1>1, <3>1, SameTracks DEF SameWhereListed
  <2>5. NearestOnTrack(TrackOf(x, t), x.place[s]) = dist
    BY <2>3, <2>4
  <2>6. RowIsExact(x, k, s) = Right
    <3>1. RowIsExact(x, k, s) =
            LET u == InSequence(x.trials)[k]
                r == x.rows[u][s]
                far == NearestOnTrack(TrackOf(x, u), x.place[s])
            IN TrackOf(x, u) # NoTrack /\ r.source # "manual_exclude" =>
                 IF far = Off
                 THEN r.source \in {"none", "manual_include"} /\ r.first = Null /\ r.last = Null
                 ELSE /\ r.source # "none" /\ r.dist = far
                      /\ r.first = Arrival(EnvelopeStart(x, k, Fronts(x)), far, x.trials[u].front)
                      /\ r.last = Arrival(EnvelopeStart(x, k, Tails(x)), far, x.trials[u].tail)
      BY DEF RowIsExact
    <3>3. InSequence(x.trials)[k] = t /\ x.trials[t] = d.trials[t]
      BY <1>1
    <3> HIDE DEF t, row, dist, front, tail
    <3> QED
      BY <2>3, <2>4, <2>5, <3>1, <3>3
  <2> HIDE DEF Right
  <2> QED
    BY <2>2, <2>6
<1>6. DOMAIN InSequence(x.trials) = 1..Len(order)
  BY <1>1, <1>3
<1> HIDE DEF order
<1> QED
  BY <1>5, <1>6 DEF Exact

(* A station that is not listed moves.                                       *)
LEMMA UnlistedMove ==
  ASSUME NEW d, Sound(d), NEW x, Sound(x), x.trials = d.trials, x.files = d.files, x.rows = d.rows,
         x.entries = d.entries, \A s \in Range(d.entries) : x.place[s] = d.place[s]
  PROVE  SameWhereListed(d, x)
<1>1. ASSUME NEW t \in Trials PROVE SameTimes(d, x, t)
  <2>1. TrackOf(x, t) = TrackOf(d, t)
    BY SameTracks
  <2>2. Counted(x, t) = Counted(d, t)
    BY <2>1 DEF Counted
  <2>3. \A s \in Counted(d, t) : x.place[s] = d.place[s]
    BY DEF Counted
  <2>4. Reach(x, t) = Reach(d, t)
    <3> DEFINE at == Counted(d, t)
               track == TrackOf(d, t)
    <3> HIDE DEF at, track
    <3>1. {NearestOnTrack(track, x.place[s]) : s \in at} = {NearestOnTrack(track, d.place[s]) : s \in at}
      BY <2>3 DEF at
    <3> QED
      BY <2>1, <2>2, <3>1 DEF at, track, Reach
  <2>5. Reach(d, t) \in SUBSET Nat
    BY ReachType DEF Sound
  <2>6. \A m \in Reach(d, t) : m <= m
    BY <2>5
  <2> QED
    BY <2>4, <2>6, ReachDecides DEF Sound
<1>2. \A t \in Live(d) : t \in Trials
  BY DEF Live
<1> QED
  BY <1>1, <1>2 DEF SameWhereListed

(* A station is deleted that leaves no delay behind.                         *)
LEMMA DeletionLeavesTimes ==
  ASSUME NEW d, Sound(d), NEW s \in Stations, Sound(Without(d, s)), NEW t \in Trials, ~Farthest(d, t, s)
  PROVE  SameTimes(d, Without(d, s), t)
<1> DEFINE x == Without(d, s)
           track == TrackOf(d, t)
           At(u) == NearestOnTrack(track, d.place[u])
<1>1. x.files = d.files /\ x.place = d.place /\ x.entries = Unlisted(d.entries, s) /\ x.rows = RowsWithout(d.rows, s)
  BY WithoutIs
<1>2. TrackOf(x, t) = track
  BY <1>1, SameTracks
<1>3. Range(x.entries) = Range(d.entries) \ {s} /\ Range(d.entries) \in SUBSET Stations
  BY <1>1, UnlistedIs, FiniteRange DEF Sound, Databases, Consistent
<1>4. \A u \in Stations : u # s => x.rows[t][u] = d.rows[t][u]
  BY <1>1, RowsWithoutIs DEF Sound, Databases, RowTables
<1> HIDE DEF x
<1>5. Counted(x, t) = Counted(d, t) \ {s}
  BY <1>1, <1>2, <1>3, <1>4 DEF Counted
<1>6. Reach(x, t) = {At(u) : u \in Counted(d, t) \ {s}} /\ Reach(d, t) = {At(u) : u \in Counted(d, t)}
  BY <1>1, <1>2, <1>5 DEF Reach
<1>7. \A u \in Counted(d, t) : At(u) \in Nat
  BY CountedType DEF Sound
<1>8. s \in Counted(d, t) => \E u \in Counted(d, t) \ {s} : ~(At(u) < At(s))
  BY DEF Farthest
<1> HIDE DEF At
<1>9. Reach(x, t) \subseteq Reach(d, t)
  BY <1>6
<1>10. ASSUME NEW m \in Reach(d, t) PROVE \E k \in Reach(x, t) : m <= k
  <2>1. PICK u \in Counted(d, t) : m = At(u)
    BY <1>6
  <2>2. CASE u # s
    <3>1. At(u) \in Reach(x, t) /\ At(u) <= At(u)
      BY <1>6, <1>7, <2>2
    <3> QED
      BY <2>1, <3>1
  <2>3. CASE u = s
    <3>1. PICK v \in Counted(d, t) \ {s} : ~(At(v) < At(s))
      BY <1>8, <2>3
    <3>2. At(v) \in Reach(x, t) /\ At(s) <= At(v)
      BY <1>6, <1>7, <2>3, <3>1
    <3> QED
      BY <2>1, <2>3, <3>2
  <2> QED
    BY <2>2, <2>3
<1>11. SameTimes(d, x, t)
  BY <1>9, <1>10, ReachDecides DEF Sound, x
<1> QED
  BY <1>11 DEF x

LEMMA HarmlessDeletion ==
  ASSUME NEW d, Sound(d), NEW s \in Stations, Sound(Without(d, s)),
         \A t \in Live(d) : Followed(d, t) => ~Farthest(d, t, s)
  PROVE  SameWhereListed(d, Without(d, s))
<1> DEFINE x == Without(d, s)
<1>1. /\ x.trials = d.trials /\ x.files = d.files /\ x.place = d.place
      /\ x.entries = Unlisted(d.entries, s) /\ x.rows = RowsWithout(d.rows, s)
  BY WithoutIs
<1>2. Range(x.entries) = Range(d.entries) \ {s} /\ Range(d.entries) \in SUBSET Stations
  BY <1>1, UnlistedIs, FiniteRange DEF Sound, Databases, Consistent
<1>3. \A t \in Trials, u \in Stations : u # s => x.rows[t][u] = d.rows[t][u]
  BY <1>1, RowsWithoutIs DEF Sound, Databases, RowTables
<1>4. ASSUME NEW t \in Live(d), Followed(d, t) PROVE SameTimes(d, x, t)
  <2>1. t \in Trials /\ ~Farthest(d, t, s)
    BY <1>4 DEF Live
  <2> QED
    BY <2>1, DeletionLeavesTimes
<1> HIDE DEF x
<1>5. SameWhereListed(d, x)
  BY <1>1, <1>2, <1>3, <1>4 DEF SameWhereListed
<1> QED
  BY <1>5 DEF x

(* The timing behaviours, step by step.                                      *)
LEMMA ServeStep ==
  ASSUME TimingInv, NEW r \in Requests, Serve(r)
  PROVE  TimingInv'
<1>1. PICK call \in SomeCall(db) :
        /\ Handled(db, call).ok /\ db' = Handled(db, call).db
        /\ waiting' = IF Recomputes(db, call) THEN waiting \cup {r} ELSE waiting
        /\ current' = IF call.op = "row" THEN current ELSE {}
        /\ spoiled' = (spoiled \/ call.op = "row" \/ LeavesDelay(db, call))
  BY DEF Serve
<1>2. r = served + 1 /\ served' = r /\ UNCHANGED reading
  BY DEF Serve
<1>3. ProperCall(call) /\ SoundAnswer(db, Handled(db, call)) /\ Sound(db)
  BY SomeCallIsProper, HandledSound DEF TimingInv, TimingTypes
<1>4. Sound(db')
  BY <1>1, <1>3 DEF SoundAnswer
<1>5. TimingTypes'
  <2>1. /\ reading' \in [Requests -> SUBSET Plans]
        /\ \A q \in Requests : /\ reading'[q] # {} => q \in waiting'
                               /\ \A plan \in reading'[q] : Unique(plan.trials)
    BY <1>1, <1>2 DEF TimingInv, TimingTypes
  <2>2. current' \subseteq waiting' /\ waiting' \subseteq Requests
    BY <1>1 DEF TimingInv, TimingTypes
  <2>3. served' \in Nat /\ waiting' \subseteq 1..served'
    <3>1. served \in Nat /\ waiting \subseteq 1..served
      BY DEF TimingInv, TimingTypes
    <3>2. waiting' \subseteq waiting \cup {served + 1}
      BY <1>1, <1>2
    <3> QED
      BY <1>2, <3>1, <3>2
  <2>4. spoiled' \in BOOLEAN
    BY <1>1 DEF TimingInv, TimingTypes, LeavesDelay
  <2> QED
    BY <1>4, <2>1, <2>2, <2>3, <2>4 DEF TimingTypes
<1>6. CurrentPlans'
  <2> SUFFICES ASSUME NEW q \in current' PROVE reading'[q] = {Read(db')}
    BY DEF CurrentPlans
  <2>1. call.op = "row" /\ q \in current
    BY <1>1
  <2>2. SameButRows(db, db')
    BY <1>1, <1>3, <2>1, RowChosen
  <2>3. Read(db') = Read(db)
    BY <2>2, ReadOfRows
  <2> QED
    BY <1>2, <2>1, <2>3 DEF TimingInv, CurrentPlans
<1>7. QuietRowsAreExact'
  <2> SUFFICES ASSUME waiting' = {}, ~spoiled' PROVE Exact(db')
    BY DEF QuietRowsAreExact
  <2>1. ~Recomputes(db, call) /\ waiting = {} /\ ~spoiled /\ call.op # "row" /\ ~LeavesDelay(db, call)
    BY <1>1 DEF TimingInv, TimingTypes
  <2>2. Exact(db)
    BY <2>1 DEF TimingInv, QuietRowsAreExact
  <2>3. CASE call.op = "delete race"
    <3>1. Handled(db, call) = DeleteRace(db)
      BY <1>3, <2>3, HandledIs
    <3>2. db'.entries = <<>>
      <4> DEFINE empty == [t \in Trials |-> NoTrial]
                 rows == [t \in Trials |-> [s \in Stations |-> NoRow(db.rows[t][s].n)]]
                 x == [db EXCEPT !.race = FALSE, !.trials = empty, !.entries = <<>>, !.files = {}, !.rows = rows]
      <4>1. Handled(db, call) \in {Answer(FALSE, db), Answer(TRUE, x)}
        BY <3>1 DEF DeleteRace
      <4>2. Answer(FALSE, db).ok = FALSE /\ Answer(TRUE, x).db = x
        BY AnswerIs
      <4>3. x.entries = <<>>
        <5> HIDE DEF empty, rows
        <5> QED
          BY <1>3 DEF Sound, Databases
      <4> HIDE DEF x
      <4> QED
        BY <1>1, <4>1, <4>2, <4>3
    <3> QED
      BY <3>2, NothingIsExact
  <2>5. CASE call.op = "delete vs"
    <3> DEFINE s == call.vs
               x == Without(db, s)
    <3>1. s \in Stations /\ Handled(db, call) = DeleteVS(db, s)
      BY <1>3, <2>5, HandledIs DEF ProperCall
    <3>2. db' = x
      <4>1. Handled(db, call) \in {Answer(FALSE, db), Answer(TRUE, x)}
        BY <3>1, DeleteVSIs
      <4>2. Answer(FALSE, db).ok = FALSE /\ Answer(TRUE, x).db = x
        BY AnswerIs
      <4> HIDE DEF x
      <4> QED
        BY <1>1, <4>1, <4>2
    <3>3. \A t \in Live(db) : Followed(db, t) => ~Farthest(db, t, s)
      BY <2>1, <2>5 DEF LeavesDelay
    <3> HIDE DEF s
    <3>4. Sound(x) /\ SameWhereListed(db, x)
      BY <1>3, <1>4, <3>1, <3>2, <3>3, HarmlessDeletion
    <3> HIDE DEF x
    <3> QED
      BY <1>3, <2>2, <3>2, <3>4, ExactWhereListed
  <2>4. CASE call.op \notin {"delete race", "delete vs"}
    <3>1. call.op = "move" /\ call.vs \notin Range(db.entries)
      BY <2>1, <2>4 DEF Recomputes
    <3> DEFINE s == call.vs
               places == [db.place EXCEPT ![s] = call.place]
               x == [db EXCEPT !.place = places]
    <3>2. db' = x
      <4>1. Handled(db, call) \in {Answer(FALSE, db), Answer(TRUE, x)}
        BY <1>3, <3>1, HandledIs DEF MoveVS
      <4>2. Answer(FALSE, db).ok = FALSE /\ Answer(TRUE, x).db = x
        BY AnswerIs
      <4> HIDE DEF x
      <4> QED
        BY <1>1, <4>1, <4>2
    <3>3. \A u \in Range(db.entries) : places[u] = db.place[u]
      <4>1. db.place \in [Stations -> Places] /\ db.entries \in Seq(Stations)
        BY <1>3 DEF Sound, Databases
      <4>2. Range(db.entries) \in SUBSET Stations
        BY <4>1, FiniteRange
      <4> QED
        BY <3>1, <4>1, <4>2
    <3> HIDE DEF places
    <3>4. /\ x.trials = db.trials /\ x.files = db.files /\ x.rows = db.rows /\ x.entries = db.entries
          /\ x.place = places
      BY <1>3 DEF Sound, Databases
    <3> HIDE DEF x
    <3>5. Sound(x) /\ SameWhereListed(db, x)
      BY <1>3, <1>4, <3>2, <3>3, <3>4, UnlistedMove
    <3> QED
      BY <1>3, <2>2, <3>2, <3>5, ExactWhereListed
  <2> QED
    BY <2>3, <2>4, <2>5
<1> QED
  BY <1>5, <1>6, <1>7 DEF TimingInv

LEMMA ReadStep ==
  ASSUME TimingInv, NEW r \in Requests, ReadRace(r)
  PROVE  TimingInv'
<1>1. Read(db) \in Plans /\ Unique(Read(db).trials)
  BY SoundTables DEF TimingInv, TimingTypes
<1>2. r \in waiting /\ reading' = [reading EXCEPT ![r] = {Read(db)}] /\ current' = current \cup {r}
      /\ UNCHANGED <<db, waiting, served, spoiled>>
  BY DEF ReadRace
<1>3. \A q \in Requests : reading'[q] = IF q = r THEN {Read(db)} ELSE reading[q]
  BY <1>2 DEF TimingInv, TimingTypes
<1>4. TimingTypes'
  <2>1. reading' \in [Requests -> SUBSET Plans]
    BY <1>1, <1>2 DEF TimingInv, TimingTypes
  <2> QED
    BY <1>1, <1>2, <1>3, <2>1 DEF TimingInv, TimingTypes
<1>5. CurrentPlans'
  BY <1>2, <1>3 DEF TimingInv, TimingTypes, CurrentPlans
<1>6. QuietRowsAreExact'
  BY <1>2 DEF TimingInv, QuietRowsAreExact
<1> QED
  BY <1>4, <1>5, <1>6 DEF TimingInv

LEMMA FinishTypes ==
  ASSUME TimingInv, NEW r \in Requests, Finish(r), Sound(db'), spoiled' \in BOOLEAN,
         Read(db') = Read(db)
  PROVE  TimingTypes' /\ CurrentPlans'
<1>1. /\ reading' = [reading EXCEPT ![r] = {}] /\ waiting' = waiting \ {r}
      /\ current' = current \ {r} /\ served' = served
  BY DEF Finish
<1>2. \A q \in Requests : reading'[q] = IF q = r THEN {} ELSE reading[q]
  BY <1>1 DEF TimingInv, TimingTypes
<1>3. TimingTypes'
  BY <1>1, <1>2 DEF TimingInv, TimingTypes
<1>4. CurrentPlans'
  BY <1>1, <1>2 DEF TimingInv, TimingTypes, CurrentPlans
<1> QED
  BY <1>3, <1>4

(* The plan of a recompute that is not outdated is what there is.            *)
LEMMA RecomputeStep ==
  ASSUME TimingInv, NEW r \in Requests, RecomputeRace(r)
  PROVE  TimingInv'
<1>1. PICK plan \in reading[r] : db' = Recomputed(plan, db)
  BY DEF RecomputeRace
<1>2. r \in waiting /\ spoiled' = (r \notin current) /\ Finish(r)
  BY DEF RecomputeRace
<1>3. plan \in Plans /\ Unique(plan.trials) /\ Sound(db)
  BY DEF TimingInv, TimingTypes
<1>4. Sound(db') /\ SameButRows(db, db')
  BY <1>1, <1>3, RecomputedSound
<1>5. TimingTypes' /\ CurrentPlans'
  BY <1>2, <1>4, FinishTypes, ReadOfRows
<1>6. QuietRowsAreExact'
  <2> SUFFICES ASSUME ~spoiled' PROVE Exact(db')
    BY DEF QuietRowsAreExact
  <2>1. plan = Read(db)
    <3>1. r \in current
      BY <1>2
    <3>2. reading[r] = {Read(db)}
      BY <3>1 DEF TimingInv, CurrentPlans
    <3> QED
      BY <1>1, <3>2
  <2>2. IsRecompute(db, plan, db', InSequence(db.trials))
    BY <1>1, <2>1 DEF IsRecompute
  <2> QED
    BY <1>3, <2>2, RecomputedExact DEF Sound
<1> QED
  BY <1>5, <1>6 DEF TimingInv

LEMMA FailStep ==
  ASSUME TimingInv, NEW r \in Requests, Fail(r)
  PROVE  TimingInv'
<1>1. Finish(r) /\ spoiled' = TRUE /\ UNCHANGED db
  BY DEF Fail
<1>2. TimingTypes' /\ CurrentPlans'
  BY <1>1, FinishTypes DEF TimingInv, TimingTypes
<1>3. QuietRowsAreExact'
  BY <1>1 DEF QuietRowsAreExact
<1> QED
  BY <1>2, <1>3 DEF TimingInv

LEMMA TimingStep == TimingInv /\ TimingNext => TimingInv'
BY ServeStep, ReadStep, RecomputeStep, FailStep DEF TimingNext
-----------------------------------------------------------------------------
(* What a handler leaves alone, and what its recompute does.                 *)
LEMMA RaceKept ==
  ASSUME NEW d, Sound(d), NEW call, ProperCall(call), call.op # "delete race"
  PROVE  /\ Handled(d, call).db.race = d.race
         /\ call.op \notin {"create", "patch", "delete", "reorder"} => Handled(d, call).db.trials = d.trials
<1> DEFINE a == Handled(d, call)
<1>0. d \in Databases
  BY DEF Sound
<1>1. ASSUME call.op = "create" PROVE a.db.race = d.race
  <2> DEFINE new == [seq |-> call.sequence, start |-> Null, front |-> 2, tail |-> 1]
             trials == [d.trials EXCEPT ![d.born + 1] = new]
             x == [d EXCEPT !.born = d.born + 1, !.trials = trials]
  <2>1. a \in {Answer(FALSE, d), Answer(TRUE, x)}
    <3>1. a = CreateTrial(d, call.sequence)
      BY <1>1, HandledIs
    <3>2. CASE ~d.race \/ Taken(d.trials, call.sequence, Trials)
      BY <3>1, <3>2 DEF CreateTrial
    <3>3. CASE ~(~d.race \/ Taken(d.trials, call.sequence, Trials))
      BY <3>1, <3>3 DEF CreateTrial
    <3> QED
      BY <3>2, <3>3
  <2> HIDE DEF new, trials
  <2>2. x.race = d.race
    BY <1>0 DEF Databases
  <2>3. Answer(FALSE, d).db = d /\ Answer(TRUE, x).db = x
    BY AnswerIs
  <2> HIDE DEF x, a
  <2> QED
    BY <2>1, <2>2, <2>3
<1>2. ASSUME call.op = "patch" PROVE a.db.race = d.race
  <2> DEFINE t == call.trial
             patch == call.patch
             start == IF patch.start = Null THEN d.trials[t].start ELSE patch.start
             trials == [d.trials EXCEPT ![t] = [d.trials[t] EXCEPT !.start = start, !.front = patch.front, !.tail = patch.tail]]
             x == [d EXCEPT !.trials = trials]
  <2>1. a \in {Answer(FALSE, d), Answer(TRUE, x)}
    BY <1>2, HandledIs DEF PatchTrial
  <2> HIDE DEF t, patch, start, trials
  <2>2. x.race = d.race
    BY <1>0 DEF Databases
  <2>3. Answer(FALSE, d).db = d /\ Answer(TRUE, x).db = x
    BY AnswerIs
  <2> HIDE DEF x, a
  <2> QED
    BY <2>1, <2>2, <2>3
<1>3. ASSUME call.op = "delete" PROVE a.db.race = d.race
  <2> DEFINE t == call.trial
             trials == [d.trials EXCEPT ![t] = NoTrial]
             rows == [d.rows EXCEPT ![t] = [s \in Stations |-> NoRow(d.rows[t][s].n)]]
             files == {IF f.trial = t THEN [f EXCEPT !.trial = 0] ELSE f : f \in d.files}
             x == [d EXCEPT !.trials = trials, !.rows = rows, !.files = files]
  <2>1. a \in {Answer(FALSE, d), Answer(TRUE, x)}
    <3>1. a = DeleteTrial(d, t)
      BY <1>3, HandledIs
    <3>2. CASE t \notin Live(d)
      BY <3>1, <3>2 DEF DeleteTrial
    <3>3. CASE t \in Live(d)
      <4>1. DeleteTrial(d, t) = Answer(TRUE, x)
        BY <3>3 DEF DeleteTrial
      <4> QED
        BY <3>1, <4>1
    <3> QED
      BY <3>2, <3>3
  <2> HIDE DEF t, trials, rows, files
  <2>2. x.race = d.race
    BY <1>0 DEF Databases
  <2>3. Answer(FALSE, d).db = d /\ Answer(TRUE, x).db = x
    BY AnswerIs
  <2> HIDE DEF x, a
  <2> QED
    BY <2>1, <2>2, <2>3
<1>4. ASSUME call.op = "reorder" PROVE a.db.race = d.race
  <2> DEFINE updates == Phases(call.items)
             trials == Renumbered(d.trials, updates)[Len(updates)]
             x == [d EXCEPT !.trials = trials]
  <2>1. a = IF trials = Refused THEN Answer(FALSE, d) ELSE Answer(TRUE, x)
    BY <1>4, HandledIs, ReorderIs
  <2> HIDE DEF updates, trials
  <2>2. x.race = d.race
    BY <1>0 DEF Databases
  <2>3. Answer(FALSE, d).db = d /\ Answer(TRUE, x).db = x
    BY AnswerIs
  <2> HIDE DEF x, a
  <2> QED
    BY <2>1, <2>2, <2>3
<1>5. ASSUME call.op = "upload" PROVE a.db.race = d.race /\ a.db.trials = d.trials
  <2> DEFINE files == d.files \cup {[id |-> d.uploads + 1, trial |-> call.trial, track |-> call.track]}
             x == [d EXCEPT !.uploads = d.uploads + 1, !.files = files]
  <2>1. a \in {Answer(FALSE, d), Answer(TRUE, x)}
    BY <1>5, HandledIs DEF UploadGPX
  <2> HIDE DEF files
  <2>2. x.race = d.race /\ x.trials = d.trials
    BY <1>0 DEF Databases
  <2>3. Answer(FALSE, d).db = d /\ Answer(TRUE, x).db = x
    BY AnswerIs
  <2> HIDE DEF x, a
  <2> QED
    BY <2>1, <2>2, <2>3
<1>6. ASSUME call.op = "delete gpx" PROVE a.db.race = d.race /\ a.db.trials = d.trials
  <2> DEFINE files == {f \in d.files : ~(f.id = call.file /\ f.trial = call.trial)}
             x == [d EXCEPT !.files = files]
  <2>1. a \in {Answer(FALSE, d), Answer(TRUE, x)}
    BY <1>6, HandledIs DEF DeleteGPX
  <2> HIDE DEF files
  <2>2. x.race = d.race /\ x.trials = d.trials
    BY <1>0 DEF Databases
  <2>3. Answer(FALSE, d).db = d /\ Answer(TRUE, x).db = x
    BY AnswerIs
  <2> HIDE DEF x, a
  <2> QED
    BY <2>1, <2>2, <2>3
<1>7. ASSUME call.op = "list" PROVE a.db.race = d.race /\ a.db.trials = d.trials
  <2> DEFINE list == call.list
             x == [d EXCEPT !.entries = list]
  <2>1. a \in {Answer(FALSE, d), Answer(TRUE, x)}
    BY <1>7, HandledIs DEF ReplaceList
  <2> HIDE DEF list
  <2>2. x.race = d.race /\ x.trials = d.trials
    BY <1>0 DEF Databases
  <2>3. Answer(FALSE, d).db = d /\ Answer(TRUE, x).db = x
    BY AnswerIs
  <2> HIDE DEF x, a
  <2> QED
    BY <2>1, <2>2, <2>3
<1>8. ASSUME call.op = "move" PROVE a.db.race = d.race /\ a.db.trials = d.trials
  <2> DEFINE place == [d.place EXCEPT ![call.vs] = call.place]
             x == [d EXCEPT !.place = place]
  <2>1. a \in {Answer(FALSE, d), Answer(TRUE, x)}
    BY <1>8, HandledIs DEF MoveVS
  <2> HIDE DEF place
  <2>2. x.race = d.race /\ x.trials = d.trials
    BY <1>0 DEF Databases
  <2>3. Answer(FALSE, d).db = d /\ Answer(TRUE, x).db = x
    BY AnswerIs
  <2> HIDE DEF x, a
  <2> QED
    BY <2>1, <2>2, <2>3
<1>9. ASSUME call.op = "row" PROVE a.db.race = d.race /\ a.db.trials = d.trials
  <2> DEFINE t == call.trial
             s == call.vs
             rows == [d.rows EXCEPT ![t][s].source = call.source]
             x == [d EXCEPT !.rows = rows]
  <2>1. a \in {Answer(FALSE, d), Answer(TRUE, x)}
    BY <1>9, HandledIs DEF PatchTrialVSRow
  <2> HIDE DEF t, s, rows
  <2>2. x.race = d.race /\ x.trials = d.trials
    BY <1>0 DEF Databases
  <2>3. Answer(FALSE, d).db = d /\ Answer(TRUE, x).db = x
    BY AnswerIs
  <2> HIDE DEF x, a
  <2> QED
    BY <2>1, <2>2, <2>3
<1>11. ASSUME call.op = "delete vs" PROVE a.db.race = d.race /\ a.db.trials = d.trials
  <2> DEFINE s == call.vs
             x == Without(d, s)
  <2>1. s \in Stations /\ a = DeleteVS(d, s)
    BY <1>11, HandledIs DEF ProperCall
  <2> HIDE DEF s, a
  <2>2. x.race = d.race /\ x.trials = d.trials
    BY <2>1, WithoutIs
  <2>3. a \in {Answer(FALSE, d), Answer(TRUE, x)}
    BY <2>1, DeleteVSIs
  <2>4. Answer(FALSE, d).db = d /\ Answer(TRUE, x).db = x
    BY AnswerIs
  <2> HIDE DEF x
  <2> QED
    BY <2>2, <2>3, <2>4
<1> HIDE DEF a
<1>10. /\ a.db.race = d.race
       /\ call.op \notin {"create", "patch", "delete", "reorder"} => a.db.trials = d.trials
  BY <1>1, <1>2, <1>3, <1>4, <1>5, <1>6, <1>7, <1>8, <1>9, <1>11 DEF ProperCall, Operations
<1> QED
  BY <1>10 DEF a

LEMMA AfterSound ==
  ASSUME NEW d, Sound(d), NEW call, ProperCall(call), call.op # "delete race",
         call.op = "create" => d.born < Cardinality(Trials)
  PROVE  /\ Sound(After(d, call)) /\ After(d, call).race = d.race
         /\ SameButRows(Handled(d, call).db, After(d, call))
<1> DEFINE x == Handled(d, call).db
           y == Recomputed(Read(x), x)
<1>1. Sound(x) /\ x.race = d.race
  BY HandledSound, RaceKept DEF SoundAnswer
<1> HIDE DEF x
<1>2. Read(x) \in Plans /\ Unique(Read(x).trials)
  BY <1>1, SoundTables
<1>3. Sound(y) /\ SameButRows(x, y) /\ SameButRows(x, x)
  BY <1>1, <1>2, RecomputedSound DEF SameButRows
<1>4. y.race = d.race
  BY <1>1, <1>3 DEF SameButRows
<1> HIDE DEF y
<1>5. After(d, call) \in {x, y}
  BY DEF After, x, y
<1>6. Sound(After(d, call)) /\ After(d, call).race = d.race /\ SameButRows(x, After(d, call))
  BY <1>1, <1>3, <1>4, <1>5
<1> QED
  BY <1>6 DEF x
-----------------------------------------------------------------------------
LEMMA InsertAtIs ==
  ASSUME NEW S, NEW s \in Seq(S), NEW i \in 1..(Len(s) + 1), NEW e \in S
  PROVE  InsertAt(s, i, e) \in Seq(S) /\ IsInsertion(InsertAt(s, i, e), s, i, e)
<1> DEFINE n == Len(s)
           left == SubSeq(s, 1, i - 1)
           right == SubSeq(s, i, n)
           r == InsertAt(s, i, e)
<1>1. n \in Nat /\ DOMAIN s = 1..n /\ (\A j \in 1..n : s[j] \in S) /\ i \in 1..(n + 1)
  BY LenProperties
<1>2. i - 1 \in Int /\ i \in Int /\ n \in Int
  BY <1>1
<1>3. r \in Seq(S)
  BY InsertAtType
<1>4. r = left \o <<e>> \o right
  BY DEF InsertAt
<1> HIDE DEF n, r
<1>5. left \in Seq(S) /\ Len(left) = i - 1 /\ \A j \in 1..(i - 1) : left[j] = s[j]
  <2>1. \A j \in 1..(i - 1) : s[j] \in S
    BY <1>1, <1>2
  <2>2. /\ left \in Seq(S) /\ Len(left) = IF 1 <= i - 1 THEN i - 1 - 1 + 1 ELSE 0
        /\ \A j \in 1 .. i - 1 - 1 + 1 : left[j] = s[1 + j - 1]
    BY <1>2, <2>1, SubSeqProperties
  <2>3. Len(left) = i - 1
    BY <1>1, <2>2
  <2>4. \A j \in 1..(i - 1) : j \in 1..(i - 1 - 1 + 1) /\ 1 + j - 1 = j
    BY <1>1
  <2> HIDE DEF left
  <2> QED
    BY <2>2, <2>3, <2>4
<1>6. right \in Seq(S) /\ Len(right) = n - i + 1 /\ \A j \in 1..(n - i + 1) : right[j] = s[i + j - 1]
  <2>1. \A j \in i..n : s[j] \in S
    BY <1>1, <1>2
  <2>2. /\ right \in Seq(S) /\ Len(right) = IF i <= n THEN n - i + 1 ELSE 0
        /\ \A j \in 1 .. n - i + 1 : right[j] = s[i + j - 1]
    BY <1>2, <2>1, SubSeqProperties
  <2>3. Len(right) = n - i + 1
    BY <1>1, <2>2
  <2> QED
    BY <2>2, <2>3
<1> DEFINE head == left \o <<e>>
<1> HIDE DEF left, right
<1>7. head \in Seq(S) /\ Len(head) = i /\ \A j \in 1..i : head[j] = IF j <= i - 1 THEN left[j] ELSE e
  <2>1. <<e>> \in Seq(S) /\ Len(<<e>>) = 1 /\ <<e>>[1] = e
    OBVIOUS
  <2>2. /\ head \in Seq(S) /\ Len(head) = Len(left) + Len(<<e>>)
        /\ \A j \in 1..(Len(left) + Len(<<e>>)) :
             head[j] = IF j <= Len(left) THEN left[j] ELSE <<e>>[j - Len(left)]
    BY <1>5, <2>1, ConcatProperties
  <2>3. Len(left) + Len(<<e>>) = i
    BY <1>1, <1>5, <2>1
  <2>4. \A j \in 1..i : ~(j <= i - 1) => j - (i - 1) = 1
    BY <1>1
  <2> HIDE DEF head
  <2> QED
    BY <1>5, <2>1, <2>2, <2>3, <2>4
<1>8. r = head \o right
  BY <1>4
<1> HIDE DEF head
<1>9. /\ Len(head \o right) = i + (n - i + 1)
      /\ \A j \in 1..(i + (n - i + 1)) : (head \o right)[j] = IF j <= i THEN head[j] ELSE right[j - i]
  <2>1. Len(head) = i /\ Len(right) = n - i + 1
    BY <1>6, <1>7
  <2>2. /\ Len(head \o right) = Len(head) + Len(right)
        /\ \A j \in 1..(Len(head) + Len(right)) :
             (head \o right)[j] = IF j <= Len(head) THEN head[j] ELSE right[j - Len(head)]
    BY <1>6, <1>7, ConcatProperties
  <2> QED
    BY <2>1, <2>2
<1>10. i + (n - i + 1) = n + 1
  BY <1>1
<1>11. Len(r) = n + 1
  BY <1>8, <1>9, <1>10
<1>12. ASSUME NEW j \in 1..(n + 1)
       PROVE  r[j] = IF j < i THEN s[j] ELSE IF j = i THEN e ELSE s[j - 1]
  <2>1. r[j] = IF j <= i THEN head[j] ELSE right[j - i]
    BY <1>8, <1>9, <1>10
  <2>2. CASE j < i
    BY <1>1, <1>5, <1>7, <2>1, <2>2
  <2>3. CASE j = i
    BY <1>1, <1>7, <2>1, <2>3
  <2>4. CASE j > i
    <3>1. j - i \in 1..(n - i + 1) /\ i + (j - i) - 1 = j - 1 /\ ~(j <= i) /\ ~(j < i) /\ j # i
      BY <1>1, <2>4
    <3>2. right[j - i] = s[i + (j - i) - 1]
      BY <1>6, <3>1
    <3> QED
      BY <2>1, <3>1, <3>2
  <2> QED
    BY <1>1, <2>2, <2>3, <2>4
<1>13. /\ r \in Seq(S) /\ Len(r) = Len(s) + 1
       /\ \A j \in 1..Len(r) : r[j] = IF j < i THEN s[j] ELSE IF j = i THEN e ELSE s[j - 1]
  BY <1>3, <1>11, <1>12 DEF n
<1> QED
  BY <1>13 DEF r, IsInsertion

(* Where each element of a moved sequence comes from.                        *)
Source(j, from, to) ==
  IF j = to THEN from
  ELSE LET k == IF j < to THEN j ELSE j - 1 IN IF k < from THEN k ELSE k + 1
IsMove(m, s, from, to) ==
  /\ Len(m) = Len(s)
  /\ \A j \in 1..Len(s) : Source(j, from, to) \in 1..Len(s) /\ m[j] = s[Source(j, from, to)]

LEMMA arrayMoveIs ==
  ASSUME NEW S, NEW s \in Seq(S), NEW from \in DOMAIN s, NEW to \in DOMAIN s
  PROVE  arrayMove(s, from, to) \in Seq(S) /\ IsMove(arrayMove(s, from, to), s, from, to)
<1> DEFINE n == Len(s)
           r == RemoveAt(s, from)
           m == InsertAt(r, to, s[from])
<1>1. n \in Nat /\ from \in 1..n /\ to \in 1..n /\ s[from] \in S
  BY LenProperties
<1>2. r \in Seq(S) /\ IsRemoval(r, s, from)
  BY RemoveAtIs
<1> HIDE DEF r
<1>3. to \in 1..(Len(r) + 1)
  BY <1>1, <1>2 DEF IsRemoval
<1>4. m \in Seq(S) /\ IsInsertion(m, r, to, s[from])
  BY <1>1, <1>2, <1>3, InsertAtIs
<1>5. arrayMove(s, from, to) = m
  BY DEF arrayMove, r
<1> HIDE DEF m
<1>6. Len(r) = n - 1 /\ Len(m) = n
  BY <1>1, <1>2, <1>4 DEF IsRemoval, IsInsertion
<1>7. ASSUME NEW j \in 1..n PROVE Source(j, from, to) \in 1..n /\ m[j] = s[Source(j, from, to)]
  <2>1. m[j] = IF j < to THEN r[j] ELSE IF j = to THEN s[from] ELSE r[j - 1]
    BY <1>4, <1>6 DEF IsInsertion
  <2>2. \A k \in 1..(n - 1) : r[k] = IF k < from THEN s[k] ELSE s[k + 1]
    BY <1>2, <1>6 DEF IsRemoval
  <2>3. CASE j = to
    BY <1>1, <2>1, <2>3 DEF Source
  <2>4. CASE j < to
    <3>1. j \in 1..(n - 1) /\ m[j] = r[j] /\ j # to
      BY <1>1, <2>1, <2>4
    <3>2. Source(j, from, to) = IF j < from THEN j ELSE j + 1
      BY <2>4, <3>1 DEF Source
    <3> QED
      BY <1>1, <2>2, <3>1, <3>2
  <2>5. CASE j > to
    <3>1. j - 1 \in 1..(n - 1) /\ m[j] = r[j - 1] /\ j # to /\ ~(j < to)
      BY <1>1, <2>1, <2>5
    <3>2. Source(j, from, to) = IF j - 1 < from THEN j - 1 ELSE (j - 1) + 1
      BY <3>1 DEF Source
    <3> QED
      BY <1>1, <2>2, <3>1, <3>2
  <2> QED
    BY <1>1, <2>3, <2>4, <2>5
<1>8. m \in Seq(S) /\ IsMove(m, s, from, to)
  BY <1>4, <1>6, <1>7 DEF n, IsMove
<1> QED
  BY <1>5, <1>8

Permutes(order, T) ==
  /\ order \in Seq(T)
  /\ \A i, j \in 1..Len(order) : order[i] = order[j] => i = j
  /\ \A t \in T : \E i \in 1..Len(order) : order[i] = t

LEMMA MovePermutes ==
  ASSUME NEW T, NEW order, Permutes(order, T), NEW from \in DOMAIN order, NEW to \in DOMAIN order
  PROVE  Permutes(arrayMove(order, from, to), T) /\ Len(arrayMove(order, from, to)) = Len(order)
<1> DEFINE n == Len(order)
           m == arrayMove(order, from, to)
           At(j) == Source(j, from, to)
<1>1. order \in Seq(T) /\ n \in Nat /\ from \in 1..n /\ to \in 1..n
  BY LenProperties DEF Permutes
<1>2. m \in Seq(T) /\ Len(m) = n /\ \A j \in 1..n : At(j) \in 1..n /\ m[j] = order[At(j)]
  <2>1. m \in Seq(T) /\ IsMove(m, order, from, to)
    BY <1>1, arrayMoveIs
  <2> HIDE DEF m
  <2> QED
    BY <2>1 DEF IsMove
<1>3. ASSUME NEW i \in 1..n, NEW j \in 1..n, At(i) = At(j) PROVE i = j
  BY <1>1, <1>3 DEF Source
<1>4. ASSUME NEW k \in 1..n PROVE \E j \in 1..n : At(j) = k
  <2> DEFINE r == IF k < from THEN k ELSE k - 1
             j == IF k = from THEN to ELSE IF r < to THEN r ELSE r + 1
  <2>1. j \in 1..n
    BY <1>1
  <2>2. At(j) = k
    BY <1>1 DEF Source
  <2> HIDE DEF j, At
  <2> QED
    BY <2>1, <2>2
<1> HIDE DEF n, m, At
<1>5. \A i, j \in 1..n : m[i] = m[j] => i = j
  <2> SUFFICES ASSUME NEW i \in 1..n, NEW j \in 1..n, m[i] = m[j] PROVE i = j
    OBVIOUS
  <2>1. order[At(i)] = order[At(j)] /\ At(i) \in 1..n /\ At(j) \in 1..n
    BY <1>2
  <2>2. At(i) = At(j)
    BY <2>1 DEF Permutes, n
  <2> QED
    BY <1>3, <2>2
<1>6. ASSUME NEW t \in T PROVE \E j \in 1..n : m[j] = t
  <2>1. PICK k \in 1..n : order[k] = t
    BY DEF Permutes, n
  <2>2. PICK j \in 1..n : At(j) = k
    BY <1>4
  <2> QED
    BY <1>2, <2>1, <2>2
<1> QED
  BY <1>2, <1>5, <1>6 DEF Permutes, n, m

LEMMA RemovalKeeps ==
  ASSUME NEW S, NEW s \in Seq(S), NEW r \in Seq(S), NEW i \in DOMAIN s, IsRemoval(r, s, i),
         NEW x, NEW y, x # s[i], y # s[i]
  PROVE  Precedes(r, x, y) <=> Precedes(s, x, y)
<1> DEFINE n == Len(s)
<1>1. n \in Nat /\ i \in 1..n /\ DOMAIN s = 1..n /\ DOMAIN r = 1..(n - 1) /\ Len(r) = n - 1
  BY LenProperties DEF IsRemoval
<1>2. \A j \in 1..(n - 1) : r[j] = IF j < i THEN s[j] ELSE s[j + 1]
  BY <1>1 DEF IsRemoval
<1> HIDE DEF n
<1>3. ASSUME Precedes(r, x, y) PROVE Precedes(s, x, y)
  <2>1. PICK j, k \in 1..(n - 1) : j <= k /\ r[j] = x /\ r[k] = y
    BY <1>1, <1>3 DEF Precedes
  <2> DEFINE a == IF j < i THEN j ELSE j + 1
             b == IF k < i THEN k ELSE k + 1
  <2>2. a \in 1..n /\ b \in 1..n /\ a <= b
    BY <1>1, <2>1
  <2>3. s[a] = x /\ s[b] = y
    BY <1>2, <2>1
  <2> HIDE DEF a, b
  <2> QED
    BY <1>1, <2>2, <2>3 DEF Precedes
<1>4. ASSUME Precedes(s, x, y) PROVE Precedes(r, x, y)
  <2>1. PICK j, k \in 1..n : j <= k /\ s[j] = x /\ s[k] = y
    BY <1>1, <1>4 DEF Precedes
  <2>2. j # i /\ k # i
    BY <2>1
  <2> DEFINE a == IF j < i THEN j ELSE j - 1
             b == IF k < i THEN k ELSE k - 1
  <2>3. a \in 1..(n - 1) /\ b \in 1..(n - 1) /\ a <= b
    BY <1>1, <2>1, <2>2
  <2>4. r[a] = s[j]
    BY <1>1, <1>2, <2>2, <2>3
  <2>5. r[b] = s[k]
    BY <1>1, <1>2, <2>2, <2>3
  <2> HIDE DEF a, b
  <2> QED
    BY <1>1, <2>1, <2>3, <2>4, <2>5 DEF Precedes
<1> QED
  BY <1>3, <1>4

LEMMA InsertionKeeps ==
  ASSUME NEW S, NEW s \in Seq(S), NEW r \in Seq(S), NEW i \in 1..(Len(s) + 1), NEW e,
         IsInsertion(r, s, i, e), NEW x, NEW y, x # e, y # e
  PROVE  Precedes(r, x, y) <=> Precedes(s, x, y)
<1> DEFINE n == Len(s)
<1>1. n \in Nat /\ i \in 1..(n + 1) /\ DOMAIN s = 1..n /\ DOMAIN r = 1..(n + 1) /\ Len(r) = n + 1
  BY LenProperties DEF IsInsertion
<1>2. \A j \in 1..(n + 1) : r[j] = IF j < i THEN s[j] ELSE IF j = i THEN e ELSE s[j - 1]
  BY <1>1 DEF IsInsertion
<1> HIDE DEF n
<1>3. ASSUME Precedes(s, x, y) PROVE Precedes(r, x, y)
  <2>1. PICK j, k \in 1..n : j <= k /\ s[j] = x /\ s[k] = y
    BY <1>1, <1>3 DEF Precedes
  <2> DEFINE a == IF j < i THEN j ELSE j + 1
             b == IF k < i THEN k ELSE k + 1
  <2>2. a \in 1..(n + 1) /\ b \in 1..(n + 1) /\ a <= b
    BY <1>1, <2>1
  <2>3. r[a] = s[j]
    <3>1. CASE j < i
      BY <1>1, <1>2, <2>2, <3>1
    <3>2. CASE ~(j < i)
      <4>1. a = j + 1 /\ ~(a < i) /\ a # i /\ a - 1 = j
        BY <1>1, <3>2
      <4> QED
        BY <1>2, <2>2, <4>1
    <3> QED
      BY <3>1, <3>2
  <2>4. r[b] = s[k]
    <3>1. CASE k < i
      BY <1>1, <1>2, <2>2, <3>1
    <3>2. CASE ~(k < i)
      <4>1. b = k + 1 /\ ~(b < i) /\ b # i /\ b - 1 = k
        BY <1>1, <3>2
      <4> QED
        BY <1>2, <2>2, <4>1
    <3> QED
      BY <3>1, <3>2
  <2> HIDE DEF a, b
  <2> QED
    BY <1>1, <2>1, <2>2, <2>3, <2>4 DEF Precedes
<1>4. ASSUME Precedes(r, x, y) PROVE Precedes(s, x, y)
  <2>1. PICK j, k \in 1..(n + 1) : j <= k /\ r[j] = x /\ r[k] = y
    BY <1>1, <1>4 DEF Precedes
  <2>2. j # i /\ k # i
    BY <1>1, <1>2, <2>1
  <2> DEFINE a == IF j < i THEN j ELSE j - 1
             b == IF k < i THEN k ELSE k - 1
  <2>3. a \in 1..n /\ b \in 1..n /\ a <= b
    BY <1>1, <2>1, <2>2
  <2>4. s[a] = x /\ s[b] = y
    BY <1>1, <1>2, <2>1, <2>2
  <2> HIDE DEF a, b
  <2> QED
    BY <1>1, <2>3, <2>4 DEF Precedes
<1> QED
  BY <1>3, <1>4

LEMMA AppendKeeps ==
  ASSUME NEW S, NEW s \in Seq(S), NEW e \in S, NEW x, NEW y, x # e, y # e
  PROVE  Precedes(Append(s, e), x, y) <=> Precedes(s, x, y)
<1> DEFINE n == Len(s)
           r == Append(s, e)
<1>1. n \in Nat /\ DOMAIN s = 1..n
  BY LenProperties
<1>2. r \in Seq(S) /\ Len(r) = n + 1 /\ (\A j \in 1..n : r[j] = s[j]) /\ r[n + 1] = e
  BY AppendProperties
<1> HIDE DEF n, r
<1>3. DOMAIN r = 1..(n + 1)
  BY <1>2, LenProperties
<1>4. ASSUME Precedes(s, x, y) PROVE Precedes(r, x, y)
  BY <1>1, <1>2, <1>3, <1>4 DEF Precedes
<1>5. ASSUME Precedes(r, x, y) PROVE Precedes(s, x, y)
  <2>1. PICK j, k \in 1..(n + 1) : j <= k /\ r[j] = x /\ r[k] = y
    BY <1>3, <1>5 DEF Precedes
  <2>2. j # n + 1 /\ k # n + 1
    BY <1>2, <2>1
  <2>3. j \in 1..n /\ k \in 1..n
    BY <1>1, <2>1, <2>2
  <2>4. s[j] = x /\ s[k] = y
    BY <1>2, <2>1, <2>3
  <2> QED
    BY <1>1, <2>1, <2>3, <2>4 DEF Precedes
<1>6. Precedes(r, x, y) <=> Precedes(s, x, y)
  BY <1>4, <1>5
<1> QED
  BY <1>6 DEF r

(* A list with one station moved.                                            *)
LEMMA MoveKeeps ==
  ASSUME NEW S, NEW s \in Seq(S), NEW from \in DOMAIN s, NEW to \in DOMAIN s,
         NEW x, NEW y, x # s[from], y # s[from]
  PROVE  Precedes(arrayMove(s, from, to), x, y) <=> Precedes(s, x, y)
<1> DEFINE r == RemoveAt(s, from)
           e == s[from]
           m == InsertAt(r, to, e)
<1>1. e \in S /\ Len(s) \in Nat /\ to \in 1..Len(s)
  BY LenProperties
<1>2. r \in Seq(S) /\ IsRemoval(r, s, from)
  BY RemoveAtIs
<1>3. arrayMove(s, from, to) = m
  BY DEF arrayMove
<1> HIDE DEF r
<1>4. Precedes(r, x, y) <=> Precedes(s, x, y)
  BY <1>2, RemovalKeeps
<1>5. to \in 1..(Len(r) + 1)
  BY <1>1, <1>2 DEF IsRemoval
<1>6. x # e /\ y # e
  OBVIOUS
<1> HIDE DEF e
<1>7. m \in Seq(S) /\ IsInsertion(m, r, to, e)
  BY <1>1, <1>2, <1>5, InsertAtIs
<1> HIDE DEF m
<1>8. Precedes(m, x, y) <=> Precedes(r, x, y)
  BY <1>2, <1>5, <1>6, <1>7, InsertionKeeps
<1> QED
  BY <1>3, <1>4, <1>8
-----------------------------------------------------------------------------
(* One number set, with what it changes.                                     *)
SetTo(new, trials, item) ==
  /\ new # Refused /\ new \in TrialTables /\ There(new) = There(trials)
  /\ \A u \in Trials : new[u].seq = IF u = item.trial THEN item.sequence ELSE trials[u].seq

LEMMA SetSequenceIs ==
  ASSUME NEW trials \in TrialTables, NEW item \in Items, trials # Refused, trials[item.trial] # NoTrial,
         ~Taken(trials, item.sequence, Trials \ {item.trial})
  PROVE  SetTo(SetSequence(trials, item), trials, item)
<1> DEFINE t == item.trial
           seq == item.sequence
           trial == [trials[t] EXCEPT !.seq = seq]
           new == SetSequence(trials, item)
<1>1. new = [trials EXCEPT ![t].seq = seq]
  BY DEF SetSequence
<1>2. new = [trials EXCEPT ![t] = trial]
  BY <1>1
<1>3. t \in Trials /\ seq \in Nat /\ trials[t] \in TrialRow
  BY DEF Items, TrialTables
<1>4. trial \in TrialRow /\ trial.seq = seq
  BY <1>3 DEF TrialRow
<1>5. trial # NoTrial
  BY <1>4, <1>3 DEF NoTrial, Null
<1> HIDE DEF trial, new
<1>6. new \in TrialTables /\ DOMAIN new = Trials /\ \A u \in Trials : new[u] = IF u = t THEN trial ELSE trials[u]
  BY <1>2, <1>3, <1>4 DEF TrialTables
<1>7. There(new) = There(trials)
  BY <1>3, <1>5, <1>6 DEF There
<1>8. new # Refused
  <2>1. DOMAIN Refused = {}
    BY DEF Refused
  <2> QED
    BY <1>3, <1>6, <2>1
<1>9. \A u \in Trials : new[u].seq = IF u = t THEN seq ELSE trials[u].seq
  BY <1>4, <1>6
<1> QED
  BY <1>6, <1>7, <1>8, <1>9 DEF SetTo, new

(* A drag: the numbers halfway through the updates of an order of all the    *)
(* trials there are, none of which is taken.                                 *)
Value(n, k, j, old) ==
  IF k <= n THEN IF j <= k THEN Temporary + j - 1 ELSE old
  ELSE IF j <= k - n THEN j - 1 ELSE Temporary + j - 1
Place(n, k) == IF k <= n THEN k ELSE k - n
LEMMA FreeNumber ==
  ASSUME NEW n \in Nat, NEW k \in 1..(2 * n), NEW j \in 1..n, NEW old \in Nat, old < Temporary,
         j # Place(n, k)
  PROVE  Value(n, k - 1, j, old) # Value(n, k, Place(n, k), old)
         /\ Value(n, k, j, old) = Value(n, k - 1, j, old)
<1>1. CASE k <= n
  BY <1>1 DEF Value, Place, Temporary
<1>2. CASE k = n + 1
  BY <1>2 DEF Value, Place, Temporary
<1>3. CASE k > n + 1
  BY <1>3 DEF Value, Place, Temporary
<1> QED
  BY <1>1, <1>2, <1>3

LEMMA PlaceIs ==
  ASSUME NEW n \in Nat, NEW k \in 1..(2 * n)
  PROVE  Place(n, k) \in 1..n /\ \A old : Value(n, k, Place(n, k), old) = IF k <= n THEN Temporary + k - 1 ELSE k - n - 1
<1>1. CASE k <= n
  BY <1>1 DEF Value, Place
<1>2. CASE k > n
  BY <1>2 DEF Value, Place
<1> QED
  BY <1>1, <1>2

Small(trials) == \A t \in There(trials) : trials[t].seq < Temporary
LEMMA DragNumbers ==
  ASSUME NEW trials \in TrialTables, Unique(trials), Small(trials), There(trials) # {},
         NEW moved, Permutes(moved, There(trials)), NEW items, items = Numbered(moved)
  PROVE  LET final == Renumbered(trials, Phases(items))[Len(Phases(items))] IN
         /\ final # Refused /\ final \in TrialTables /\ There(final) = There(trials)
         /\ \A j \in 1..Len(moved) : final[moved[j]].seq = j - 1
<1> DEFINE n == Len(moved)
           updates == Phases(items)
           set == Renumbered(trials, updates)
           T == There(trials)
           Going(k, x) == /\ x # Refused /\ x \in TrialTables /\ There(x) = T
                          /\ \A j \in 1..n : x[moved[j]].seq = Value(n, k, j, trials[moved[j]].seq)
<1>1. /\ n \in Nat /\ T \subseteq Trials /\ (\A j \in 1..n : moved[j] \in T)
      /\ (\A i, j \in 1..n : moved[i] = moved[j] => i = j) /\ (\A t \in T : \E j \in 1..n : moved[j] = t)
  <2>1. moved \in Seq(There(trials))
    BY DEF Permutes
  <2>2. n \in Nat /\ \A j \in 1..n : moved[j] \in There(trials)
    BY <2>1, LenProperties
  <2>3. There(trials) \subseteq Trials
    BY DEF There
  <2> QED
    BY <2>2, <2>3 DEF Permutes
<1>2. moved \in Seq(Trials)
  BY <1>1, SeqMonotonic DEF Permutes
<1>3. items \in Seq(Items) /\ Len(items) = n /\ \A i \in 1..n : items[i] = [trial |-> moved[i], sequence |-> i - 1]
  BY <1>2, NumberedType
<1>4. /\ updates \in Seq(Items) /\ Len(updates) = 2 * n
      /\ \A i \in 1..n : /\ updates[i] = [trial |-> items[i].trial, sequence |-> Temporary + i - 1]
                         /\ updates[n + i] = items[i]
  <2>1. /\ updates \in Seq(Items) /\ Len(updates) = 2 * Len(items)
        /\ \A i \in 1..Len(items) :
             /\ updates[i] = [trial |-> items[i].trial, sequence |-> Temporary + i - 1]
             /\ updates[Len(items) + i] = items[i]
    BY <1>3, PhasesType
  <2> HIDE DEF updates
  <2> QED
    BY <1>3, <2>1
<1>5. IsNumbering(set, trials, updates)
  BY <1>4, NumberingIs
<1> HIDE DEF n, updates, set, T
<1>6. \A k \in 1..(2 * n) : /\ updates[k] \in Items /\ updates[k].trial = moved[Place(n, k)]
                            /\ \A old : updates[k].sequence = Value(n, k, Place(n, k), old)
  <2> SUFFICES ASSUME NEW k \in 1..(2 * n)
               PROVE  /\ updates[k] \in Items /\ updates[k].trial = moved[Place(n, k)]
                      /\ \A old : updates[k].sequence = Value(n, k, Place(n, k), old)
    OBVIOUS
  <2>1. updates[k] \in Items
    BY <1>4, LenProperties
  <2>2. CASE k <= n
    <3>1. k \in 1..n /\ Place(n, k) = k
      BY <1>1, <2>2 DEF Place
    <3>2. updates[k] = [trial |-> moved[k], sequence |-> Temporary + k - 1]
      <4>1. items[k].trial = moved[k]
        BY <1>3, <3>1
      <4> QED
        BY <1>4, <3>1, <4>1
    <3> QED
      BY <1>1, <2>1, <2>2, <3>1, <3>2, PlaceIs
  <2>3. CASE k > n
    <3>1. k - n \in 1..n /\ Place(n, k) = k - n /\ n + (k - n) = k
      BY <1>1, <2>3 DEF Place
    <3>2. updates[k] = [trial |-> moved[k - n], sequence |-> k - n - 1]
      BY <1>3, <1>4, <3>1
    <3> QED
      BY <1>1, <2>1, <2>3, <3>1, <3>2, PlaceIs
  <2> QED
    BY <1>1, <2>2, <2>3
<1>7. Going(0, trials)
  <2>1. trials # Refused
    <3>1. T # {} /\ DOMAIN trials = Trials /\ DOMAIN Refused = {}
      BY DEF TrialTables, Refused, T
    <3> QED
      BY <1>1, <3>1
  <2>2. \A j \in 1..n : Value(n, 0, j, trials[moved[j]].seq) = trials[moved[j]].seq
    BY <1>1 DEF Value
  <2> QED
    BY <2>1, <2>2 DEF T
<1>8. ASSUME NEW k \in 1..(2 * n), NEW x, Going(k - 1, x) PROVE Going(k, SetSequence(x, updates[k]))
  <2> DEFINE item == updates[k]
             p == Place(n, k)
             new == SetSequence(x, item)
  <2>1. p \in 1..n /\ item \in Items /\ item.trial = moved[p] /\ \A old : item.sequence = Value(n, k, p, old)
    BY <1>1, <1>6, PlaceIs
  <2>2. x # Refused /\ x \in TrialTables /\ There(x) = T
        /\ \A j \in 1..n : x[moved[j]].seq = Value(n, k - 1, j, trials[moved[j]].seq)
    BY <1>8
  <2>3. \A j \in 1..n : trials[moved[j]].seq \in Nat /\ trials[moved[j]].seq < Temporary
    BY <1>1 DEF T, There, Small, TrialTables, TrialRow
  <2> HIDE DEF p, item
  <2>4. ASSUME NEW j \in 1..n, j # p
        PROVE  /\ x[moved[j]].seq # item.sequence
               /\ Value(n, k, j, trials[moved[j]].seq) = x[moved[j]].seq
    <3> DEFINE old == trials[moved[j]].seq
    <3>1. old \in Nat /\ old < Temporary /\ j # Place(n, k)
      BY <2>3, <2>4 DEF p
    <3> HIDE DEF old
    <3>2. /\ Value(n, k - 1, j, old) # Value(n, k, Place(n, k), old)
          /\ Value(n, k, j, old) = Value(n, k - 1, j, old)
      BY <1>1, <3>1, FreeNumber
    <3>3. item.sequence = Value(n, k, Place(n, k), old) /\ x[moved[j]].seq = Value(n, k - 1, j, old)
      BY <2>1, <2>2 DEF p, old
    <3> QED
      BY <3>2, <3>3 DEF old
  <2>5. x[item.trial] # NoTrial /\ item.trial \in Trials
    BY <1>1, <2>1, <2>2 DEF There
  <2>6. ~Taken(x, item.sequence, Trials \ {item.trial})
    <3> SUFFICES ASSUME NEW u \in Trials, u # item.trial, x[u] # NoTrial, x[u].seq = item.sequence PROVE FALSE
      BY DEF Taken
    <3>1. u \in T
      BY <2>2 DEF There
    <3>2. PICK j \in 1..n : moved[j] = u
      BY <1>1, <3>1
    <3>3. j # p
      BY <2>1, <3>2
    <3> QED
      BY <2>4, <3>2, <3>3
  <2>7. SetTo(new, x, item)
    BY <2>1, <2>2, <2>5, <2>6, SetSequenceIs
  <2> HIDE DEF new
  <2>8. ASSUME NEW j \in 1..n PROVE new[moved[j]].seq = Value(n, k, j, trials[moved[j]].seq)
    <3>1. moved[j] \in Trials
      BY <1>1
    <3>2. CASE j = p
      BY <2>1, <2>7, <3>1, <3>2 DEF SetTo
    <3>3. CASE j # p
      <4>1. moved[j] # item.trial
        BY <1>1, <2>1, <3>3
      <4> QED
        BY <2>4, <2>7, <3>1, <3>3, <4>1 DEF SetTo
    <3> QED
      BY <3>2, <3>3
  <2>9. Going(k, new)
    BY <2>2, <2>7, <2>8 DEF SetTo
  <2> QED
    BY <2>9 DEF new, item
<1>9. Going(2 * n, set[2 * n])
  <2> DEFINE S == {k \in Nat : Going(k, set[k])}
  <2>1. /\ set[0] = trials
        /\ \A i \in 1..(2 * n) : set[i] = SetSequence(set[i - 1], updates[i])
    BY <1>4, <1>5 DEF IsNumbering
  <2> HIDE DEF Going
  <2>2. 0 \in S
    BY <1>7, <2>1
  <2>3. ASSUME NEW i \in 1..(2 * n), i - 1 \in S PROVE i \in S
    <3>1. i \in Nat
      OBVIOUS
    <3>2. Going(i - 1, set[i - 1])
      BY <2>3
    <3>3. Going(i, SetSequence(set[i - 1], updates[i]))
      BY <1>8, <3>2
    <3> QED
      BY <2>1, <3>1, <3>3
  <2>4. 2 * n \in Nat /\ 2 * n \in 0..(2 * n)
    BY <1>1
  <2>5. 0..(2 * n) \subseteq S
    <3> DEFINE m == 2 * n
    <3> HIDE DEF S, m
    <3>1. m \in Nat /\ \A i \in 1..m : i - 1 \in S => i \in S
      BY <2>3, <2>4 DEF m
    <3>2. 0..m \subseteq S
      BY <2>2, <3>1, BoundedInduction
    <3> QED
      BY <3>2 DEF m
  <2> QED
    BY <2>4, <2>5
<1>10. \A j \in 1..n : Value(n, 2 * n, j, trials[moved[j]].seq) = j - 1
  <2> SUFFICES ASSUME NEW j \in 1..n PROVE Value(n, 2 * n, j, trials[moved[j]].seq) = j - 1
    OBVIOUS
  <2>1. ~(2 * n <= n) /\ j <= 2 * n - n
    BY <1>1
  <2> QED
    BY <2>1 DEF Value
<1>11. LET final == set[Len(updates)] IN
       /\ final # Refused /\ final \in TrialTables /\ There(final) = T
       /\ \A j \in 1..n : final[moved[j]].seq = j - 1
  BY <1>4, <1>9, <1>10
<1> QED
  BY <1>11 DEF set, updates, n, T

(* The numbers give the order back.                                          *)
Image(f, m) == {f[i] : i \in 1..m}
OneToOne(f, m) == \A i, j \in 1..m : f[i] = f[j] => i = j
LEMMA IntervalImage ==
  ASSUME NEW m \in Nat, NEW f, OneToOne(f, m)
  PROVE  Cardinality(Image(f, m)) = m
<1> DEFINE image == {f[i] : i \in 1..m}
           g == [i \in 1..m |-> f[i]]
<1>1. g \in [1..m -> image] /\ \A i \in 1..m : g[i] = f[i]
  OBVIOUS
<1>2. g \in Bijection(1..m, image)
  BY <1>1 DEF Bijection, Injection, Surjection, IsInjective, OneToOne
<1>3. ExistsBijection(1..m, image)
  BY <1>2 DEF ExistsBijection
<1> HIDE DEF image
<1>4. Cardinality(image) = m
  BY <1>3, FS_CountingElements
<1> QED
  BY <1>4 DEF image, Image

LEMMA NumberedOrder ==
  ASSUME NEW trials \in TrialTables, NEW moved, Permutes(moved, There(trials)),
         \A j \in 1..Len(moved) : trials[moved[j]].seq = j - 1
  PROVE  InSequence(trials) = moved
<1> DEFINE n == Len(moved)
           T == There(trials)
<1>1. moved \in Seq(T)
  BY DEF Permutes
<1>2. n \in Nat /\ DOMAIN moved = 1..n /\ moved = [k \in 1..n |-> moved[k]] /\ \A j \in 1..n : moved[j] \in T
  BY <1>1, LenProperties
<1>3. /\ \A i, j \in 1..n : moved[i] = moved[j] => i = j
      /\ \A t \in T : \E j \in 1..n : moved[j] = t
  BY DEF Permutes
<1> HIDE DEF n, T
<1>4. Cardinality(T) = n
  <2>1. T = Image(moved, n)
    BY <1>2, <1>3 DEF Image
  <2>2. OneToOne(moved, n)
    BY <1>3 DEF OneToOne
  <2> QED
    BY <1>2, <2>1, <2>2, IntervalImage
<1>5. ASSUME NEW k \in 1..n PROVE Cardinality(Before(trials, moved[k])) = k - 1
  <2>1. Before(trials, moved[k]) = {moved[i] : i \in 1..(k - 1)}
    <3>1. ASSUME NEW u \in Before(trials, moved[k]) PROVE u \in {moved[i] : i \in 1..(k - 1)}
      <4>1. u \in T /\ trials[u].seq < trials[moved[k]].seq
        BY DEF Before, T
      <4>2. PICK i \in 1..n : moved[i] = u
        BY <1>3, <4>1
      <4>3. i - 1 < k - 1
        BY <4>1, <4>2 DEF n
      <4> QED
        BY <1>2, <4>2, <4>3
    <3>2. ASSUME NEW i \in 1..(k - 1) PROVE moved[i] \in Before(trials, moved[k])
      <4>1. i \in 1..n /\ moved[i] \in T
        BY <1>2
      <4>2. trials[moved[i]].seq = i - 1 /\ trials[moved[k]].seq = k - 1
        BY <4>1 DEF n
      <4> QED
        BY <4>1, <4>2 DEF Before, T
    <3> QED
      BY <3>1, <3>2
  <2> DEFINE m == k - 1
  <2>2. m \in Nat /\ (\A i \in 1..m : i \in 1..n)
    BY <1>2
  <2> HIDE DEF m
  <2>3. OneToOne(moved, m)
    BY <1>2, <1>3, <2>2 DEF OneToOne
  <2>4. Cardinality(Image(moved, m)) = m
    BY <2>2, <2>3, IntervalImage
  <2> QED
    BY <2>1, <2>4 DEF m, Image
<1>6. ASSUME NEW k \in 1..n PROVE InPlace(trials, k) = moved[k]
  <2>1. moved[k] \in T /\ Cardinality(Before(trials, moved[k])) = k - 1
    BY <1>2, <1>5
  <2>2. ASSUME NEW t \in T, Cardinality(Before(trials, t)) = k - 1 PROVE t = moved[k]
    <3>1. PICK j \in 1..n : moved[j] = t
      BY <1>3
    <3>2. j - 1 = k - 1
      BY <1>5, <2>2, <3>1
    <3> QED
      BY <3>1, <3>2
  <2> QED
    BY <2>1, <2>2 DEF InPlace, T
<1>7. InSequence(trials) = [k \in 1..Cardinality(T) |-> InPlace(trials, k)]
  BY DEF InSequence, InPlace, Before, There, T
<1>8. [k \in 1..n |-> InPlace(trials, k)] = [k \in 1..n |-> moved[k]]
  BY <1>6
<1> QED
  BY <1>2, <1>4, <1>7, <1>8

(* What a page orders by numbers below the reserved ones stays below them.   *)
LEMMA NumbersStaySmall ==
  ASSUME NEW trials \in TrialTables, Unique(trials), Small(trials), NEW items \in Seq(Items),
         \A i \in 1..Len(items) : items[i].sequence < Temporary,
         NEW final, final = Renumbered(trials, Phases(items))[Len(Phases(items))], final # Refused
  PROVE  Small(final)
<1> DEFINE n == Len(items)
           updates == Phases(items)
           set == Renumbered(trials, updates)
           Left(k, t) == \E i \in 1..n : k < n + i /\ items[i].trial = t
           Going(k, x) == x # Refused => \A t \in There(x) : x[t].seq < Temporary \/ Left(k, t)
<1>1. n \in Nat /\ \A i \in 1..n : items[i] \in Items
  BY LenProperties
<1>2. /\ updates \in Seq(Items) /\ Len(updates) = 2 * n
      /\ \A i \in 1..n : /\ updates[i] = [trial |-> items[i].trial, sequence |-> Temporary + i - 1]
                         /\ updates[n + i] = items[i]
  BY PhasesType
<1>3. IsNumbering(set, trials, updates)
  BY <1>2, NumberingIs
<1> HIDE DEF updates, set
<1>4. /\ set[0] = trials
      /\ \A i \in 1..(2 * n) : set[i] = SetSequence(set[i - 1], updates[i])
      /\ \A i \in 0..(2 * n) : set[i] # Refused => set[i] \in TrialTables
  BY <1>2, <1>3 DEF IsNumbering
<1>5. Going(0, set[0])
  BY <1>4 DEF Small
<1>6. ASSUME NEW k \in 1..(2 * n), Going(k - 1, set[k - 1]) PROVE Going(k, set[k])
  <2> DEFINE x == set[k - 1]
             new == set[k]
             item == updates[k]
  <2>1. k - 1 \in 0..(2 * n) /\ k \in 0..(2 * n)
    BY <1>1
  <2>2. new = SetSequence(x, item) /\ item \in Items
    BY <1>2, <1>4, LenProperties
  <2> SUFFICES ASSUME new # Refused, NEW t \in There(new), ~(new[t].seq < Temporary)
               PROVE  Left(k, t)
    OBVIOUS
  <2>3. x # Refused /\ x \in TrialTables
    BY <1>4, <2>1, <2>2 DEF SetSequence
  <2>4. /\ k <= n => item.trial = items[k].trial
        /\ k > n => k - n \in 1..n /\ item = items[k - n]
    <3>1. k <= n => item = [trial |-> items[k].trial, sequence |-> Temporary + k - 1]
      <4>1. k <= n => k \in 1..n
        OBVIOUS
      <4> QED
        BY <1>2, <4>1
    <3>2. k > n => k - n \in 1..n /\ n + (k - n) = k
      BY <1>1
    <3>3. k > n => item = items[k - n]
      BY <1>2, <3>2
    <3>4. k <= n => item.trial = items[k].trial
      <4> HIDE DEF item
      <4> QED
        BY <3>1
    <3> HIDE DEF item
    <3> QED
      BY <3>2, <3>3, <3>4
  <2> HIDE DEF new, item, x
  <2>5. CASE x[item.trial] = NoTrial
    <3>1. new = x /\ t # item.trial
      BY <2>2, <2>5 DEF SetSequence, There
    <3>2. PICK i \in 1..n : k - 1 < n + i /\ items[i].trial = t
      BY <1>6, <2>3, <3>1 DEF x
    <3>3. k # n + i
      BY <1>1, <2>4, <3>1, <3>2
    <3>4. k < n + i
      BY <1>1, <3>2, <3>3
    <3> QED
      BY <3>2, <3>4
  <2>6. CASE x[item.trial] # NoTrial
    <3>1. ~Taken(x, item.sequence, Trials \ {item.trial})
      BY <2>2, <2>3, <2>6 DEF SetSequence
    <3>2. SetTo(new, x, item)
      BY <2>2, <2>3, <2>6, <3>1, SetSequenceIs
    <3>3. t \in There(x) /\ new[t].seq = IF t = item.trial THEN item.sequence ELSE x[t].seq
      BY <3>2 DEF SetTo, There
    <3>4. CASE t = item.trial
      <4>1. CASE k <= n
        BY <1>1, <2>4, <3>4, <4>1
      <4>2. CASE k > n
        BY <2>4, <3>3, <3>4, <4>2
      <4> QED
        BY <1>1, <4>1, <4>2
    <3>5. CASE t # item.trial
      <4>1. PICK i \in 1..n : k - 1 < n + i /\ items[i].trial = t
        BY <1>6, <2>3, <3>3, <3>5 DEF x
      <4>2. k # n + i
        BY <1>1, <2>4, <3>5, <4>1
      <4>3. k < n + i
        BY <1>1, <4>1, <4>2
      <4> QED
        BY <4>1, <4>3
    <3> QED
      BY <3>4, <3>5
  <2> QED
    BY <2>5, <2>6
<1>7. Going(2 * n, set[2 * n])
  <2> DEFINE S == {k \in Nat : Going(k, set[k])}
  <2> HIDE DEF Going
  <2>1. 0 \in S
    BY <1>5
  <2>2. ASSUME NEW i \in 1..(2 * n), i - 1 \in S PROVE i \in S
    BY <1>6, <2>2
  <2>3. 2 * n \in Nat /\ 2 * n \in 0..(2 * n)
    BY <1>1
  <2>4. 0..(2 * n) \subseteq S
    <3> DEFINE m == 2 * n
    <3> HIDE DEF S, m
    <3>1. m \in Nat /\ \A i \in 1..m : i - 1 \in S => i \in S
      BY <2>2, <2>3 DEF m
    <3>2. 0..m \subseteq S
      BY <2>1, <3>1, BoundedInduction
    <3> QED
      BY <3>2 DEF m
  <2> QED
    BY <2>3, <2>4
<1>8. final = set[2 * n]
  BY <1>2 DEF set, updates
<1>9. \A t : ~Left(2 * n, t)
  BY <1>1
<1> HIDE DEF Left
<1> QED
  BY <1>7, <1>8, <1>9 DEF Small
-----------------------------------------------------------------------------
(* Numbers below the reserved ones stay so.                                  *)
SmallCall(call) ==
  /\ call.op = "create" => call.sequence < Temporary
  /\ call.op = "reorder" => \A i \in 1..Len(call.items) : call.items[i].sequence < Temporary
LEMMA SmallKept ==
  ASSUME NEW d, Sound(d), NEW call, ProperCall(call), call.op # "delete race", SmallCall(call),
         call.op = "create" => d.born < Cardinality(Trials), Small(d.trials)
  PROVE  Small(Handled(d, call).db.trials)
<1> DEFINE a == Handled(d, call)
<1>0. /\ d \in Databases /\ d.trials \in TrialTables /\ Unique(d.trials)
      /\ \A t \in Trials : d.trials[t] # NoTrial => d.trials[t] \in TrialRow /\ d.trials[t].seq < Temporary
  <2>1. d \in Databases /\ d.trials \in TrialTables /\ Unique(d.trials)
    BY SoundTables DEF Sound
  <2> QED
    BY <2>1 DEF Small, There, TrialTables
<1>1. ASSUME call.op = "create" PROVE Small(a.db.trials)
  <2> DEFINE t == d.born + 1
             new == [seq |-> call.sequence, start |-> Null, front |-> 2, tail |-> 1]
             trials == [d.trials EXCEPT ![t] = new]
             x == [d EXCEPT !.born = t, !.trials = trials]
  <2>1. a = CreateTrial(d, call.sequence)
    BY <1>1, HandledIs
  <2>2. CASE ~d.race \/ Taken(d.trials, call.sequence, Trials)
    <3>1. a = Answer(FALSE, d)
      BY <2>1, <2>2 DEF CreateTrial
    <3> HIDE DEF a
    <3> QED
      BY <3>1, AnswerIs
  <2>3. CASE ~(~d.race \/ Taken(d.trials, call.sequence, Trials))
    <3>1. a = Answer(TRUE, x)
      BY <2>1, <2>3 DEF CreateTrial
    <3>2. t \in Trials
      BY <1>0, <1>1, RaceTablesAssumption, FS_CardinalityType DEF Databases
    <3>3. new.seq < Temporary
      BY <1>1 DEF SmallCall
    <3> HIDE DEF t, new
    <3>4. \A u \in Trials : trials[u] = IF u = t THEN new ELSE d.trials[u]
      BY <1>0, <3>2 DEF TrialTables
    <3> HIDE DEF trials
    <3>5. x.trials = trials
      BY <1>0 DEF Databases
    <3> HIDE DEF x, a
    <3>6. a.db.trials = trials
      BY <3>1, <3>5, AnswerIs
    <3> QED
      BY <1>0, <3>3, <3>4, <3>6 DEF Small, There
  <2> QED
    BY <2>2, <2>3
<1>2. ASSUME call.op = "patch" PROVE Small(a.db.trials)
  <2> DEFINE t == call.trial
             patch == call.patch
             start == IF patch.start = Null THEN d.trials[t].start ELSE patch.start
             new == [d.trials[t] EXCEPT !.start = start, !.front = patch.front, !.tail = patch.tail]
             trials == [d.trials EXCEPT ![t] = new]
             x == [d EXCEPT !.trials = trials]
  <2>1. a = PatchTrial(d, t, patch)
    BY <1>2, HandledIs
  <2>2. CASE t \notin Live(d)
    <3>1. a = Answer(FALSE, d)
      BY <2>1, <2>2 DEF PatchTrial
    <3> HIDE DEF a
    <3> QED
      BY <3>1, AnswerIs
  <2>3. CASE t \in Live(d)
    <3>1. a = Answer(TRUE, x)
      <4>1. PatchTrial(d, t, patch) = Answer(TRUE, x)
        BY <2>3 DEF PatchTrial
      <4> QED
        BY <2>1, <4>1
    <3>2. d.trials[t] \in TrialRow /\ d.trials[t].seq < Temporary /\ t \in Trials
      BY <1>0, <2>3 DEF Live
    <3>3. new.seq < Temporary
      <4> HIDE DEF start, patch
      <4> QED
        BY <3>2 DEF TrialRow
    <3> HIDE DEF t, new
    <3>4. \A u \in Trials : trials[u] = IF u = t THEN new ELSE d.trials[u]
      BY <1>0, <3>2 DEF TrialTables
    <3> HIDE DEF trials
    <3>5. x.trials = trials
      BY <1>0 DEF Databases
    <3> HIDE DEF x, a
    <3>6. a.db.trials = trials
      BY <3>1, <3>5, AnswerIs
    <3> QED
      BY <1>0, <3>3, <3>4, <3>6 DEF Small, There
  <2> QED
    BY <2>2, <2>3
<1>3. ASSUME call.op = "delete" PROVE Small(a.db.trials)
  <2> DEFINE t == call.trial
             trials == [d.trials EXCEPT ![t] = NoTrial]
             rows == [d.rows EXCEPT ![t] = [s \in Stations |-> NoRow(d.rows[t][s].n)]]
             files == {IF f.trial = t THEN [f EXCEPT !.trial = 0] ELSE f : f \in d.files}
             x == [d EXCEPT !.trials = trials, !.rows = rows, !.files = files]
  <2>1. a = DeleteTrial(d, t)
    BY <1>3, HandledIs
  <2>2. CASE t \notin Live(d)
    <3>1. a = Answer(FALSE, d)
      BY <2>1, <2>2 DEF DeleteTrial
    <3> HIDE DEF a
    <3> QED
      BY <3>1, AnswerIs
  <2>3. CASE t \in Live(d)
    <3>1. a = Answer(TRUE, x)
      <4>1. DeleteTrial(d, t) = Answer(TRUE, x)
        BY <2>3 DEF DeleteTrial
      <4> QED
        BY <2>1, <4>1
    <3> HIDE DEF t
    <3>4. \A u \in Trials : trials[u] = IF u = t THEN NoTrial ELSE d.trials[u]
      BY <1>0 DEF TrialTables
    <3> HIDE DEF trials, rows, files
    <3>5. x.trials = trials
      BY <1>0 DEF Databases
    <3> HIDE DEF x, a
    <3>6. a.db.trials = trials
      BY <3>1, <3>5, AnswerIs
    <3> QED
      BY <1>0, <3>4, <3>6 DEF Small, There
  <2> QED
    BY <2>2, <2>3
<1>4. ASSUME call.op = "reorder" PROVE Small(a.db.trials)
  <2> DEFINE items == call.items
             updates == Phases(items)
             trials == Renumbered(d.trials, updates)[Len(updates)]
             x == [d EXCEPT !.trials = trials]
  <2>1. a = IF trials = Refused THEN Answer(FALSE, d) ELSE Answer(TRUE, x)
    BY <1>4, HandledIs, ReorderIs
  <2>2. items \in Seq(Items) /\ \A i \in 1..Len(items) : items[i].sequence < Temporary
    BY <1>4 DEF ProperCall, SmallCall
  <2>3. trials = Renumbered(d.trials, Phases(items))[Len(Phases(items))]
    OBVIOUS
  <2> HIDE DEF items, updates, trials
  <2>4. trials # Refused => Small(trials)
    BY <1>0, <2>2, <2>3, NumbersStaySmall
  <2>5. x.trials = trials
    BY <1>0 DEF Databases
  <2> HIDE DEF x, a
  <2>6. a.db.trials = IF trials = Refused THEN d.trials ELSE trials
    BY <2>1, <2>5, AnswerIs
  <2> QED
    BY <2>4, <2>6
<1>5. call.op \notin {"create", "patch", "delete", "reorder"} => a.db.trials = d.trials
  BY RaceKept
<1> HIDE DEF a
<1>6. Small(a.db.trials)
  BY <1>1, <1>2, <1>3, <1>4, <1>5
<1> QED
  BY <1>6 DEF a
-----------------------------------------------------------------------------
(* One page beside other browsers: what it shows has been in the tables, a   *)
(* form shows the trial it was opened on but for what was edited, and a      *)
(* request says what it was computed from.                                   *)
ShownInv == shownTrials \in TrialTables /\ Unique(shownTrials) /\ shownList \in Seq(Stations)
CardRecords ==
  [trial : Trials, of : Trials, start : NatOrNull, front : Nat, tail : Nat, opened : TrialRow,
   edited : SUBSET {"start", "tail"}, files : SUBSET Files, rows : {NotLoaded} \cup StationRows]
FormHolds(c) ==
  /\ c.of = c.trial
  /\ "start" \notin c.edited => c.start = c.opened.start
  /\ "tail" \notin c.edited => c.tail = c.opened.tail
CardsInv == \A c \in card : c \in CardRecords /\ FormHolds(c) /\ shownTrials[c.trial] # NoTrial
FromForm(call, seen) ==
  /\ seen.opened \in TrialRow
  /\ call.trial = seen.of /\ call.patch.start = seen.start
  /\ "start" \notin seen.edited => call.patch.start = seen.opened.start
  /\ "tail" \notin seen.edited => call.patch.tail = seen.opened.tail
IsDrag(items, seen) ==
  \E moved : There(seen) # {} /\ Permutes(moved, There(seen)) /\ items = Numbered(moved)
KeepsTheRest(list, seen) ==
  \A x, y \in Stations \ {seen.vs} : Precedes(list, x, y) <=> Precedes(seen.list, x, y)
FromPage(call, seen) ==
  /\ ProperCall(call) /\ call.op # "delete race" /\ SmallCall(call)
  /\ call.op = "patch" => FromForm(call, seen)
  /\ call.op = "upload" => seen = {}
  /\ call.op = "create" => call.sequence = Len(InSequence(seen))
  /\ call.op = "reorder" => IsDrag(call.items, seen)
  /\ call.op = "list" => KeepsTheRest(call.list, seen)
ProperReply(c) ==
  /\ c.answer = "ok" /\ c.call.op = "reorder" => c.reply \in TrialTables /\ Unique(c.reply)
  /\ c.answer = "ok" /\ c.call.op = "list" => c.reply \in Seq(Stations)
IsRequest(c) ==
  c = [n |-> c.n, call |-> c.call, seen |-> c.seen, answer |-> c.answer, reply |-> c.reply]
CallsInv ==
  /\ sent \in Nat
  /\ \A c \in calls : /\ IsRequest(c) /\ c.n \in 1..sent
                      /\ FromPage(c.call, c.seen) /\ ProperReply(c)
  /\ \A c, e \in calls : c.n = e.n => c = e
PageInv == Sound(db) /\ ShownInv /\ CardsInv /\ CallsInv

(* The queries, and the cards that go with the trials.                       *)
LEMMA ShowStep ==
  ASSUME PageInv, NEW seen \in TrialTables, Unique(seen), ShowTrials(seen)
  PROVE  shownTrials' \in TrialTables /\ Unique(shownTrials') /\ CardsInv'
BY DEF PageInv, ShownInv, CardsInv, ShowTrials, Cards

LEMMA LoadStep ==
  ASSUME PageInv, LoadTrials \/ LoadList \/ LoadCard
  PROVE  PageInv'
<1>0. /\ db.trials \in TrialTables /\ Unique(db.trials) /\ db.entries \in Seq(Stations)
      /\ db.files \in SUBSET Files /\ db.rows \in RowTables
  BY SoundTables DEF PageInv
<1>1. CASE LoadTrials
  BY <1>0, <1>1, ShowStep DEF LoadTrials, PageInv, ShownInv, CallsInv
<1>2. CASE LoadList
  BY <1>0, <1>2 DEF LoadList, PageInv, ShownInv, CardsInv, CallsInv
<1>3. CASE LoadCard
  <2>1. PICK c \in card : card' = {[c EXCEPT !.files = FilesOf(db, c.trial), !.rows = db.rows[c.trial]]}
    BY <1>3 DEF LoadCard
  <2> DEFINE files == FilesOf(db, c.trial)
             rows == db.rows[c.trial]
             new == [c EXCEPT !.files = files, !.rows = rows]
  <2>2. c \in CardRecords /\ FormHolds(c) /\ shownTrials[c.trial] # NoTrial
    BY DEF PageInv, CardsInv
  <2>3. c.trial \in Trials
    BY <2>2 DEF CardRecords
  <2>4. files \in SUBSET Files
    BY <1>0 DEF FilesOf
  <2>5. rows \in StationRows
    BY <1>0, <2>3 DEF RowTables
  <2> HIDE DEF files, rows
  <2>6. /\ new \in CardRecords /\ new.of = c.of /\ new.trial = c.trial /\ new.start = c.start
        /\ new.tail = c.tail /\ new.opened = c.opened /\ new.edited = c.edited
    BY <2>2, <2>4, <2>5 DEF CardRecords
  <2>7. card' = {new}
    BY <2>1 DEF files, rows
  <2> HIDE DEF new
  <2>8. CardsInv'
    BY <1>3, <2>2, <2>6, <2>7 DEF CardsInv, FormHolds, LoadCard
  <2> QED
    BY <1>3, <2>8 DEF LoadCard, PageInv, ShownInv, CallsInv
<1> QED
  BY <1>1, <1>2, <1>3

LEMMA ExpandStep ==
  ASSUME PageInv, NEW t \in Trials, Expand(t)
  PROVE  PageInv'
<1> DEFINE row == shownTrials[t]
           c == Form(t, row)
<1>1. row \in TrialRow
  BY DEF PageInv, ShownInv, TrialTables, Expand
<1>2. card' = {c} /\ row # NoTrial
  BY DEF Expand
<1>3. c \in CardRecords /\ FormHolds(c) /\ c.trial = t
  <2> HIDE DEF row
  <2> QED
    BY <1>1 DEF Form, CardRecords, FormHolds, TrialRow, NotLoaded
<1> HIDE DEF c
<1>4. CardsInv'
  BY <1>2, <1>3 DEF CardsInv, Expand
<1> QED
  BY <1>4 DEF Expand, PageInv, ShownInv, CallsInv

LEMMA CollapseStep ==
  ASSUME PageInv, Collapse
  PROVE  PageInv'
BY DEF Collapse, PageInv, ShownInv, CardsInv, CallsInv

LEMMA EditStep ==
  ASSUME PageInv, Edit
  PROVE  PageInv'
<1>1. PICK c \in card :
        /\ c.edited = {}
        /\ \/ \E at \in Times \cup {Null} : card' = {[c EXCEPT !.start = at, !.edited = {"start"}]}
           \/ \E pace \in Paces : card' = {[c EXCEPT !.tail = pace, !.edited = {"tail"}]}
  BY DEF Edit
<1>2. c \in CardRecords /\ FormHolds(c) /\ shownTrials[c.trial] # NoTrial
  BY DEF PageInv, CardsInv
<1>3. ASSUME NEW at \in Times \cup {Null}, card' = {[c EXCEPT !.start = at, !.edited = {"start"}]}
      PROVE  CardsInv'
  <2> DEFINE new == [c EXCEPT !.start = at, !.edited = {"start"}]
  <2>1. at \in NatOrNull
    BY RaceTablesAssumption DEF NatOrNull
  <2>2. /\ new \in CardRecords /\ new.of = c.of /\ new.trial = c.trial /\ new.tail = c.tail
        /\ new.opened = c.opened /\ new.edited = {"start"}
    BY <1>2, <2>1 DEF CardRecords
  <2>3. FormHolds(new)
    <3> HIDE DEF new
    <3> QED
      BY <1>1, <1>2, <2>2 DEF FormHolds
  <2>4. card' = {new}
    BY <1>3
  <2> HIDE DEF new
  <2> QED
    BY <1>2, <2>2, <2>3, <2>4 DEF CardsInv, Edit
<1>4. ASSUME NEW pace \in Paces, card' = {[c EXCEPT !.tail = pace, !.edited = {"tail"}]}
      PROVE  CardsInv'
  <2> DEFINE new == [c EXCEPT !.tail = pace, !.edited = {"tail"}]
  <2>1. pace \in Nat
    BY RaceTablesAssumption
  <2>2. /\ new \in CardRecords /\ new.of = c.of /\ new.trial = c.trial /\ new.start = c.start
        /\ new.opened = c.opened /\ new.edited = {"tail"}
    BY <1>2, <2>1 DEF CardRecords
  <2>3. FormHolds(new)
    <3> HIDE DEF new
    <3> QED
      BY <1>1, <1>2, <2>2 DEF FormHolds
  <2>4. card' = {new}
    BY <1>4
  <2> HIDE DEF new
  <2> QED
    BY <1>2, <2>2, <2>3, <2>4 DEF CardsInv, Edit
<1>5. CardsInv'
  BY <1>1, <1>3, <1>4
<1> QED
  BY <1>5 DEF Edit, PageInv, ShownInv, CallsInv

(* The requests.                                                             *)
LEMMA SendStep ==
  ASSUME PageInv, NEW call, NEW seen, FromPage(call, seen), Send(call, seen)
  PROVE  PageInv'
<1> DEFINE c == [n |-> sent + 1, call |-> call, seen |-> seen, answer |-> "none", reply |-> <<>>]
<1>1. calls' = calls \cup {c} /\ sent' = sent + 1 /\ UNCHANGED <<db, shownTrials, shownList, card>>
  BY DEF Send
<1>2. IsRequest(c) /\ c.n = sent + 1 /\ c.call = call /\ c.seen = seen /\ ProperReply(c)
  BY DEF IsRequest, ProperReply
<1> HIDE DEF c
<1>3. CallsInv'
  <2>1. sent \in Nat /\ \A e \in calls : e.n \in 1..sent
    BY DEF PageInv, CallsInv
  <2>2. c.n \in 1..sent' /\ sent' \in Nat /\ \A e \in calls : e.n \in 1..sent' /\ e.n # c.n
    BY <1>1, <1>2, <2>1
  <2> QED
    BY <1>1, <1>2, <2>2 DEF PageInv, CallsInv
<1> QED
  BY <1>1, <1>3 DEF PageInv, ShownInv, CardsInv
-----------------------------------------------------------------------------
LEMMA FewInOrder ==
  ASSUME NEW trials \in TrialTables, Unique(trials)
  PROVE  Len(InSequence(trials)) \in Nat /\ Len(InSequence(trials)) < Temporary
<1>1. There(trials) \in SUBSET Trials
  BY DEF There
<1>2. /\ Cardinality(There(trials)) <= Cardinality(Trials)
      /\ Cardinality(There(trials)) \in Nat /\ Cardinality(Trials) \in Nat
  BY <1>1, RaceTablesAssumption, FS_Subset, FS_CardinalityType
<1>3. Len(InSequence(trials)) = Cardinality(There(trials))
  BY OrderType
<1> QED
  BY <1>2, <1>3, FewTrialsAssumption DEF Temporary

LEMMA NumberedSmall ==
  ASSUME NEW order \in Seq(Trials), Len(order) < Temporary
  PROVE  \A i \in 1..Len(Numbered(order)) : Numbered(order)[i].sequence < Temporary
<1> DEFINE items == Numbered(order)
<1>1. Len(items) = Len(order) /\ \A i \in 1..Len(order) : items[i] = [trial |-> order[i], sequence |-> i - 1]
  BY NumberedType
<1> HIDE DEF items
<1> SUFFICES ASSUME NEW i \in 1..Len(items) PROVE items[i].sequence < Temporary
  BY DEF items
<1> DEFINE k == i - 1
<1>2. items[i] = [trial |-> order[i], sequence |-> k]
  BY <1>1
<1>3. i <= Len(items) /\ Len(items) < Temporary /\ i \in Int /\ Len(items) \in Int
  BY <1>1, LenProperties
<1>4. k < Temporary
  BY <1>3 DEF Temporary
<1> HIDE DEF k
<1> QED
  BY <1>2, <1>4

LEMMA DragTrialStep ==
  ASSUME PageInv, DragTrial
  PROVE  PageInv'
<1> DEFINE order == InSequence(shownTrials)
           T == There(shownTrials)
<1>1. PICK from, to \in DOMAIN order :
        Send([op |-> "reorder", items |-> Numbered(arrayMove(order, from, to))], shownTrials)
  BY DEF DragTrial
<1>2. shownTrials \in TrialTables /\ Unique(shownTrials)
  BY DEF PageInv, ShownInv
<1>3. order \in Seq(Trials) /\ IsOrder(order, shownTrials) /\ Len(order) < Temporary /\ Len(order) \in Nat
  BY <1>2, OrderType, OrderOf, FewInOrder
<1> HIDE DEF order
<1>4. Permutes(order, T) /\ T # {}
  <2>1. order \in Seq(T) /\ DOMAIN order = 1..Len(order)
    BY <1>3, LenProperties DEF IsOrder
  <2>2. order[from] \in T
    BY <2>1, LenProperties
  <2> QED
    BY <1>3, <2>1, <2>2 DEF IsOrder, Permutes
<1> DEFINE moved == arrayMove(order, from, to)
<1>5. moved \in Seq(Trials) /\ Permutes(moved, T) /\ Len(moved) = Len(order)
  <2> HIDE DEF T
  <2> QED
    BY <1>3, <1>4, arrayMoveType, MovePermutes
<1> HIDE DEF moved
<1> DEFINE items == Numbered(moved)
           call == [op |-> "reorder", items |-> items]
<1>6. /\ items \in Seq(Items) /\ Len(items) = Len(order)
      /\ \A i \in 1..Len(items) : items[i] = [trial |-> moved[i], sequence |-> i - 1]
  BY <1>5, NumberedType
<1>7. IsDrag(items, shownTrials)
  BY <1>4, <1>5 DEF IsDrag
<1> HIDE DEF items
<1>8. \A i \in 1..Len(items) : items[i].sequence < Temporary
  BY <1>3, <1>5, NumberedSmall DEF items
<1>9. FromPage(call, shownTrials)
  BY <1>6, <1>7, <1>8 DEF FromPage, ProperCall, SmallCall, Operations
<1>10. Send(call, shownTrials)
  BY <1>1 DEF items, moved
<1> HIDE DEF call
<1> QED
  BY <1>9, <1>10, SendStep

LEMMA AddTrialStep ==
  ASSUME PageInv, AddTrial
  PROVE  PageInv'
<1> DEFINE sequence == Len(InSequence(shownTrials))
           call == [op |-> "create", sequence |-> sequence]
<1>1. sequence \in Nat /\ sequence < Temporary
  BY FewInOrder DEF PageInv, ShownInv
<1>2. Send(call, shownTrials)
  BY DEF AddTrial
<1>3. sequence = Len(InSequence(shownTrials))
  OBVIOUS
<1> HIDE DEF sequence
<1>4. FromPage(call, shownTrials)
  BY <1>1, <1>3 DEF FromPage, ProperCall, SmallCall, Operations
<1> HIDE DEF call
<1> QED
  BY <1>2, <1>4, SendStep

LEMMA SubmitStep ==
  ASSUME PageInv, Submit
  PROVE  PageInv'
<1>1. PICK c \in card :
        Send([op |-> "patch", trial |-> c.trial,
              patch |-> [start |-> c.start, front |-> c.front, tail |-> c.tail]],
             [of |-> c.of, opened |-> c.opened, start |-> c.start, edited |-> c.edited])
  BY DEF Submit
<1> DEFINE patch == [start |-> c.start, front |-> c.front, tail |-> c.tail]
           call == [op |-> "patch", trial |-> c.trial, patch |-> patch]
           seen == [of |-> c.of, opened |-> c.opened, start |-> c.start, edited |-> c.edited]
<1>2. c \in CardRecords /\ FormHolds(c)
  BY DEF PageInv, CardsInv
<1>3. /\ c.trial \in Trials /\ c.start \in NatOrNull /\ c.front \in Nat /\ c.tail \in Nat
      /\ c.opened \in TrialRow
  BY <1>2 DEF CardRecords
<1>4. ProperCall(call)
  BY <1>3 DEF ProperCall, Operations
<1>5. FromForm(call, seen)
  BY <1>2, <1>3 DEF FromForm, FormHolds
<1>6. call.op = "patch"
  OBVIOUS
<1>7. Send(call, seen)
  BY <1>1
<1> HIDE DEF call, seen
<1>8. FromPage(call, seen)
  BY <1>4, <1>5, <1>6 DEF FromPage, SmallCall
<1> QED
  BY <1>7, <1>8, SendStep

LEMMA CardCallStep ==
  ASSUME PageInv, DeleteCard \/ Upload \/ RemoveFile \/ ClickChip
  PROVE  PageInv'
<1>0. \A c \in card : c.trial \in Trials /\ c.rows \in {NotLoaded} \cup StationRows
  BY DEF PageInv, CardsInv, CardRecords
<1>1. CASE DeleteCard
  <2>1. PICK c \in card : Send([op |-> "delete", trial |-> c.trial], <<>>)
    BY <1>1 DEF DeleteCard
  <2> DEFINE call == [op |-> "delete", trial |-> c.trial]
  <2>2. FromPage(call, <<>>)
    BY <1>0 DEF FromPage, ProperCall, SmallCall, Operations
  <2>3. Send(call, <<>>)
    BY <2>1
  <2> HIDE DEF call
  <2> QED
    BY <2>2, <2>3, SendStep
<1>2. CASE Upload
  <2>1. PICK c \in card, track \in Tracks :
          c.files = {} /\ Send([op |-> "upload", trial |-> c.trial, track |-> track], c.files)
    BY <1>2 DEF Upload
  <2> DEFINE call == [op |-> "upload", trial |-> c.trial, track |-> track]
  <2>2. FromPage(call, {})
    BY <1>0 DEF FromPage, ProperCall, SmallCall, Operations
  <2>3. Send(call, {})
    BY <2>1
  <2> HIDE DEF call
  <2> QED
    BY <2>2, <2>3, SendStep
<1>3. CASE RemoveFile
  <2>1. PICK c \in card :
          Send([op |-> "delete gpx", trial |-> c.trial, file |-> Oldest(c.files).id], <<>>)
    BY <1>3 DEF RemoveFile
  <2> DEFINE file == Oldest(c.files).id
             call == [op |-> "delete gpx", trial |-> c.trial, file |-> file]
  <2>3. Send(call, <<>>)
    BY <2>1
  <2> HIDE DEF file
  <2>2. FromPage(call, <<>>)
    BY DEF FromPage, ProperCall, SmallCall, Operations
  <2> HIDE DEF call
  <2> QED
    BY <2>2, <2>3, SendStep
<1>4. CASE ClickChip
  <2>1. PICK c \in card : c.rows # NotLoaded /\ \E s \in Stations :
          /\ c.rows[s].source # "none"
          /\ Send([op |-> "row", trial |-> c.trial, vs |-> s, n |-> c.rows[s].n,
                   source |-> nextSource(c.rows[s].source)], <<>>)
    BY <1>4 DEF ClickChip
  <2>2. PICK s \in Stations :
          /\ c.rows[s].source # "none"
          /\ Send([op |-> "row", trial |-> c.trial, vs |-> s, n |-> c.rows[s].n,
                   source |-> nextSource(c.rows[s].source)], <<>>)
    BY <2>1
  <2> DEFINE source == nextSource(c.rows[s].source)
             call == [op |-> "row", trial |-> c.trial, vs |-> s, n |-> c.rows[s].n, source |-> source]
  <2>3. c.rows[s].source \in Sources \ {"none"}
    BY <1>0, <2>1, <2>2 DEF StationRows
  <2>4. source \in Sources
    BY <2>3 DEF nextSource, Sources
  <2>5. Send(call, <<>>)
    BY <2>2
  <2> HIDE DEF source
  <2>6. FromPage(call, <<>>)
    BY <1>0, <2>4 DEF FromPage, ProperCall, SmallCall, Operations
  <2> HIDE DEF call
  <2> QED
    BY <2>5, <2>6, SendStep
<1> QED
  BY <1>1, <1>2, <1>3, <1>4

LEMMA SendListStep ==
  ASSUME PageInv, NEW list \in Seq(Stations), NEW s, SendList(list, s),
         \A x, y \in Stations \ {s} : Precedes(list, x, y) <=> Precedes(shownList, x, y)
  PROVE  PageInv'
<1> DEFINE call == [op |-> "list", list |-> list]
           seen == [list |-> shownList, vs |-> s]
<1>1. FromPage(call, seen)
  BY DEF FromPage, ProperCall, SmallCall, Operations, KeepsTheRest
<1>2. Send(call, seen)
  BY DEF SendList
<1> HIDE DEF call, seen
<1> QED
  BY <1>1, <1>2, SendStep

LEMMA ListStep ==
  ASSUME PageInv, AddVS \/ RemoveVS \/ DragVS
  PROVE  PageInv'
<1>0. shownList \in Seq(Stations)
  BY DEF PageInv, ShownInv
<1>1. CASE AddVS
  <2>1. PICK s \in Stations : SendList(Append(shownList, s), s)
    BY <1>1 DEF AddVS
  <2> DEFINE list == Append(shownList, s)
  <2>2. list \in Seq(Stations)
    BY <1>0, AppendProperties
  <2>3. \A x, y \in Stations \ {s} : Precedes(list, x, y) <=> Precedes(shownList, x, y)
    BY <1>0, AppendKeeps
  <2> HIDE DEF list
  <2>4. SendList(list, s)
    BY <2>1 DEF list
  <2> QED
    BY <2>2, <2>3, <2>4, SendListStep
<1>2. CASE RemoveVS
  <2>1. PICK i \in DOMAIN shownList : SendList(RemoveAt(shownList, i), shownList[i])
    BY <1>2 DEF RemoveVS
  <2> DEFINE list == RemoveAt(shownList, i)
             s == shownList[i]
  <2>2. list \in Seq(Stations) /\ IsRemoval(list, shownList, i)
    BY <1>0, RemoveAtIs
  <2>3. SendList(list, s)
    BY <2>1
  <2> HIDE DEF list
  <2>4. \A x, y \in Stations \ {s} : Precedes(list, x, y) <=> Precedes(shownList, x, y)
    BY <1>0, <2>2, RemovalKeeps
  <2> HIDE DEF s
  <2> QED
    BY <2>2, <2>3, <2>4, SendListStep
<1>3. CASE DragVS
  <2>1. PICK from, to \in DOMAIN shownList :
          SendList(arrayMove(shownList, from, to), shownList[from])
    BY <1>3 DEF DragVS
  <2> DEFINE list == arrayMove(shownList, from, to)
             s == shownList[from]
  <2>2. list \in Seq(Stations)
    BY <1>0, arrayMoveType
  <2>3. SendList(list, s)
    BY <2>1
  <2>4. \A x, y \in Stations \ {s} : Precedes(list, x, y) <=> Precedes(shownList, x, y)
    BY <1>0, MoveKeeps
  <2> HIDE DEF list, s
  <2> QED
    BY <2>2, <2>3, <2>4, SendListStep
<1> QED
  BY <1>1, <1>2, <1>3

(* The server, the answers and the other browsers.                           *)
LEMMA OkIs ==
  ASSUME NEW c, IsRequest(c), NEW value
  PROVE  LET ok == [c EXCEPT !.answer = "ok", !.reply = value]
         IN  IsRequest(ok) /\ ok.n = c.n /\ ok.call = c.call /\ ok.seen = c.seen /\ ok.reply = value
<1>1. PICK n, its, seen, answer, old :
        c = [n |-> n, call |-> its, seen |-> seen, answer |-> answer, reply |-> old]
  BY DEF IsRequest
<1> DEFINE first == [c EXCEPT !.answer = "ok"]
<1>3. first = [n |-> n, call |-> its, seen |-> seen, answer |-> "ok", reply |-> old]
  BY <1>1
<1>4. [c EXCEPT !.answer = "ok", !.reply = value] = [first EXCEPT !.reply = value]
  OBVIOUS
<1> HIDE DEF first
<1>5. [first EXCEPT !.reply = value]
        = [n |-> n, call |-> its, seen |-> seen, answer |-> "ok", reply |-> value]
  BY <1>3
<1>2. [c EXCEPT !.answer = "ok", !.reply = value]
        = [n |-> n, call |-> its, seen |-> seen, answer |-> "ok", reply |-> value]
  BY <1>4, <1>5
<1> QED
  BY <1>1, <1>2 DEF IsRequest

LEMMA ErrorIs ==
  ASSUME NEW c, IsRequest(c)
  PROVE  LET error == [c EXCEPT !.answer = "error"]
         IN  /\ IsRequest(error) /\ error.n = c.n /\ error.call = c.call /\ error.seen = c.seen
             /\ error.answer = "error"
<1>1. PICK n, its, seen, answer, old :
        c = [n |-> n, call |-> its, seen |-> seen, answer |-> answer, reply |-> old]
  BY DEF IsRequest
<1>2. [c EXCEPT !.answer = "error"]
        = [n |-> n, call |-> its, seen |-> seen, answer |-> "error", reply |-> old]
  BY <1>1
<1> QED
  BY <1>1, <1>2 DEF IsRequest

LEMMA AnswerStep ==
  ASSUME PageInv, NEW c \in calls, Answered(c)
  PROVE  PageInv' /\ db'.race = db.race /\ (Small(db.trials) => Small(db'.trials))
<1> DEFINE call == c.call
           a == Handled(db, call)
<1>1. /\ IsRequest(c) /\ c.n \in 1..sent /\ FromPage(call, c.seen) /\ Sound(db)
      /\ ProperCall(call) /\ call.op # "delete race" /\ SmallCall(call)
  BY DEF PageInv, CallsInv, FromPage
<1>2. call.op = "create" => db.born < Cardinality(Trials)
  BY DEF Answered
<1>3. /\ SoundAnswer(db, a) /\ a.db.race = db.race
      /\ Sound(After(db, call)) /\ After(db, call).race = db.race
  BY <1>1, <1>2, HandledSound, RaceKept, AfterSound
<1>4. db' \in {db, a.db, After(db, call)}
  BY DEF Answered
<1>5. Sound(db') /\ db'.race = db.race
  BY <1>1, <1>3, <1>4 DEF SoundAnswer
<1>12. Small(db.trials) => Small(db'.trials)
  <2>1. Small(db.trials) => Small(a.db.trials)
    BY <1>1, <1>2, SmallKept
  <2>2. SameButRows(a.db, After(db, call))
    BY <1>1, <1>2, AfterSound
  <2> HIDE DEF a
  <2>3. After(db, call).trials = a.db.trials
    BY <2>2 DEF SameButRows
  <2> QED
    BY <1>4, <2>1, <2>3
<1> DEFINE reply == IF call.op = "reorder" THEN db'.trials
                    ELSE IF call.op = "list" THEN db'.entries ELSE <<>>
<1>6. \/ Served(c, [c EXCEPT !.answer = "ok", !.reply = reply])
      \/ Served(c, [c EXCEPT !.answer = "error"])
  BY DEF Answered
<1>7. UNCHANGED <<shownTrials, shownList, card, sent>>
  BY DEF Answered
<1>8. /\ call.op = "reorder" => reply \in TrialTables /\ Unique(reply)
      /\ call.op = "list" => reply \in Seq(Stations)
  BY <1>5, SoundTables
<1> HIDE DEF a, reply
<1>9. PICK e : /\ Served(c, e) /\ IsRequest(e) /\ e.n = c.n /\ e.call = call /\ e.seen = c.seen
               /\ ProperReply(e)
  <2> DEFINE ok == [c EXCEPT !.answer = "ok", !.reply = reply]
             error == [c EXCEPT !.answer = "error"]
  <2>3. IsRequest(ok) /\ ok.n = c.n /\ ok.call = call /\ ok.seen = c.seen /\ ok.reply = reply
    BY <1>1, OkIs
  <2>4. IsRequest(error) /\ error.n = c.n /\ error.call = call /\ error.seen = c.seen /\ error.answer = "error"
    BY <1>1, ErrorIs
  <2> HIDE DEF ok, error
  <2>5. ProperReply(ok) /\ ProperReply(error)
    BY <1>8, <2>3, <2>4 DEF ProperReply
  <2>6. Served(c, ok) \/ Served(c, error)
    BY <1>6 DEF ok, error
  <2> QED
    BY <2>3, <2>4, <2>5, <2>6
<1>10. calls' = (calls \ {c}) \cup {e}
  BY <1>9 DEF Served
<1>11. CallsInv'
  <2>1. /\ sent \in Nat /\ \A x, y \in calls : x.n = y.n => x = y
        /\ \A x \in calls : /\ IsRequest(x) /\ x.n \in 1..sent
                           /\ FromPage(x.call, x.seen) /\ ProperReply(x)
    BY DEF PageInv, CallsInv
  <2>2. IsRequest(e) /\ e.n \in 1..sent /\ FromPage(e.call, e.seen) /\ ProperReply(e)
    BY <1>1, <1>9
  <2>3. \A x, y \in calls' : x.n = y.n => x = y
    BY <1>9, <1>10, <2>1
  <2>4. \A x \in calls' : /\ IsRequest(x) /\ x.n \in 1..sent
                         /\ FromPage(x.call, x.seen) /\ ProperReply(x)
    BY <1>10, <2>1, <2>2
  <2> QED
    BY <1>7, <2>1, <2>3, <2>4 DEF CallsInv
<1> QED
  BY <1>5, <1>7, <1>11, <1>12 DEF PageInv, ShownInv, CardsInv

LEMMA SettleStep ==
  ASSUME PageInv, NEW c \in calls, Settle(c)
  PROVE  PageInv'
<1>1. ProperReply(c)
  BY DEF PageInv, CallsInv
<1>2. CallsInv'
  BY DEF PageInv, CallsInv, Settle
<1>3. shownTrials' \in TrialTables /\ Unique(shownTrials') /\ CardsInv'
  <2>1. CASE c.answer = "ok" /\ c.call.op = "reorder"
    BY <1>1, <2>1, ShowStep DEF Settle, ProperReply
  <2>2. CASE ~(c.answer = "ok" /\ c.call.op = "reorder")
    BY <2>2 DEF Settle, PageInv, ShownInv, CardsInv
  <2> QED
    BY <2>1, <2>2
<1>4. shownList' \in Seq(Stations)
  BY <1>1 DEF Settle, ProperReply, PageInv, ShownInv
<1> QED
  BY <1>2, <1>3, <1>4 DEF Settle, PageInv, ShownInv

ProperOthers(d, others) ==
  \A call \in others : /\ ProperCall(call) /\ call.op # "delete race" /\ SmallCall(call)
                       /\ call.op = "create" => d.born < Cardinality(Trials)
LEMMA ElsewhereStep ==
  ASSUME PageInv, NEW others, ProperOthers(db, others), Elsewhere(others)
  PROVE  PageInv' /\ db'.race = db.race /\ (Small(db.trials) => Small(db'.trials))
<1>1. PICK call \in others : db' = After(db, call)
  BY DEF Elsewhere
<1>3. /\ Sound(db) /\ ProperCall(call) /\ call.op # "delete race" /\ SmallCall(call)
      /\ call.op = "create" => db.born < Cardinality(Trials)
  BY DEF ProperOthers, PageInv
<1>2. Sound(db') /\ db'.race = db.race /\ SameButRows(Handled(db, call).db, db')
  BY <1>1, <1>3, AfterSound
<1>4. Small(db.trials) => Small(Handled(db, call).db.trials)
  BY <1>3, SmallKept
<1>5. db'.trials = Handled(db, call).db.trials
  BY <1>2 DEF SameButRows
<1> QED
  BY <1>2, <1>4, <1>5 DEF Elsewhere, PageInv, ShownInv, CardsInv, CallsInv

LEMMA OthersAreProper ==
  ASSUME Sound(db)
  PROVE  /\ ProperOthers(db, TrialsElsewhere) /\ ProperOthers(db, TracksElsewhere)
         /\ ProperOthers(db, ListElsewhere)
<1>1. ASSUME NEW t \in Live(db), NEW call, call = [op |-> "delete", trial |-> t]
      PROVE  ProperCall(call) /\ call.op = "delete" /\ SmallCall(call)
  BY <1>1, SoundTables DEF ProperCall, SmallCall, Operations
<1>2. ASSUME NEW call \in TrialsElsewhere
      PROVE  /\ ProperCall(call) /\ call.op # "delete race" /\ SmallCall(call)
             /\ call.op = "create" => db.born < Cardinality(Trials)
  <2> DEFINE order == Reverse(InSequence(db.trials))
             items == Numbered(order)
  <2>5. order \in Seq(Trials) /\ Len(order) < Temporary
    <3> DEFINE its == InSequence(db.trials)
    <3>1. its \in Seq(Trials) /\ Len(its) < Temporary
      BY SoundTables, OrderType, FewInOrder
    <3> HIDE DEF its
    <3> QED
      BY <3>1, ReverseType DEF its
  <2> HIDE DEF order
  <2>1. items \in Seq(Items) /\ \A i \in 1..Len(items) : items[i].sequence < Temporary
    BY <2>5, NumberedType, NumberedSmall
  <2>2. CASE call \in {[op |-> "delete", trial |-> t] : t \in Live(db)}
    BY <1>1, <2>2
  <2>3. CASE call = [op |-> "reorder", items |-> items]
    <3> HIDE DEF items
    <3> QED
      BY <2>1, <2>3 DEF ProperCall, SmallCall, Operations
  <2>4. CASE call \in {[op |-> "create", sequence |-> n] :
                         n \in {m \in {Cardinality(Live(db))} : db.born < Cardinality(Trials)}}
    <3>1. PICK n \in {Cardinality(Live(db))} :
            db.born < Cardinality(Trials) /\ call = [op |-> "create", sequence |-> n]
      BY <2>4
    <3>2. n \in Nat /\ n < Temporary
      <4>1. n = Len(InSequence(db.trials))
        BY SoundTables, OrderType
      <4> QED
        BY <4>1, SoundTables, FewInOrder
    <3> QED
      BY <3>1, <3>2 DEF ProperCall, SmallCall, Operations
  <2> HIDE DEF items
  <2> QED
    BY <2>2, <2>3, <2>4 DEF TrialsElsewhere, items, order
<1>3. ASSUME NEW call \in TracksElsewhere
      PROVE  ProperCall(call) /\ call.op \notin {"delete race", "create"} /\ SmallCall(call)
  <2>1. CASE call \in {[op |-> "delete", trial |-> t] : t \in Live(db)}
    BY <1>1, <2>1
  <2>2. CASE call \notin {[op |-> "delete", trial |-> t] : t \in Live(db)}
    <3>1. PICK t \in Live(db), track \in Tracks : call = [op |-> "upload", trial |-> t, track |-> track]
      BY <2>2 DEF TracksElsewhere
    <3>2. t \in Trials
      BY SoundTables
    <3> QED
      BY <3>1, <3>2 DEF ProperCall, SmallCall, Operations
  <2> QED
    BY <2>1, <2>2
<1>4. ASSUME NEW call \in ListElsewhere
      PROVE  ProperCall(call) /\ call.op \notin {"delete race", "create"} /\ SmallCall(call)
  <2>1. CASE call \in {[op |-> "list", list |-> RemoveAt(db.entries, i)] : i \in DOMAIN db.entries}
    <3>1. PICK i \in DOMAIN db.entries : call = [op |-> "list", list |-> RemoveAt(db.entries, i)]
      BY <2>1
    <3>2. RemoveAt(db.entries, i) \in Seq(Stations)
      BY SoundTables, RemoveAtType
    <3> QED
      BY <3>1, <3>2 DEF ProperCall, SmallCall, Operations
  <2>2. CASE call \in {[op |-> "delete vs", vs |-> s] : s \in db.vs}
    <3>1. PICK s \in db.vs : call = [op |-> "delete vs", vs |-> s]
      BY <2>2
    <3>2. s \in Stations
      BY DEF Sound, Databases
    <3> QED
      BY <3>1, <3>2 DEF ProperCall, SmallCall, Operations
  <2> QED
    BY <2>1, <2>2 DEF ListElsewhere
<1> QED
  BY <1>2, <1>3, <1>4 DEF ProperOthers
-----------------------------------------------------------------------------
(* The page, step by step: only an answer replaces a request.                *)
PageNext == OrderNext \/ FormNext \/ TrackNext \/ ListNext
Quiet == UNCHANGED db /\ (calls \subseteq calls' \/ calls' \subseteq calls)
LEMMA QuietSteps ==
  ASSUME \/ LoadTrials \/ LoadList \/ LoadCard \/ Collapse \/ Edit \/ DragTrial \/ AddTrial \/ Submit
         \/ DeleteCard \/ Upload \/ RemoveFile \/ ClickChip \/ AddVS \/ RemoveVS \/ DragVS
         \/ (\E t \in Trials : Expand(t)) \/ (\E c \in calls : Settle(c))
  PROVE  Quiet
BY DEF Quiet, LoadTrials, LoadList, LoadCard, Collapse, Edit, DragTrial, AddTrial, Submit, DeleteCard,
       Upload, RemoveFile, ClickChip, AddVS, RemoveVS, DragVS, SendList, Expand, Settle, Send

LEMMA PageStep ==
  ASSUME PageInv, Traffic \/ PageNext
  PROVE  /\ PageInv' /\ db'.race = db.race /\ (Small(db.trials) => Small(db'.trials))
         /\ calls \subseteq calls' \/ calls' \subseteq calls \/ \E c \in calls : Answered(c)
<1>1. CASE \E c \in calls : Answered(c)
  BY <1>1, AnswerStep
<1>2. CASE \E others \in {TrialsElsewhere, TracksElsewhere, ListElsewhere} : Elsewhere(others)
  <2>1. PICK others \in {TrialsElsewhere, TracksElsewhere, ListElsewhere} : Elsewhere(others)
    BY <1>2
  <2>2. ProperOthers(db, others)
    BY OthersAreProper DEF PageInv
  <2> QED
    BY <2>1, <2>2, ElsewhereStep DEF Elsewhere
<1>3. CASE \E c \in calls : Settle(c)
  BY <1>3, QuietSteps, SettleStep DEF Quiet
<1>4. CASE LoadTrials \/ LoadList \/ LoadCard
  BY <1>4, QuietSteps, LoadStep DEF Quiet
<1>5. CASE \E t \in Trials : Expand(t)
  BY <1>5, QuietSteps, ExpandStep DEF Quiet
<1>6. CASE Collapse \/ Edit
  BY <1>6, QuietSteps, CollapseStep, EditStep DEF Quiet
<1>7. CASE DragTrial \/ AddTrial \/ Submit
  BY <1>7, QuietSteps, DragTrialStep, AddTrialStep, SubmitStep DEF Quiet
<1>8. CASE DeleteCard \/ Upload \/ RemoveFile \/ ClickChip
  BY <1>8, QuietSteps, CardCallStep DEF Quiet
<1>9. CASE AddVS \/ RemoveVS \/ DragVS
  BY <1>9, QuietSteps, ListStep DEF Quiet
<1> QED
  BY <1>1, <1>2, <1>3, <1>4, <1>5, <1>6, <1>7, <1>8, <1>9
     DEF Traffic, PageNext, CardNext, OrderNext, FormNext, TrackNext, ListNext

(* The three kinds of behaviours together.                                   *)
ModesInv ==
  /\ subject \in Subjects
  /\ subject # "timing" => waiting = {} /\ current = {} /\ db.race /\ Small(db.trials)
  /\ subject \in {"timing", "tags"} => calls = {}
DeskInv == TimingInv /\ PageInv /\ TagsInv /\ ModesInv

LEMMA DeskInit == Init => DeskInv
<1> SUFFICES ASSUME Init PROVE DeskInv
  OBVIOUS
<1>1. subject \in Subjects /\ Sound(db) /\ (subject # "timing" => db.race /\ Small(db.trials))
  BY DatabasesAssumption DEF Init, Sound, Small, There, Live
<1>2. TimingInv
  BY <1>1 DEF Init, TimingInit, TimingInv, TimingTypes, CurrentPlans, QuietRowsAreExact
<1>3. PageInv
  BY <1>1, SoundTables DEF Init, PageInit, PageInv, ShownInv, CardsInv, CallsInv
<1>4. TagsInv
  BY TagsStart DEF Init
<1> QED
  BY <1>1, <1>2, <1>3, <1>4 DEF Init, TimingInit, PageInit, ModesInv, DeskInv

LEMMA TimingKeeps == DeskInv /\ Timing /\ UNCHANGED <<tagVars, subject>> => DeskInv'
<1> SUFFICES ASSUME DeskInv, Timing, UNCHANGED <<tagVars, subject>> PROVE DeskInv'
  OBVIOUS
<1>1. TimingInv'
  BY TimingStep DEF DeskInv, Timing
<1>2. Sound(db')
  BY <1>1 DEF TimingInv, TimingTypes
<1>3. PageInv'
  BY <1>2 DEF DeskInv, Timing, PageInv, ShownInv, CardsInv, CallsInv
<1>4. TagsInv'
  BY TagsInvStep DEF DeskInv
<1> QED
  BY <1>1, <1>3, <1>4 DEF DeskInv, ModesInv, Timing

LEMMA PageIs == DeskInv /\ Page => subject \notin {"timing", "tags"} /\ (Traffic \/ PageNext)
BY DEF DeskInv, ModesInv, Page, PageNext, Traffic

LEMMA PageKeeps == DeskInv /\ Page /\ UNCHANGED <<tagVars, subject>> => DeskInv'
<1> SUFFICES ASSUME DeskInv, Page, UNCHANGED <<tagVars, subject>> PROVE DeskInv'
  OBVIOUS
<1>1. /\ PageInv' /\ db'.race = db.race /\ subject \notin {"timing", "tags"}
      /\ Small(db.trials) => Small(db'.trials)
  BY PageIs, PageStep DEF DeskInv
<1>2. spoiled' = TRUE /\ UNCHANGED <<reading, waiting, served, current>> /\ current = {}
  BY <1>1 DEF Page, DeskInv, ModesInv
<1>3. TimingInv'
  BY <1>1, <1>2 DEF DeskInv, PageInv, TimingInv, TimingTypes, CurrentPlans, QuietRowsAreExact
<1>4. TagsInv'
  BY TagsInvStep DEF DeskInv
<1> QED
  BY <1>1, <1>2, <1>3, <1>4 DEF DeskInv, ModesInv

LEMMA OthersKeep == DeskInv /\ UNCHANGED <<timingVars, pageVars, subject>> /\ [TagsNext]_tagVars => DeskInv'
<1> SUFFICES ASSUME DeskInv, UNCHANGED <<timingVars, pageVars, subject>>, [TagsNext]_tagVars PROVE DeskInv'
  OBVIOUS
<1>1. TagsInv'
  BY TagsInvStep DEF DeskInv
<1>2. TimingInv'
  BY DEF DeskInv, timingVars, TimingInv, TimingTypes, CurrentPlans, QuietRowsAreExact
<1>3. PageInv'
  BY DEF DeskInv, pageVars, PageInv, ShownInv, CardsInv, CallsInv
<1> QED
  BY <1>1, <1>2, <1>3 DEF DeskInv, ModesInv, timingVars, pageVars

LEMMA DeskStep == DeskInv /\ [Next]_vars => DeskInv'
BY TimingKeeps, PageKeeps, OthersKeep DEF Next, Tags, vars

LEMMA DeskInvariant == Spec => []DeskInv
BY DeskInit, DeskStep, PTL DEF Spec
-----------------------------------------------------------------------------
(* The types of the tables, of what requests have read and of what a page    *)
(* shows and has sent, in every mode.                                        *)
THEOREM DeskTypeCorrect == Spec => []TypeOK
<1>1. ASSUME DeskInv PROVE TypeOK
  <2>1. TimingTypeOK
    BY <1>1 DEF DeskInv, TimingInv, TimingTypes, Sound, TimingTypeOK
  <2>2. PageTypeOK
    <3>1. \A t \in Trials : shownTrials[t] # NoTrial => shownTrials[t].seq \in Nat
      BY <1>1 DEF DeskInv, PageInv, ShownInv, TrialTables, TrialRow
    <3>2. \A c \in card : shownTrials[c.trial] # NoTrial /\ c.edited \subseteq {"start", "tail"}
      BY <1>1 DEF DeskInv, PageInv, CardsInv, CardRecords
    <3> QED
      BY <1>1, <3>1, <3>2 DEF DeskInv, PageInv, ShownInv, CallsInv, PageTypeOK
  <2> QED
    BY <1>1, <2>1, <2>2 DEF DeskInv, TagsInv, TypeOK
<1> QED
  BY <1>1, DeskInvariant, PTL

(* RecomputeRace: however requests overlap, when none is under way and the   *)
(* last recompute to commit was neither outdated nor failed, the passages    *)
(* are those that trials, tracks, list and places ask for, whatever the      *)
(* number of trials that delay one another.  Stations may be deleted under    *)
(* the requests: only the last one of a trial others follow leaves a delay,   *)
(* and is excused until a recompute (LeavesDelay).                            *)
THEOREM RecomputesLeaveExactRows == Spec => []QuietRowsAreExact
<1>1. DeskInv => QuietRowsAreExact
  BY DEF DeskInv, TimingInv
<1> QED
  BY <1>1, DeskInvariant, PTL

(* ScrubRaceTag, beside everything else a race is for.                       *)
THEOREM TagsOutliveScrubs == Spec => []LiveTagsSurvive
<1>1. DeskInv => LiveTagsSurvive
  BY DEF DeskInv, TagsInv
<1> QED
  BY <1>1, DeskInvariant, PTL

(* upsertTrialVS and deleteTrialVS: no recompute, outdated as its plan may   *)
(* be, touches a row that was chosen by hand.                                *)
THEOREM ChoicesStay == Spec => ChoicesOutliveRecomputes
<1> DEFINE Stay == (\E r \in Requests : RecomputeRace(r)) =>
                     \A t \in Trials, s \in Stations :
                       Chosen(db, t, s) => /\ db'.rows[t][s].source = db.rows[t][s].source
                                           /\ db'.rows[t][s].n = db.rows[t][s].n
<1>1. ASSUME DeskInv PROVE Stay
  <2> SUFFICES ASSUME NEW r \in Requests, RecomputeRace(r), NEW t \in Trials, NEW s \in Stations,
                      Chosen(db, t, s)
               PROVE  /\ db'.rows[t][s].source = db.rows[t][s].source
                      /\ db'.rows[t][s].n = db.rows[t][s].n
    OBVIOUS
  <2>1. PICK plan \in reading[r] : db' = Recomputed(plan, db)
    BY DEF RecomputeRace
  <2>2. plan \in Plans /\ Unique(plan.trials) /\ Sound(db)
    BY <1>1 DEF DeskInv, TimingInv, TimingTypes
  <2>3. db.rows[t][s].source \in Chosens
    BY DEF Chosen, Chosens
  <2> QED
    BY <2>1, <2>2, <2>3, RecomputedSound
<1>2. DeskInv => [Stay]_timingVars
  BY <1>1
<1> HIDE DEF Stay
<1>3. Spec => [][Stay]_timingVars
  BY <1>2, DeskInvariant, PTL
<1> QED
  BY <1>3 DEF Stay, ChoicesOutliveRecomputes
-----------------------------------------------------------------------------
(* The requests of the page are told apart by their numbers: the one that    *)
(* gets an answer is the one that is served.                                 *)
LEMMA ServedIs ==
  ASSUME DeskInv, [Next]_vars, NEW c \in calls, NEW op, Serving(c, op)
  PROVE  Answered(c) /\ c.call.op = op /\ FromPage(c.call, c.seen) /\ Sound(db)
<1>1. PICK a \in calls' \ calls : a.n = c.n
  BY DEF Serving
<1>2. PageInv /\ PageInv'
  BY DeskStep DEF DeskInv
<1>3. Traffic \/ PageNext
  BY <1>1, PageIs DEF Next, Timing, Tags, vars, pageVars
<1>4. calls \subseteq calls' \/ calls' \subseteq calls \/ \E e \in calls : Answered(e)
  BY <1>2, <1>3, PageStep
<1>5. ~(calls' \subseteq calls)
  BY <1>1
<1>6. ~(calls \subseteq calls')
  BY <1>1, <1>2 DEF PageInv, CallsInv
<1>7. PICK e \in calls : Answered(e)
  BY <1>4, <1>5, <1>6
<1>8. e.n = c.n
  <2>1. IsRequest(e)
    BY <1>2 DEF PageInv, CallsInv
  <2> DEFINE reply == IF e.call.op = "reorder" THEN db'.trials
                      ELSE IF e.call.op = "list" THEN db'.entries ELSE <<>>
             ok == [e EXCEPT !.answer = "ok", !.reply = reply]
             error == [e EXCEPT !.answer = "error"]
  <2>2. Served(e, ok) \/ Served(e, error)
    BY <1>7 DEF Answered
  <2> HIDE DEF reply
  <2>3. ok.n = e.n /\ error.n = e.n
    BY <2>1, OkIs, ErrorIs
  <2> HIDE DEF ok, error
  <2> QED
    BY <1>1, <2>2, <2>3 DEF Served
<1>9. e = c
  BY <1>2, <1>8 DEF PageInv, CallsInv
<1> QED
  BY <1>2, <1>7, <1>9 DEF Serving, PageInv, CallsInv

(* What an answer may leave: the tables as they were, the change, or the     *)
(* change with its recompute.                                                *)
LEMMA AnsweredIs ==
  ASSUME NEW c, Answered(c), Sound(db), ProperCall(c.call), c.call.op # "delete race"
  PROVE  LET a == Handled(db, c.call) IN
         /\ a.ok => SameButRows(a.db, db')
         /\ ~a.ok => db' = db
<1> DEFINE call == c.call
           a == Handled(db, call)
<1>1. call.op = "create" => db.born < Cardinality(Trials)
  BY DEF Answered
<1>2. SameButRows(a.db, After(db, call))
  BY <1>1, AfterSound
<1>3. SameButRows(a.db, a.db)
  BY DEF SameButRows
<1>4. /\ a.ok => db' = After(db, call) \/ db' = a.db
      /\ ~a.ok => db' = db
  BY DEF Answered
<1> HIDE DEF a
<1>5. (a.ok => SameButRows(a.db, db')) /\ (~a.ok => db' = db)
  BY <1>2, <1>3, <1>4
<1> QED
  BY <1>5 DEF a

LEMMA PatchedIs ==
  ASSUME NEW d, Sound(d), NEW call, ProperCall(call), call.op = "patch"
  PROVE  LET a == Handled(d, call)
             t == call.trial
         IN  a.ok => /\ a.db.trials[t].start =
                          IF call.patch.start = Null THEN d.trials[t].start ELSE call.patch.start
                     /\ a.db.trials[t].tail = call.patch.tail
<1> DEFINE a == Handled(d, call)
           t == call.trial
           patch == call.patch
           start == IF patch.start = Null THEN d.trials[t].start ELSE patch.start
           new == [d.trials[t] EXCEPT !.start = start, !.front = patch.front, !.tail = patch.tail]
           trials == [d.trials EXCEPT ![t] = new]
           x == [d EXCEPT !.trials = trials]
<1>1. a = PatchTrial(d, t, patch)
  BY HandledIs
<1>2. t \in Trials /\ d \in Databases /\ d.trials \in TrialTables
  BY DEF ProperCall, Sound, Databases
<1>3. ASSUME a.ok PROVE t \in Live(d) /\ a = Answer(TRUE, x)
  <2>1. CASE t \notin Live(d)
    <3>1. a = Answer(FALSE, d)
      BY <1>1, <2>1 DEF PatchTrial
    <3> HIDE DEF a
    <3> QED
      BY <1>3, <3>1, AnswerIs
  <2>2. CASE t \in Live(d)
    <3>1. PatchTrial(d, t, patch) = Answer(TRUE, x)
      BY <2>2 DEF PatchTrial
    <3> QED
      BY <1>1, <2>2, <3>1
  <2> QED
    BY <2>1, <2>2
<1>4. ASSUME t \in Live(d) PROVE new.start = start /\ new.tail = patch.tail
  <2>1. d.trials[t] \in TrialRow
    BY <1>2, <1>4 DEF Live, TrialTables
  <2> HIDE DEF start, patch
  <2> QED
    BY <2>1 DEF TrialRow
<1> HIDE DEF new
<1>5. trials[t] = new
  BY <1>2 DEF TrialTables
<1> HIDE DEF trials
<1>6. x.trials = trials
  BY <1>2 DEF Databases
<1> HIDE DEF x
<1>7. Answer(TRUE, x).db = x
  BY AnswerIs
<1> HIDE DEF a
<1>8. a.ok => a.db.trials[t].start = start /\ a.db.trials[t].tail = patch.tail
  BY <1>3, <1>4, <1>5, <1>6, <1>7
<1> QED
  BY <1>8 DEF a
-----------------------------------------------------------------------------
FormSaved(c) ==
  LET t == c.call.trial IN
  /\ t = c.seen.of
  /\ c.seen.start = Null => db'.trials[t].start = db.trials[t].start
  /\ db.trials[t] = [c.seen.opened EXCEPT !.seq = db.trials[t].seq] =>
       /\ "start" \notin c.seen.edited => db'.trials[t].start = db.trials[t].start
       /\ "tail" \notin c.seen.edited => db'.trials[t].tail = db.trials[t].tail
LEMMA FormIsSaved ==
  ASSUME DeskInv, [Next]_vars, NEW c \in calls, Serving(c, "patch")
  PROVE  FormSaved(c)
<1> DEFINE call == c.call
           a == Handled(db, call)
           t == call.trial
           old == db.trials[t]
           opened == c.seen.opened
           patch == call.patch
<1>1. Answered(c) /\ call.op = "patch" /\ FromPage(call, c.seen) /\ Sound(db)
  BY ServedIs
<1>2. ProperCall(call) /\ FromForm(call, c.seen)
  BY <1>1 DEF FromPage
<1>3. (a.ok => SameButRows(a.db, db')) /\ (~a.ok => db' = db)
  BY <1>1, <1>2, AnsweredIs
<1>4. a.ok => /\ a.db.trials[t].start = IF patch.start = Null THEN old.start ELSE patch.start
              /\ a.db.trials[t].tail = patch.tail
  BY <1>1, <1>2, PatchedIs
<1>5. \/ db'.trials[t] = old
      \/ /\ db'.trials[t].start = IF patch.start = Null THEN old.start ELSE patch.start
         /\ db'.trials[t].tail = patch.tail
  <2> HIDE DEF a, t, patch
  <2> QED
    BY <1>3, <1>4 DEF SameButRows
<1>6. ASSUME old = [opened EXCEPT !.seq = old.seq] PROVE old.start = opened.start /\ old.tail = opened.tail
  <2> DEFINE seq == old.seq
             new == [opened EXCEPT !.seq = seq]
  <2>1. opened \in TrialRow
    BY <1>2 DEF FromForm
  <2>2. old = new
    BY <1>6
  <2> HIDE DEF seq, opened
  <2>3. new.start = opened.start /\ new.tail = opened.tail
    BY <2>1 DEF TrialRow
  <2> HIDE DEF new, old
  <2> QED
    BY <2>2, <2>3
<1>7. /\ t = c.seen.of /\ patch.start = c.seen.start
      /\ "start" \notin c.seen.edited => patch.start = opened.start
      /\ "tail" \notin c.seen.edited => patch.tail = opened.tail
  BY <1>2 DEF FromForm
<1>8. /\ c.seen.start = Null => db'.trials[t].start = old.start
      /\ old = [opened EXCEPT !.seq = old.seq] =>
           /\ "start" \notin c.seen.edited => db'.trials[t].start = old.start
           /\ "tail" \notin c.seen.edited => db'.trials[t].tail = old.tail
  <2> HIDE DEF t, patch, opened, old
  <2> QED
    BY <1>5, <1>6, <1>7
<1> QED
  BY <1>7, <1>8 DEF FormSaved

(* TrialForm and patchTrial: a form saves to the trial it was opened on, and *)
(* a field left alone keeps the value nobody else has changed.               *)
THEOREM FormsSaveTheirTrial == Spec => FormsSaveTheirOwnTrial
<1> DEFINE Saved == \A c \in calls : Serving(c, "patch") => FormSaved(c)
<1>1. DeskInv /\ [Next]_vars => [Saved]_pageVars
  BY FormIsSaved
<1> HIDE DEF Saved
<1>2. Spec => [][Saved]_pageVars
  BY <1>1, DeskInvariant, PTL DEF Spec
<1> QED
  BY <1>2 DEF Saved, FormSaved, FormsSaveTheirOwnTrial

(* A trial without files gets the one file there is then.                    *)
LEMMA UploadedIs ==
  ASSUME NEW d, Sound(d), NEW t \in Live(d), NEW track \in Tracks, FilesOf(d, t) = {}
  PROVE  UploadGPX(d, t, track).ok /\ TrackOf(UploadGPX(d, t, track).db, t) = track
<1> DEFINE file == [id |-> d.uploads + 1, trial |-> t, track |-> track]
           files == d.files \cup {file}
           x == [d EXCEPT !.uploads = d.uploads + 1, !.files = files]
<1>1. UploadGPX(d, t, track) = Answer(TRUE, x)
  BY DEF UploadGPX
<1>2. UploadGPX(d, t, track).ok /\ UploadGPX(d, t, track).db = x
  <2> HIDE DEF x
  <2> QED
    BY <1>1, AnswerIs
<1>3. x.files = files
  <2> HIDE DEF files
  <2> QED
    BY DEF Sound, Databases
<1> HIDE DEF x
<1>4. file.trial = t /\ file.track = track /\ file.id = d.uploads + 1 /\ file.id \in Nat
  BY DEF Sound, Databases
<1> HIDE DEF file
<1>5. FilesOf(x, t) = {file}
  BY <1>3, <1>4 DEF FilesOf
<1>6. Oldest({file}) = file
  BY <1>4 DEF Oldest
<1>7. TrackOf(x, t) = track
  BY <1>4, <1>5, <1>6 DEF TrackOf
<1> QED
  BY <1>2, <1>7

UploadCounts(c) ==
  c.seen = FilesOf(db, c.call.trial) /\ c.call.trial \in Live(db)
    => TrackOf(db', c.call.trial) = c.call.track
LEMMA UploadIsUsed ==
  ASSUME DeskInv, [Next]_vars, NEW c \in calls, Serving(c, "upload")
  PROVE  UploadCounts(c)
<1> SUFFICES ASSUME c.seen = FilesOf(db, c.call.trial), c.call.trial \in Live(db)
             PROVE  TrackOf(db', c.call.trial) = c.call.track
  BY DEF UploadCounts
<1> DEFINE call == c.call
           t == call.trial
           track == call.track
           a == Handled(db, call)
<1>1. Answered(c) /\ call.op = "upload" /\ FromPage(call, c.seen) /\ Sound(db)
  BY ServedIs
<1>2. ProperCall(call) /\ c.seen = {} /\ call.track \in Tracks
  BY <1>1 DEF FromPage, ProperCall
<1>3. (a.ok => SameButRows(a.db, db')) /\ (~a.ok => db' = db)
  BY <1>1, <1>2, AnsweredIs
<1>4. a = UploadGPX(db, t, track)
  BY <1>1, <1>2, HandledIs
<1>5. a.ok /\ TrackOf(a.db, t) = track
  <2>1. t \in Live(db) /\ track \in Tracks /\ FilesOf(db, t) = {} /\ Sound(db)
    BY <1>1, <1>2
  <2> HIDE DEF t, track, a
  <2> QED
    BY <1>4, <2>1, UploadedIs
<1> HIDE DEF a
<1>6. TrackOf(db', t) = TrackOf(a.db, t)
  BY <1>3, <1>5 DEF SameButRows, TrackOf, FilesOf
<1> QED
  BY <1>5, <1>6

(* UploadGPX: the track uploaded on a card that shows no file, rightly, is   *)
(* the one the trial is timed with.                                          *)
THEOREM UploadsCount == Spec => FreshUploadsCount
<1> DEFINE Counts == \A c \in calls : /\ Serving(c, "upload") /\ c.seen = FilesOf(db, c.call.trial)
                                      /\ c.call.trial \in Live(db)
                     => TrackOf(db', c.call.trial) = c.call.track
<1>1. DeskInv /\ [Next]_vars => [Counts]_pageVars
  BY UploadIsUsed DEF UploadCounts
<1> HIDE DEF Counts
<1>2. Spec => [][Counts]_pageVars
  BY <1>1, DeskInvariant, PTL DEF Spec
<1> QED
  BY <1>2 DEF Counts, FreshUploadsCount

(* A new trial is refused when its number is taken, for no other reason.     *)
LEMMA CreatedIs ==
  ASSUME NEW d, Sound(d), d.race, NEW seq, ~Taken(d.trials, seq, Trials)
  PROVE  CreateTrial(d, seq).ok /\ CreateTrial(d, seq).db.born = d.born + 1
<1> DEFINE new == [seq |-> seq, start |-> Null, front |-> 2, tail |-> 1]
           trials == [d.trials EXCEPT ![d.born + 1] = new]
           x == [d EXCEPT !.born = d.born + 1, !.trials = trials]
<1>1. CreateTrial(d, seq) = Answer(TRUE, x)
  BY DEF CreateTrial
<1>2. x.born = d.born + 1
  <2> HIDE DEF trials
  <2> QED
    BY DEF Sound, Databases
<1> HIDE DEF x
<1> QED
  BY <1>1, <1>2, AnswerIs

AddHolds(c) ==
  c.seen = db.trials /\ db' = db => {db.trials[t].seq : t \in Live(db)} # 0..(Cardinality(Live(db)) - 1)
LEMMA AddIsOverAHole ==
  ASSUME DeskInv, [Next]_vars, NEW c \in calls, Serving(c, "create")
  PROVE  AddHolds(c)
<1> DEFINE call == c.call
           a == Handled(db, call)
           n == Cardinality(Live(db))
           seqs == {db.trials[t].seq : t \in Live(db)}
<1> SUFFICES ASSUME c.seen = db.trials, db' = db, seqs = 0..(n - 1)
             PROVE  FALSE
  BY DEF AddHolds
<1>1. Answered(c) /\ call.op = "create" /\ FromPage(call, c.seen) /\ Sound(db)
  BY ServedIs
<1>2. ProperCall(call) /\ call.sequence = Len(InSequence(db.trials))
  BY <1>1 DEF FromPage
<1>3. db.trials \in TrialTables /\ Unique(db.trials) /\ Live(db) = There(db.trials) /\ n \in Nat
  BY <1>1, SoundTables
<1>4. call.sequence = n
  BY <1>2, <1>3, OrderType
<1>5. db.race
  <2>1. calls # {}
    OBVIOUS
  <2> QED
    BY <2>1 DEF DeskInv, ModesInv
<1>6. ~Taken(db.trials, n, Trials)
  <2> SUFFICES ASSUME NEW u \in Trials, db.trials[u] # NoTrial, db.trials[u].seq = n PROVE FALSE
    BY DEF Taken
  <2>1. u \in Live(db)
    BY DEF Live
  <2>2. n \in seqs
    BY <2>1
  <2> QED
    BY <1>3, <2>2
<1>7. a = CreateTrial(db, n)
  <2>1. a = CreateTrial(db, call.sequence)
    BY <1>1, <1>2, HandledIs
  <2> QED
    BY <1>4, <2>1
<1>8. a.ok /\ a.db.born = db.born + 1
  BY <1>1, <1>5, <1>6, <1>7, CreatedIs
<1>9. (a.ok => SameButRows(a.db, db')) /\ (~a.ok => db' = db)
  BY <1>1, <1>2, AnsweredIs
<1> HIDE DEF a
<1>10. db'.born = db.born + 1
  BY <1>8, <1>9 DEF SameButRows
<1>11. db.born \in Nat
  BY <1>1, <1>3, ThereIsFinite, RaceTablesAssumption, FS_CardinalityType DEF Sound, Databases
<1> QED
  BY <1>10, <1>11

(* addTrial numbers a trial by how many are shown: CreateTrial refuses *)
(* it on a page that is up to date only when the numbers have a hole.        *)
THEOREM AddsFailOverHoles == Spec => AddsFailOnlyOverAHole
<1> DEFINE Holds == \A c \in calls : Serving(c, "create") /\ c.seen = db.trials /\ db' = db =>
                      {db.trials[t].seq : t \in Live(db)} # 0..(Cardinality(Live(db)) - 1)
<1>1. DeskInv /\ [Next]_vars => [Holds]_pageVars
  BY AddIsOverAHole DEF AddHolds
<1> HIDE DEF Holds
<1>2. Spec => [][Holds]_pageVars
  BY <1>1, DeskInvariant, PTL DEF Spec
<1> QED
  BY <1>2 DEF Holds, AddsFailOnlyOverAHole

(* A list is stored as it was sent, or refused.                              *)
LEMMA ListedIs ==
  ASSUME NEW d, Sound(d), NEW list
  PROVE  LET a == ReplaceList(d, list) IN ~a.ok \/ a.db.entries = list
<1> DEFINE x == [d EXCEPT !.entries = list]
           a == ReplaceList(d, list)
<1>1. a \in {Answer(FALSE, d), Answer(TRUE, x)}
  BY DEF ReplaceList
<1>2. x.entries = list
  BY DEF Sound, Databases
<1> HIDE DEF x, a
<1>4. Answer(FALSE, d).ok = FALSE /\ Answer(TRUE, x).db = x
  BY AnswerIs
<1>3. ~a.ok \/ a.db.entries = list
  BY <1>1, <1>2, <1>4
<1> QED
  BY <1>3 DEF a

RestKept(c) ==
  c.seen.list = db.entries =>
    \A x, y \in Stations \ {c.seen.vs} :
      Precedes(db'.entries, x, y) <=> Precedes(db.entries, x, y)
LEMMA RestIsKept ==
  ASSUME DeskInv, [Next]_vars, NEW c \in calls, Serving(c, "list")
  PROVE  RestKept(c)
<1> DEFINE call == c.call
           a == Handled(db, call)
<1>1. Answered(c) /\ call.op = "list" /\ FromPage(call, c.seen) /\ Sound(db)
  BY ServedIs
<1>2. ProperCall(call) /\ call.op # "delete race" /\ KeepsTheRest(call.list, c.seen)
  BY <1>1 DEF FromPage
<1>3. (a.ok => SameButRows(a.db, db')) /\ (~a.ok => db' = db)
  BY <1>1, <1>2, AnsweredIs
<1>4. a = ReplaceList(db, call.list)
  BY <1>1, <1>2, HandledIs
<1>5. ~a.ok \/ a.db.entries = call.list
  BY <1>1, <1>4, ListedIs
<1> HIDE DEF a
<1>6. db'.entries \in {db.entries, call.list}
  BY <1>3, <1>5 DEF SameButRows
<1> QED
  BY <1>2, <1>6 DEF RestKept, KeepsTheRest

(* VSListSection and ReplaceList: whatever is added, taken out or dragged in *)
(* a list that is up to date, all other stations keep their order.           *)
THEOREM ListsKeepTheRest == Spec => FreshListsKeepTheRest
<1> DEFINE Kept == \A c \in calls : Serving(c, "list") /\ c.seen.list = db.entries =>
                     \A x, y \in Stations \ {c.seen.vs} :
                       Precedes(db'.entries, x, y) <=> Precedes(db.entries, x, y)
<1>1. DeskInv /\ [Next]_vars => [Kept]_pageVars
  BY RestIsKept DEF RestKept
<1> HIDE DEF Kept
<1>2. Spec => [][Kept]_pageVars
  BY <1>1, DeskInvariant, PTL DEF Spec
<1> QED
  BY <1>2 DEF Kept, FreshListsKeepTheRest

(* A drag from the order there is: every number it passes through is free.   *)
LEMMA DraggedIs ==
  ASSUME NEW d, Sound(d), Small(d.trials), There(d.trials) # {},
         NEW moved, Permutes(moved, There(d.trials))
  PROVE  LET a == Reorder(d, Numbered(moved)) IN a.ok /\ InSequence(a.db.trials) = moved
<1> DEFINE items == Numbered(moved)
           updates == Phases(items)
           final == Renumbered(d.trials, updates)[Len(updates)]
           x == [d EXCEPT !.trials = final]
           a == Reorder(d, items)
<1>1. d.trials \in TrialTables /\ Unique(d.trials)
  BY SoundTables
<1>2. a = IF final = Refused THEN Answer(FALSE, d) ELSE Answer(TRUE, x)
  BY ReorderIs
<1>3. /\ final # Refused /\ final \in TrialTables /\ There(final) = There(d.trials)
      /\ \A j \in 1..Len(moved) : final[moved[j]].seq = j - 1
  BY <1>1, DragNumbers
<1> HIDE DEF final
<1>4. InSequence(final) = moved
  BY <1>3, NumberedOrder
<1>5. x.trials = final
  BY DEF Sound, Databases
<1> HIDE DEF x, a
<1>6. a.ok /\ a.db = x
  BY <1>2, <1>3, AnswerIs
<1> QED
  BY <1>4, <1>5, <1>6 DEF a, items

DragHolds(c) ==
  c.seen = db.trials =>
    InSequence(db'.trials) = OrderAsked(c.call.items)
LEMMA DragIsHeld ==
  ASSUME DeskInv, [Next]_vars, NEW c \in calls, Serving(c, "reorder")
  PROVE  DragHolds(c)
<1> SUFFICES ASSUME c.seen = db.trials
             PROVE  InSequence(db'.trials) = OrderAsked(c.call.items)
  BY DEF DragHolds
<1> DEFINE call == c.call
           items == call.items
           a == Handled(db, call)
<1>1. Answered(c) /\ call.op = "reorder" /\ FromPage(call, c.seen) /\ Sound(db)
  BY ServedIs
<1>2. ProperCall(call) /\ call.op # "delete race" /\ IsDrag(items, db.trials)
  BY <1>1 DEF FromPage
<1>3. (a.ok => SameButRows(a.db, db')) /\ (~a.ok => db' = db)
  BY <1>1, <1>2, AnsweredIs
<1>4. a = Reorder(db, items)
  BY <1>1, <1>2, HandledIs
<1>5. Small(db.trials)
  <2>1. calls # {}
    OBVIOUS
  <2> QED
    BY <2>1 DEF DeskInv, ModesInv
<1>6. PICK moved : There(db.trials) # {} /\ Permutes(moved, There(db.trials)) /\ items = Numbered(moved)
  BY <1>2 DEF IsDrag
<1>7. a.ok /\ InSequence(a.db.trials) = moved
  <2> HIDE DEF a, items
  <2> QED
    BY <1>1, <1>4, <1>5, <1>6, DraggedIs
<1>8. moved = OrderAsked(items)
  <2>1. moved \in Seq(There(db.trials)) /\ There(db.trials) \subseteq Trials
    BY <1>6 DEF Permutes, There
  <2>2. moved \in Seq(Trials) /\ DOMAIN moved = 1..Len(moved)
    BY <2>1, LenProperties, SeqDef
  <2>3. /\ items \in Seq(Items) /\ Len(items) = Len(moved)
        /\ \A i \in 1..Len(moved) : items[i] = [trial |-> moved[i], sequence |-> i - 1]
    <3> HIDE DEF items
    <3> QED
      BY <1>6, <2>2, NumberedType
  <2> HIDE DEF items
  <2>4. DOMAIN items = DOMAIN moved
    BY <2>2, <2>3, LenProperties
  <2>5. ASSUME NEW i \in DOMAIN moved PROVE items[i].trial = moved[i]
    <3> DEFINE k == i - 1
    <3>1. items[i] = [trial |-> moved[i], sequence |-> k]
      BY <2>2, <2>3
    <3> HIDE DEF k
    <3> QED
      BY <3>1
  <2>6. moved = [i \in DOMAIN moved |-> moved[i]]
    BY <2>2, LenProperties
  <2> QED
    BY <2>4, <2>5, <2>6 DEF OrderAsked
<1> HIDE DEF a, items
<1>9. db'.trials = a.db.trials
  BY <1>3, <1>7 DEF SameButRows
<1> QED
  BY <1>7, <1>8, <1>9 DEF items

(* onDragEnd and Reorder: a drag on a page that is up to date is         *)
(* accepted through all the numbers its updates swap, each checked against   *)
(* UNIQUE(race_id, sequence), and leaves the order that was dragged.         *)
THEOREM DragsHold == Spec => DraggedOrderHolds
<1> DEFINE Holds == \A c \in calls : Serving(c, "reorder") /\ c.seen = db.trials =>
                      InSequence(db'.trials) = OrderAsked(c.call.items)
<1>1. DeskInv /\ [Next]_vars => [Holds]_pageVars
  BY DragIsHeld DEF DragHolds
<1> HIDE DEF Holds
<1>2. Spec => [][Holds]_pageVars
  BY <1>1, DeskInvariant, PTL DEF Spec
<1> QED
  BY <1>2 DEF Holds, DraggedOrderHolds
=============================================================================
