----------------------------- MODULE RaceTables -----------------------------
(***************************************************************************)
(* The tables of one race (trials, gpx_files, race_vs_entries and          *)
(* race_trial_vs), what each handler commits to them, and the recompute of *)
(* the passages: RecomputeRace.  The tables are one record; a handler maps *)
(* it to the next one or refuses.  Times are natural numbers, distances    *)
(* come from a table: where a track passes each place.                     *)
(***************************************************************************)
EXTENDS Integers, Sequences, SequencesExt

CONSTANTS
  Trials,        \* ids in the order AUTOINCREMENT gives them: 1..n
  Stations, Places, Tracks,
  Dist,          \* Dist[track][place], Off when the place is beyond 50 m
  Times, Paces   \* values of a form: a start, a pace in distance per time

Null == -1       \* SQL NULL
Off == -1
NoTrack == "none"
NoTrial == [seq |-> Null, start |-> Null, front |-> 0, tail |-> 0]
Temporary == 100000

ASSUME RaceTablesAssumption ==
  /\ IsFiniteSet(Trials) /\ Trials = 1..Cardinality(Trials)
  /\ Dist \in [Tracks -> [Places -> Nat \cup {Off}]]
  /\ Times \subseteq Nat /\ Paces \subseteq Nat
  /\ NoTrack \notin Tracks
(* The numbers a reorder passes through are those no trial has.              *)
ASSUME FewTrialsAssumption == Cardinality(Trials) < Temporary

Sources == {"none", "auto", "manual_include", "manual_exclude"}
(* n counts the rows there have been for this trial and station, as ids do.  *)
Row(source, dist, first, last, n) ==
  [source |-> source, dist |-> dist, first |-> first, last |-> last, n |-> n]
NoRow(n) == Row("none", Null, Null, Null, n)

VARIABLE db      \* the tables

Live(d) == {t \in Trials : d.trials[t] # NoTrial}
InSequence(trials) ==
  LET there == {t \in Trials : trials[t] # NoTrial}
      before(t) == {u \in there : trials[u].seq < trials[t].seq}
  IN  [k \in 1..Cardinality(there) |-> CHOOSE t \in there : Cardinality(before(t)) = k - 1]
FilesOf(d, t) == {f \in d.files : f.trial = t}
Oldest(files) == CHOOSE f \in files : \A g \in files : f.id <= g.id
TrackOf(d, t) == IF FilesOf(d, t) = {} THEN NoTrack ELSE Oldest(FilesOf(d, t)).track
-----------------------------------------------------------------------------
(* RecomputeRace.  NULL orders before every time, as nil does in the code.   *)
Later(a, b) == IF a > b THEN a ELSE b
effectiveStarts(trial, prev) ==
  [front |-> Later(trial.start, prev.front), tail |-> Later(trial.start, prev.tail)]

NearestOnTrack(track, place) == IF track = NoTrack THEN Off ELSE Dist[track][place]
Arrival(start, dist, pace) ==
  IF start = Null \/ dist = Off \/ pace = 0 THEN Null ELSE start + dist \div pace

(* Mutant: the upsert makes every row an automatic one.                      *)
upsertAsAuto(row, dist, first, last) ==
  Row("auto", dist, first, last, IF row.source = "none" THEN row.n + 1 ELSE row.n)
upsertTrialVS(row, dist, first, last) ==
  Row(IF row.source = "manual_include" THEN "manual_include" ELSE "auto", dist, first, last,
      IF row.source = "none" THEN row.n + 1 ELSE row.n)
deleteTrialVS(row) == NoRow(row.n)

(* One trial: what becomes of the row of each station.                       *)
TrialRows(trial, track, from, plan, rows) ==
  [s \in Stations |->
     LET dist == NearestOnTrack(track, plan.place[s])
         included == rows[s].source = "manual_include"
         skipped == \/ s \notin Range(plan.entries) \/ rows[s].source = "manual_exclude"
                    \/ track = NoTrack /\ ~included
     IN IF skipped THEN rows[s]
        ELSE IF dist = Off /\ ~included THEN deleteTrialVS(rows[s])
        ELSE upsertTrialVS(rows[s], dist, Arrival(from.front, dist, trial.front),
                           Arrival(from.tail, dist, trial.tail))]

(* The stations whose arrival a trial hands on to the next one.              *)
Projected(track, plan, rows) ==
  {s \in Range(plan.entries) : /\ rows[s].source # "manual_exclude"
                               /\ NearestOnTrack(track, plan.place[s]) # Off}

(* plan is what was read before the transaction: the race, its trials and    *)
(* entries with their places, and the track of the first trial.  The walk    *)
(* keeps the last arrivals of the front and of the tail.                     *)
(* Mutant: only the trial just before delays the next one.                   *)
ArrivalsOfThisTrial(prev, times) == Max(times \cup {Null})
LastArrival(prev, times) == Max(times \cup {prev})

TrackFor(plan, d, t) == IF t = Head(InSequence(plan.trials)) THEN plan.track ELSE TrackOf(d, t)
WalkTrial(plan, d, t, prev) ==
  LET track == TrackFor(plan, d, t)
      rows == TrialRows(plan.trials[t], track, effectiveStarts(plan.trials[t], prev),
                        plan, prev.rows[t])
      at == Projected(track, plan, prev.rows[t])
  IN [front |-> LastArrival(prev.front, {rows[s].first : s \in at}),
      tail |-> LastArrival(prev.tail, {rows[s].last : s \in at}),
      rows |-> [prev.rows EXCEPT ![t] = rows]]
Walk(plan, d) ==
  LET order == InSequence(plan.trials)
      step[k \in 0..Len(order)] ==
        IF k = 0 THEN [front |-> Null, tail |-> Null, rows |-> d.rows]
        ELSE WalkTrial(plan, d, order[k], step[k - 1])
  IN step[Len(order)].rows

(* Trials and entries are read one after the other; between the two the plan *)
(* is as outdated as when the change comes after both.                       *)
Read(d) == [race |-> d.race, trials |-> d.trials, entries |-> d.entries, place |-> d.place,
            track |-> IF Live(d) = {} THEN NoTrack ELSE TrackOf(d, Head(InSequence(d.trials)))]
Idle(plan) == ~plan.race \/ plan.entries = <<>> \/ \A t \in Trials : plan.trials[t] = NoTrial
Recomputed(plan, d) == IF Idle(plan) THEN d ELSE [d EXCEPT !.rows = Walk(plan, d)]
(* The plan may hold a trial or a station that is gone: its rows are refused. *)
Orphans(plan, d) ==
  \E t \in Trials, s \in Stations :
    (t \notin Live(d) \/ s \notin d.vs) /\ Recomputed(plan, d).rows[t][s] # d.rows[t][s]
-----------------------------------------------------------------------------
(* The handlers.  Answer(ok, d): the tables they leave; a refusal leaves     *)
(* them as they are.                                                         *)
Answer(ok, d) == [ok |-> ok, db |-> d]
Taken(trials, seq, others) == \E u \in others : trials[u] # NoTrial /\ trials[u].seq = seq

CreateTrial(d, seq) ==
  IF ~d.race \/ Taken(d.trials, seq, Trials) THEN Answer(FALSE, d)
  ELSE Answer(TRUE, [d EXCEPT !.born = d.born + 1,
                              !.trials[d.born + 1] = [seq |-> seq, start |-> Null, front |-> 2, tail |-> 1]])

(* A field that is null is not sent on: it keeps its value.                  *)
PatchTrial(d, t, patch) ==
  IF t \notin Live(d) THEN Answer(FALSE, d)
  ELSE LET start == IF patch.start = Null THEN d.trials[t].start ELSE patch.start
           trial == [d.trials[t] EXCEPT !.start = start, !.front = patch.front, !.tail = patch.tail]
       IN  Answer(TRUE, [d EXCEPT !.trials[t] = trial])

(* The rows go with their trial, its files stay with the race.               *)
DeleteTrial(d, t) ==
  IF t \notin Live(d) THEN Answer(FALSE, d)
  ELSE Answer(TRUE, [d EXCEPT !.trials[t] = NoTrial,
                              !.rows[t] = [s \in Stations |-> NoRow(d.rows[t][s].n)],
                              !.files = {IF f.trial = t THEN [f EXCEPT !.trial = 0] ELSE f : f \in @}])

(* Reorder: every UPDATE is checked against UNIQUE(race_id, sequence) on its *)
(* own, so that the numbers are first moved out of the way.                  *)
Numbered(order) == [i \in DOMAIN order |-> [trial |-> order[i], sequence |-> i - 1]]
Refused == <<>>
SetSequence(trials, item) ==
  IF trials = Refused \/ trials[item.trial] = NoTrial THEN trials
  ELSE IF Taken(trials, item.sequence, Trials \ {item.trial}) THEN Refused
  ELSE [trials EXCEPT ![item.trial].seq = item.sequence]
(* Mutant: the numbers are set at once.                                      *)
OnePhase(items) == items
Phases(items) ==
  [i \in DOMAIN items |-> [trial |-> items[i].trial, sequence |-> Temporary + i - 1]] \o items
Reorder(d, items) ==
  LET updates == Phases(items)
      set[i \in 0..Len(updates)] ==
        IF i = 0 THEN d.trials ELSE SetSequence(set[i - 1], updates[i])
      trials == set[Len(updates)]
  IN  IF trials = Refused THEN Answer(FALSE, d) ELSE Answer(TRUE, [d EXCEPT !.trials = trials])

UploadGPX(d, t, track) ==
  IF t \notin Live(d) THEN Answer(FALSE, d)
  ELSE Answer(TRUE, [d EXCEPT !.uploads = d.uploads + 1,
                              !.files = @ \cup {[id |-> d.uploads + 1, trial |-> t, track |-> track]}])
DeleteGPX(d, t, id) ==
  LET file(f) == f.id = id /\ f.trial = t IN
  IF t \notin Live(d) \/ ~\E f \in d.files : file(f) THEN Answer(FALSE, d)
  ELSE Answer(TRUE, [d EXCEPT !.files = {f \in @ : ~file(f)}])

(* Replace: the whole list, UNIQUE(race_id, vs_id), of stations there are.   *)
ReplaceList(d, list) ==
  IF list # <<>> /\ (~d.race \/ ~IsInjective(list) \/ ~(Range(list) \subseteq d.vs)) THEN Answer(FALSE, d)
  ELSE Answer(TRUE, [d EXCEPT !.entries = list])

MoveVS(d, s, place) ==
  IF s \notin d.vs THEN Answer(FALSE, d) ELSE Answer(TRUE, [d EXCEPT !.place[s] = place])
(* A station leaves the list of the race, and its rows go with it.           *)
Unlisted(list, s) == IF s \in Range(list) THEN RemoveAt(list, CHOOSE i \in DOMAIN list : list[i] = s) ELSE list
RowsWithout(rows, s) == [t \in Trials |-> [rows[t] EXCEPT ![s] = NoRow(rows[t][s].n)]]
DeleteVS(d, s) ==
  IF s \notin d.vs THEN Answer(FALSE, d)
  ELSE Answer(TRUE, [d EXCEPT !.vs = d.vs \ {s}, !.entries = Unlisted(d.entries, s),
                              !.rows = RowsWithout(d.rows, s)])
(* The row is found by its id: one deleted meanwhile is not.                 *)
PatchTrialVSRow(d, t, s, n, source) ==
  IF d.rows[t][s].source = "none" \/ d.rows[t][s].n # n THEN Answer(FALSE, d)
  ELSE Answer(TRUE, [d EXCEPT !.rows[t][s].source = source])
DeleteRace(d) ==
  IF ~d.race THEN Answer(FALSE, d)
  ELSE Answer(TRUE, [d EXCEPT !.race = FALSE, !.trials = [t \in Trials |-> NoTrial], !.entries = <<>>,
                              !.files = {},
                              !.rows = [t \in Trials |-> [s \in Stations |-> NoRow(d.rows[t][s].n)]]])

Handled(d, call) ==
  CASE call.op = "create" -> CreateTrial(d, call.sequence)
    [] call.op = "patch" -> PatchTrial(d, call.trial, call.patch)
    [] call.op = "delete" -> DeleteTrial(d, call.trial)
    [] call.op = "reorder" -> Reorder(d, call.items)
    [] call.op = "upload" -> UploadGPX(d, call.trial, call.track)
    [] call.op = "delete gpx" -> DeleteGPX(d, call.trial, call.file)
    [] call.op = "list" -> ReplaceList(d, call.list)
    [] call.op = "move" -> MoveVS(d, call.vs, call.place)
    [] call.op = "delete vs" -> DeleteVS(d, call.vs)
    [] call.op = "row" -> PatchTrialVSRow(d, call.trial, call.vs, call.n, call.source)
    [] call.op = "delete race" -> DeleteRace(d)

(* Every handler but the one of a row recomputes the race; a station that    *)
(* moves only where the race lists it, a race that is gone not at all.  The  *)
(* deletion of a station looks for the races that list it when none does.    *)
Recomputes(d, call) ==
  /\ call.op \notin {"row", "delete race", "delete vs"}
  /\ call.op = "move" => call.vs \in Range(d.entries)
-----------------------------------------------------------------------------
(* What the tables ask for, said without the walk: the start of the front in *)
(* the k-th trial is the latest of the scheduled starts up to it, each with  *)
(* the time the trials in between take, where a trial takes time when a      *)
(* station that counts lies on its track.                                    *)
Counted(d, t) == {s \in Range(d.entries) : /\ d.rows[t][s].source # "manual_exclude"
                                           /\ NearestOnTrack(TrackOf(d, t), d.place[s]) # Off}
Takes(d, t, pace) == Counted(d, t) # {} /\ pace > 0
Span(d, t, pace) ==
  IF Takes(d, t, pace)
  THEN Max({NearestOnTrack(TrackOf(d, t), d.place[s]) : s \in Counted(d, t)}) \div pace
  ELSE 0
Elapsed(spans) ==
  LET sum[i \in 0..Len(spans)] == IF i = 0 THEN 0 ELSE sum[i - 1] + spans[i] IN sum
EnvelopeStart(d, k, pace) ==
  LET order == InSequence(d.trials)
      elapsed == Elapsed([i \in DOMAIN order |-> Span(d, order[i], pace[order[i]])])
      start(j) == d.trials[order[j]].start
      from == {j \in 1..k : /\ start(j) # Null
                            /\ j = k \/ Takes(d, order[j], pace[order[j]])}
  IN IF from = {} THEN Null ELSE Max({start(j) + elapsed[k - 1] - elapsed[j - 1] : j \in from})

(* A station no other one lies beyond, of a trial another one follows: only   *)
(* a recompute takes back the time up to it.                                 *)
Followed(d, t) == \E u \in Live(d) : d.trials[t].seq < d.trials[u].seq
Farthest(d, t, s) ==
  LET At(x) == NearestOnTrack(TrackOf(d, t), d.place[x])
  IN  s \in Counted(d, t) /\ \A x \in Counted(d, t) \ {s} : At(x) < At(s)
LeavesDelay(d, call) ==
  call.op = "delete vs" /\ \E t \in Live(d) : Followed(d, t) /\ Farthest(d, t, call.vs)

Fronts(d) == [t \in Trials |-> d.trials[t].front]
Tails(d) == [t \in Trials |-> d.trials[t].tail]
(* The rows of listed, counted stations and of trials with a track are the   *)
(* ones the tables ask for; what else there may be is left from earlier.     *)
RowIsExact(d, k, s) ==
  LET t == InSequence(d.trials)[k]
      row == d.rows[t][s]
      dist == NearestOnTrack(TrackOf(d, t), d.place[s])
  IN TrackOf(d, t) # NoTrack /\ row.source # "manual_exclude" =>
       IF dist = Off
       THEN row.source \in {"none", "manual_include"} /\ row.first = Null /\ row.last = Null
       ELSE /\ row.source # "none" /\ row.dist = dist
            /\ row.first = Arrival(EnvelopeStart(d, k, Fronts(d)), dist, d.trials[t].front)
            /\ row.last = Arrival(EnvelopeStart(d, k, Tails(d)), dist, d.trials[t].tail)
Exact(d) == \A k \in DOMAIN InSequence(d.trials), s \in Range(d.entries) : RowIsExact(d, k, s)

NatOrNull == Nat \cup {Null}
TrialRow == [seq : Nat, start : NatOrNull, front : Nat, tail : Nat]
TrialTables == [Trials -> {NoTrial} \cup TrialRow]
Files == [id : Nat, trial : Trials \cup {0}, track : Tracks]
StationRows ==
  [Stations -> [source : Sources, dist : NatOrNull, first : NatOrNull, last : NatOrNull, n : Nat]]
Databases ==
  [race : BOOLEAN, born : 0..Cardinality(Trials), trials : TrialTables,
   uploads : Nat, files : SUBSET Files, vs : SUBSET Stations, entries : Seq(Stations),
   place : [Stations -> Places], rows : [Trials -> StationRows]]

(* The two UNIQUE keys, the foreign key of a list, and what CASCADE leaves   *)
(* of a race that is gone.                                                   *)
Consistent(d) ==
  /\ IsInjective(d.entries) /\ Range(d.entries) \subseteq d.vs
  /\ \A t, u \in Live(d) : d.trials[t].seq = d.trials[u].seq => t = u
  /\ ~d.race => Live(d) = {} /\ d.entries = <<>>
=============================================================================
