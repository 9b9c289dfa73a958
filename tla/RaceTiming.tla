----------------------------- MODULE RaceTiming -----------------------------
(***************************************************************************)
(* The server's side of the race pages, requests overlapping: each commits *)
(* its change, then reads the race, then rewrites the passages in one      *)
(* transaction, which fails when another writer is in the way.  Only the   *)
(* change is sure: a failed recompute answers 500 (or, after a move, is    *)
(* logged) and is not tried again.                                         *)
(***************************************************************************)
EXTENDS RaceTables

CONSTANTS
  Requests       \* the requests of a behaviour: 1..n, served in this order

ASSUME RequestsAssumption == Requests \subseteq Nat

VARIABLES
  reading,       \* what each request has read: at most one plan
  waiting,       \* the requests that are to read, or to write
  served,        \* how many requests have committed their change
  current,       \* history: requests whose plan is not outdated
  spoiled        \* history: a recompute failed, was outdated when it committed, or was due and not run

timingVars == <<db, reading, waiting, served, current, spoiled>>
-----------------------------------------------------------------------------
(* The requests: any change a page can ask for.                              *)
Lists(d) ==
  {Append(d.entries, s) : s \in Stations \ Range(d.entries)}
  \cup {RemoveAt(d.entries, i) : i \in DOMAIN d.entries}
Patches(d) ==
  {[op |-> "patch", trial |-> t, patch |-> [start |-> at, front |-> 2, tail |-> pace]] :
     t \in Live(d), at \in Times, pace \in Paces}
Uploads(d) ==
  {[op |-> "upload", trial |-> t, track |-> track] : t \in Live(d), track \in Tracks}
Moves == {[op |-> "move", vs |-> s, place |-> p] : s \in Stations, p \in Places}
Chips(d) ==
  {[op |-> "row", trial |-> t, vs |-> s, n |-> d.rows[t][s].n, source |-> source] :
     t \in Live(d), s \in Stations, source \in Sources \ {"none"}}
SomeCall(d) ==
  {[op |-> "create", sequence |-> n] : n \in {x \in {Cardinality(Live(d))} : d.born < Cardinality(Trials)}}
  \cup Patches(d) \cup Uploads(d) \cup Moves \cup Chips(d)
  \cup {[op |-> "delete", trial |-> t] : t \in Live(d)}
  \cup {[op |-> "delete gpx", trial |-> f.trial, file |-> f.id] : f \in d.files}
  \cup {[op |-> "reorder", items |-> Numbered(Reverse(InSequence(d.trials)))]}
  \cup {[op |-> "list", list |-> list] : list \in Lists(d)}
  \cup {[op |-> "delete vs", vs |-> s] : s \in d.vs}
  \cup {[op |-> "delete race"]}

Serve(r) ==
  /\ r = served + 1
  /\ \E call \in SomeCall(db) :
       LET answer == Handled(db, call) IN
       /\ answer.ok /\ answer.db # db
       /\ db' = answer.db
       /\ waiting' = IF Recomputes(db, call) THEN waiting \cup {r} ELSE waiting
       /\ current' = IF call.op = "row" THEN current ELSE {}
       /\ spoiled' = (spoiled \/ call.op = "row" \/ LeavesDelay(db, call))
  /\ served' = r
  /\ UNCHANGED reading

ReadRace(r) ==
  /\ r \in waiting /\ reading[r] = {}
  /\ reading' = [reading EXCEPT ![r] = {Read(db)}]
  /\ current' = current \cup {r}
  /\ UNCHANGED <<db, waiting, served, spoiled>>

Finish(r) ==
  /\ reading' = [reading EXCEPT ![r] = {}]
  /\ waiting' = waiting \ {r}
  /\ current' = current \ {r}
  /\ UNCHANGED served

RecomputeRace(r) ==
  /\ r \in waiting
  /\ \E plan \in reading[r] : ~Orphans(plan, db) /\ db' = Recomputed(plan, db)
  /\ spoiled' = (r \notin current)
  /\ Finish(r)

(* Two writers at once: no busy_timeout, the second one fails.               *)
Fail(r) ==
  /\ r \in waiting
  /\ \E plan \in reading[r] : Orphans(plan, db) \/ waiting # {r}
  /\ Finish(r)
  /\ spoiled' = TRUE /\ UNCHANGED db

TimingInit ==
  /\ reading = [r \in Requests |-> {}]
  /\ waiting = {} /\ served = 0 /\ current = {}
  /\ spoiled = ~Exact(db)
TimingNext == \E r \in Requests : Serve(r) \/ ReadRace(r) \/ RecomputeRace(r) \/ Fail(r)

TimingTypeOK ==
  /\ db \in Databases
  /\ \A r \in Requests : reading[r] # {} => r \in waiting
  /\ current \subseteq waiting /\ waiting \subseteq 1..served
  /\ spoiled \in BOOLEAN
-----------------------------------------------------------------------------
(* When nothing is under way, and since the last recompute that failed, or   *)
(* committed what others had outdated, or a row chosen by hand, or a station *)
(* deleted that was the last on the way of a trial others follow (neither    *)
(* handler recomputes anything), another one has committed: the passages are *)
(* those that trials, tracks, list and places ask for, with the delays of    *)
(* one trial handed on to all that follow.                                   *)
QuietRowsAreExact == waiting = {} /\ ~spoiled => Exact(db)

(* A row a user included or excluded stays so through every recompute, late  *)
(* or overlapping ones too, and whatever is done to the tracks and the list, *)
(* until it is chosen anew, or its trial or station deleted.                 *)
Chosen(d, t, s) == d.rows[t][s].source \in {"manual_include", "manual_exclude"}
ChoicesOutliveRecomputes ==
  [][(\E r \in Requests : RecomputeRace(r)) =>
       \A t \in Trials, s \in Stations :
         Chosen(db, t, s) => /\ db'.rows[t][s].source = db.rows[t][s].source
                             /\ db'.rows[t][s].n = db.rows[t][s].n]_timingVars
=============================================================================
