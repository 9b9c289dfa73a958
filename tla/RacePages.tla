----------------------------- MODULE RacePages -----------------------------
(***************************************************************************)
(* The page of one race in the browser: its trials, their cards and the    *)
(* list of its stations (RaceDetail.tsx, TrialCard.tsx).  Whatever it      *)
(* sends is computed from what it shows, which another browser, or an      *)
(* answer that has not come yet, may have outdated.  Here a request and    *)
(* its recompute are one step; how they overlap is RaceTiming's matter.    *)
(***************************************************************************)
EXTENDS RaceTables

CONSTANTS
  MaxCalls,       \* bound: mutations sent by this page
  MaxElsewhere    \* bound: mutations of other browsers

VARIABLES
  shownTrials,    \* useTrials: the table as it was read
  shownList,      \* useRaceVS
  card,           \* the expanded card and its form, at most one; and its queries
  calls,          \* requests of the page, sent or answered
  sent, elsewhere

pageVars == <<db, shownTrials, shownList, card, calls, sent, elsewhere>>

NotLoaded == <<>>
(* of and opened, history: what the form was opened on.                      *)
Form(trial, row) ==
  [trial |-> trial, of |-> trial, start |-> row.start, front |-> row.front, tail |-> row.tail,
   opened |-> row, edited |-> {}, files |-> {}, rows |-> NotLoaded]
-----------------------------------------------------------------------------
(* Queries.  The card of a trial goes with the trial.                        *)
(* Mutant: the cards are told apart by their position.                       *)
CardsByPosition(seen) ==
  LET At(c) == Cardinality({t \in Trials : shownTrials[t] # NoTrial /\ shownTrials[t].seq <= c.opened.seq})
  IN {[c EXCEPT !.trial = InSequence(seen)[At(c)]] : c \in {d \in card : At(d) \in DOMAIN InSequence(seen)}}
(* Mutant: the card of a deleted trial stays.                                *)
CardsKept(seen) == card
Cards(seen) == {c \in card : seen[c.trial] # NoTrial}
ShowTrials(seen) == shownTrials' = seen /\ card' = Cards(seen)

LoadTrials ==
  /\ shownTrials # db.trials /\ ShowTrials(db.trials)
  /\ UNCHANGED <<db, shownList, calls, sent, elsewhere>>
LoadList ==
  /\ shownList # db.entries /\ shownList' = db.entries
  /\ UNCHANGED <<db, shownTrials, card, calls, sent, elsewhere>>
LoadCard ==
  /\ \E c \in card : card' = {[c EXCEPT !.files = FilesOf(db, c.trial), !.rows = db.rows[c.trial]]}
  /\ UNCHANGED <<db, shownTrials, shownList, calls, sent, elsewhere>>

(* TrialCard: "Modifier" mounts a form on the trial as it is shown.          *)
Expand(t) ==
  /\ card = {} /\ shownTrials[t] # NoTrial
  /\ card' = {Form(t, shownTrials[t])}
  /\ UNCHANGED <<db, shownTrials, shownList, calls, sent, elsewhere>>
Collapse ==
  /\ card # {} /\ card' = {}
  /\ UNCHANGED <<db, shownTrials, shownList, calls, sent, elsewhere>>
(* Bound: one field edited.                                                  *)
Edit ==
  /\ \E c \in card : 
       /\ c.edited = {}
       /\ \/ \E at \in Times \cup {Null} : card' = {[c EXCEPT !.start = at, !.edited = {"start"}]}
          \/ \E pace \in Paces : card' = {[c EXCEPT !.tail = pace, !.edited = {"tail"}]}
  /\ UNCHANGED <<db, shownTrials, shownList, calls, sent, elsewhere>>
-----------------------------------------------------------------------------
(* Mutations.  seen is what the request was computed from.                   *)
Send(call, seen) ==
  /\ sent < MaxCalls /\ sent' = sent + 1
  /\ calls' = calls \cup {[n |-> sent + 1, call |-> call, seen |-> seen, answer |-> "none", reply |-> <<>>]}
  /\ UNCHANGED <<db, shownTrials, shownList, card, elsewhere>>
Pending(op) == \E c \in calls : c.call.op = op

arrayMove(order, from, to) == InsertAt(RemoveAt(order, from), to, order[from])

DragTrial ==
  LET order == InSequence(shownTrials) IN
  \E from, to \in DOMAIN order :
    from # to /\ Send([op |-> "reorder", items |-> Numbered(arrayMove(order, from, to))], shownTrials)
(* Mutant: the new trial takes the last number there is.                     *)
AddTrialOnLast ==
  /\ ~Pending("create") /\ db.born < Cardinality(Trials)
  /\ Send([op |-> "create", sequence |-> Later(Len(InSequence(shownTrials)) - 1, 0)], shownTrials)
AddTrial ==
  /\ ~Pending("create") /\ db.born < Cardinality(Trials)
  /\ Send([op |-> "create", sequence |-> Len(InSequence(shownTrials))], shownTrials)

(* TrialForm: every field is sent, a start left empty as null.               *)
Submit ==
  \E c \in card :
    /\ ~Pending("patch")
    /\ Send([op |-> "patch", trial |-> c.trial,
             patch |-> [start |-> c.start, front |-> c.front, tail |-> c.tail]],
            [of |-> c.of, opened |-> c.opened, start |-> c.start, edited |-> c.edited])
DeleteCard == \E c \in card : ~Pending("delete") /\ Send([op |-> "delete", trial |-> c.trial], <<>>)

(* The file input is there as long as no file is known.                      *)
(* Mutant: it is there whatever is known.                                    *)
UploadAlways ==
  \E c \in card, track \in Tracks :
    /\ ~Pending("upload")
    /\ Send([op |-> "upload", trial |-> c.trial, track |-> track], c.files)
Upload ==
  \E c \in card, track \in Tracks :
    /\ c.files = {} /\ ~Pending("upload")
    /\ Send([op |-> "upload", trial |-> c.trial, track |-> track], c.files)
RemoveFile ==
  \E c \in card :
    /\ c.files # {}
    /\ Send([op |-> "delete gpx", trial |-> c.trial, file |-> Oldest(c.files).id], <<>>)

nextSource(source) ==
  CASE source = "auto" -> "manual_include"
    [] source = "manual_include" -> "manual_exclude"
    [] source = "manual_exclude" -> "auto"
ClickChip ==
  \E c \in card : c.rows # NotLoaded /\ \E s \in Stations :
    /\ c.rows[s].source # "none"
    /\ Send([op |-> "row", trial |-> c.trial, vs |-> s, n |-> c.rows[s].n,
             source |-> nextSource(c.rows[s].source)], <<>>)

(* VSListSection: the list as it is shown, with one station added, taken    *)
(* out or dragged.                                                           *)
SendList(list, s) == Send([op |-> "list", list |-> list], [list |-> shownList, vs |-> s])
AddVS == \E s \in Stations \ Range(shownList) : SendList(Append(shownList, s), s)
(* Mutant: the place of a station in the list is taken for its id.           *)
RemoveVSAt == \E s \in Range(shownList) \cap DOMAIN shownList : SendList(RemoveAt(shownList, s), s)
RemoveVS == \E i \in DOMAIN shownList : SendList(RemoveAt(shownList, i), shownList[i])
DragVS ==
  \E from, to \in DOMAIN shownList : from # to /\ SendList(arrayMove(shownList, from, to), shownList[from])
-----------------------------------------------------------------------------
(* The server, and the answers.  A recompute that fails leaves the change    *)
(* and an error.                                                             *)
After(d, call) ==
  LET answer == Handled(d, call) IN
  IF answer.ok /\ Recomputes(d, call) THEN Recomputed(Read(answer.db), answer.db) ELSE answer.db
Served(c, answer) == c.answer = "none" /\ calls' = (calls \ {c}) \cup {answer}
Answered(c) ==
  /\ c.answer = "none" /\ (c.call.op = "create" => db.born < Cardinality(Trials))
  /\ LET answer == Handled(db, c.call) IN
     \/ /\ answer.ok /\ db' = After(db, c.call)
        /\ Served(c, [c EXCEPT !.answer = "ok",
             !.reply = IF c.call.op = "reorder" THEN db'.trials
                                  ELSE IF c.call.op = "list" THEN db'.entries ELSE <<>>])
     \/ /\ answer.ok /\ Recomputes(db, c.call) /\ db' = answer.db
        /\ Served(c, [c EXCEPT !.answer = "error"])
     \/ /\ ~answer.ok /\ db' = db /\ Served(c, [c EXCEPT !.answer = "error"])
  /\ UNCHANGED <<shownTrials, shownList, card, sent, elsewhere>>

(* Two answers carry the list they leave; the other hooks invalidate.        *)
Settle(c) ==
  /\ c.answer # "none" /\ calls' = calls \ {c}
  /\ IF c.answer = "ok" /\ c.call.op = "reorder" THEN ShowTrials(c.reply) ELSE UNCHANGED <<shownTrials, card>>
  /\ shownList' = IF c.answer = "ok" /\ c.call.op = "list" THEN c.reply ELSE shownList
  /\ UNCHANGED <<db, sent, elsewhere>>

(* Another browser's requests: on the trials, the tracks or the list.        *)
Elsewhere(others) ==
  /\ elsewhere < MaxElsewhere /\ elsewhere' = elsewhere + 1
  /\ \E call \in others : db' = After(db, call) /\ db' # db
  /\ UNCHANGED <<shownTrials, shownList, card, calls, sent>>
TrialsElsewhere ==
  {[op |-> "delete", trial |-> t] : t \in Live(db)}
  \cup {[op |-> "reorder", items |-> Numbered(Reverse(InSequence(db.trials)))]}
  \cup {[op |-> "create", sequence |-> n] :
          n \in {m \in {Cardinality(Live(db))} : db.born < Cardinality(Trials)}}
TracksElsewhere ==
  {[op |-> "delete", trial |-> t] : t \in Live(db)}
  \cup {[op |-> "upload", trial |-> t, track |-> track] : t \in Live(db), track \in Tracks}
ListElsewhere ==
  {[op |-> "list", list |-> RemoveAt(db.entries, i)] : i \in DOMAIN db.entries}
  \cup {[op |-> "delete vs", vs |-> s] : s \in db.vs}

PageInit ==
  /\ shownTrials = db.trials /\ shownList = db.entries
  /\ card = {} /\ calls = {} /\ sent = 0 /\ elsewhere = 0
(* What a session works on.                                                  *)
Traffic == \E c \in calls : Answered(c) \/ Settle(c)
CardNext == LoadTrials \/ (\E t \in Trials : Expand(t)) \/ Collapse \/ DeleteCard
OrderNext == CardNext \/ DragTrial \/ AddTrial \/ Elsewhere(TrialsElsewhere)
FormNext == CardNext \/ Edit \/ Submit \/ Elsewhere(TrialsElsewhere)
TrackNext == CardNext \/ LoadCard \/ Upload \/ RemoveFile \/ ClickChip \/ Elsewhere(TracksElsewhere)
ListNext == LoadList \/ AddVS \/ RemoveVS \/ DragVS \/ Elsewhere(ListElsewhere)

PageTypeOK ==
  /\ \A t \in Trials : shownTrials[t] # NoTrial => shownTrials[t].seq \in Nat
  /\ shownList \in Seq(Stations)
  /\ \A c \in card : shownTrials[c.trial] # NoTrial /\ c.edited \subseteq {"start", "tail"}
  /\ \A c \in calls : c.n \in 1..sent
-----------------------------------------------------------------------------
(* A request of op served now; current when what it was computed from is.    *)
Serving(c, op) == c.call.op = op /\ c.answer = "none" /\ \E a \in calls' \ calls : a.n = c.n

(* A drag from the order the server still has is accepted, through all the   *)
(* numbers it swaps, and is the order there is afterwards.                   *)
OrderAsked(items) == [i \in DOMAIN items |-> items[i].trial]
DraggedOrderHolds ==
  [][\A c \in calls : Serving(c, "reorder") /\ c.seen = db.trials =>
       InSequence(db'.trials) = OrderAsked(c.call.items)]_pageVars

(* "Ajouter une épreuve" on a page that shows what there is fails only over  *)
(* a hole in the numbers, as the deletion of a trial leaves it.              *)
AddsFailOnlyOverAHole ==
  [][\A c \in calls : Serving(c, "create") /\ c.seen = db.trials /\ db' = db =>
       {db.trials[t].seq : t \in Live(db)} # 0..(Cardinality(Live(db)) - 1)]_pageVars

(* A track uploaded on a card that shows the trial's files as they are is    *)
(* the one the trial is timed with.                                          *)
FreshUploadsCount ==
  [][\A c \in calls : /\ Serving(c, "upload") /\ c.seen = FilesOf(db, c.call.trial)
                      /\ c.call.trial \in Live(db)
       => TrackOf(db', c.call.trial) = c.call.track]_pageVars

(* A list edited from the one the server has changes in the station that was *)
(* added, taken out or dragged only: all the others stay, in their order.    *)
(* No station is in a list twice.                                            *)
Precedes(list, x, y) == \E i, j \in DOMAIN list : i <= j /\ list[i] = x /\ list[j] = y
FreshListsKeepTheRest ==
  [][\A c \in calls : Serving(c, "list") /\ c.seen.list = db.entries =>
       \A x, y \in Stations \ {c.seen.vs} :
         Precedes(db'.entries, x, y) <=> Precedes(db.entries, x, y)]_pageVars

(* The form of a card saves to the trial it was opened on, whatever is       *)
(* dragged, added or deleted around it: a field left alone keeps the value   *)
(* of that trial when nothing else changed it, and a start once set cannot   *)
(* be emptied.                                                               *)
FormsSaveTheirOwnTrial ==
  [][\A c \in calls : Serving(c, "patch") =>
       LET t == c.call.trial IN
       /\ t = c.seen.of
       /\ c.seen.start = Null => db'.trials[t].start = db.trials[t].start
       /\ db.trials[t] = [c.seen.opened EXCEPT !.seq = db.trials[t].seq] =>
            /\ "start" \notin c.seen.edited => db'.trials[t].start = db.trials[t].start
            /\ "tail" \notin c.seen.edited => db'.trials[t].tail = db.trials[t].tail]_pageVars
=============================================================================
