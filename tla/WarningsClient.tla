---------------------------- MODULE WarningsClient ----------------------------
(***************************************************************************)
(* The warnings the browser shows.  They are one entry of the query cache:  *)
(* GET /api/warnings replaces it, and every answer that carries an envelope *)
(* is merged into it without a refetch.  Nothing orders the two.            *)
(***************************************************************************)
EXTENDS WarningsServer

VARIABLES
  view,       \* the entry: [loaded, rows], loaded FALSE while it has no data
  fetch,      \* the GET: [pc, rows], pc "idle", "sent" or "answered"
  calm        \* history: since the last fetch that ran alone began, nothing
              \* has overlapped and every envelope was merged into a list

vars == <<serverVars, view, fetch, calm>>

(* Mutant: a fetch that ended is left in a state of its own.                 *)
EndedFetch == [pc |-> "ended", rows |-> {}]
NoFetch == [pc |-> "idle", rows |-> {}]
AllQuiet == Quiet /\ fetch.pc = "idle"

(* The panel and the counter mount with the page and fetch at once.         *)
Init ==
  /\ ServerInit
  /\ view = [loaded |-> FALSE, rows |-> {}]
  /\ fetch = [pc |-> "sent", rows |-> {}]
  /\ calm = TRUE

(* A mutation is sent.                                                      *)
Send(r) ==
  /\ Begin(r)
  /\ calm' = (calm /\ AllQuiet)
  /\ UNCHANGED <<view, fetch>>

(* The server goes on with a request.  A failed LoadIDs makes the envelope   *)
(* say that every warning is new and none is gone.                          *)
ServerStep(r) ==
  /\ \/ Commit(r) \/ HandlerSucceeds(r) \/ HandlerRefuses(r) \/ Recompute(r)
  /\ calm' = (calm /\ (LoadIDs(r) => req'[r].prev = WarningIds(cache)))
  /\ UNCHANGED <<view, fetch>>

(* Mutant: the removed ids are ignored.                                     *)
MergeAdded(shown, added, removed) ==
  {w \in shown : w.id \notin WarningIds(added)} \cup added
(* unwrapMutationResponse hands the envelope to applyDiff: out with the      *)
(* removed, in with the added, into an empty list when there is none yet.    *)
Merge(shown, added, removed) ==
  {w \in shown : w.id \notin removed \cup WarningIds(added)} \cup added
ApplyDiff(r) ==
  /\ req[r].pc = "reply"
  /\ Respond(r)
  /\ view' = IF req[r].wrapped
             THEN [loaded |-> TRUE,
                   rows |-> Merge(view.rows, req[r].added, req[r].removed)]
             ELSE view
  /\ calm' = (calm /\ (req[r].wrapped => view.loaded))
  /\ UNCHANGED fetch

(* The answer of a mutation is lost.                                        *)
LoseAnswer(r) ==
  /\ req[r].pc = "reply"
  /\ Respond(r)
  /\ calm' = (calm /\ ~req[r].wrapped)
  /\ UNCHANGED <<view, fetch>>

(* The query is stale, or has never had data, when a component mounts.      *)
StartFetch ==
  /\ fetch.pc = "idle"
  /\ fetch' = [fetch EXCEPT !.pc = "sent"]
  /\ calm' = Quiet
  /\ UNCHANGED <<serverVars, view>>

AnswerFetch ==
  /\ fetch.pc = "sent"
  /\ fetch' = [pc |-> "answered", rows |-> cache]
  /\ UNCHANGED <<serverVars, view, calm>>

TakeFetch ==
  /\ fetch.pc = "answered"
  /\ view' = [loaded |-> TRUE, rows |-> fetch.rows]
  /\ fetch' = NoFetch
  /\ UNCHANGED <<serverVars, calm>>

(* After its retries the query keeps what it had.                           *)
FetchFails ==
  /\ fetch.pc # "idle"
  /\ fetch' = NoFetch
  /\ calm' = FALSE
  /\ UNCHANGED <<serverVars, view>>

Next ==
  \/ \E r \in Requests : Send(r) \/ ServerStep(r) \/ ApplyDiff(r) \/ LoseAnswer(r)
  \/ StartFetch \/ AnswerFetch \/ TakeFetch \/ FetchFails

Spec == Init /\ [][Next]_vars

-------------------------------------------------------------------------------
TypeOK ==
  /\ ServerTypeOK
  /\ view \in [loaded : BOOLEAN, rows : SUBSET Warnings]
  /\ fetch \in [pc : {"idle", "sent", "answered"}, rows : SUBSET Warnings]
  /\ calm \in BOOLEAN

(* Envelopes that do not overlap, merged one after the other, keep the list  *)
(* shown the list the server keeps: id for id, so that the issue count and   *)
(* the badges are right without a refetch.                                  *)
MergedIdsFollowCache ==
  calm /\ AllQuiet /\ view.loaded => WarningIds(view.rows) = WarningIds(cache)

(* And warning for warning: the text shown is the text the server keeps.     *)
(* "Two identical situations -> same ID; small diff -> different ID."        *)
MergedTextsFollowCache ==
  calm /\ AllQuiet /\ view.loaded => view.rows = cache
===============================================================================
