---------------------------- MODULE WarningsServer ----------------------------
(***************************************************************************)
(* The recompute of the warnings around every mutation.  The middleware     *)
(* lets the handler run, and when it answered 2xx reads the ids in the      *)
(* warnings table, then the planning tables one query after the other, runs *)
(* the engine, replaces the warnings table in one transaction, and answers  *)
(* with the difference.  Nothing serialises two requests, and the queries   *)
(* of one read share no transaction.                                        *)
(***************************************************************************)
EXTENDS Integers, FiniteSets

CONSTANTS
  Requests,     \* request slots: how many mutations overlap
  TableCount,   \* how many planning tables the engine reads, in order 1, 2, ...
  Versions,     \* the contents a table can have
  Empty,        \* the content without a row
  Optional,     \* the tables whose failed query passes for an empty table
  Warnings,     \* the warnings there are: [id, text]
  Engine,       \* what constraints.Compute returns for the tables' contents
  Clashes,      \* contents for which its list has one id twice
  None

Tables == 1 .. TableCount
Contents == [Tables -> Versions]

ASSUME TableCountAssumption == TableCount \in Nat \ {0}
ASSUME EngineAssumption == Engine \in [Contents -> SUBSET Warnings]
ASSUME NoneIsNoRequest == None \notin Requests
ASSUME NoneIsNoContent == None \notin Versions
ASSUME OptionalAssumption == Optional \subseteq Tables /\ Empty \in Versions

VARIABLES
  db,         \* the planning tables
  cache,      \* the warnings table
  req,        \* what each request slot is doing
  writer,     \* history: the request that committed to db last
  recompute,  \* history: what became of writer's recompute
  blind       \* history: the tables whose query failed in that recompute

serverVars == <<db, cache, req, writer, recompute, blind>>

(* pc    "handler": inside next.ServeHTTP; "ids", "load", "persist": the     *)
(*       recompute; "reply": the answer is written                          *)
(* prev  the ids LoadIDs returned;  read: the contents read so far           *)
(* unread  the tables whose query failed and that were read as empty         *)
(* wrapped, added, removed: the envelope, when the answer has one            *)
(* recompute: "due" once writer has committed; "done" when it has replaced   *)
(*       the cache, "overwritten" when another request did so after it;      *)
(*       "dropped" when writer was answered without a recompute              *)
Free == [pc |-> "free", prev |-> {}, read |-> [t \in Tables |-> None],
         unread |-> {}, next |-> 1, wrapped |-> FALSE, added |-> {}, removed |-> {}]

WarningIds(ws) == {w.id : w \in ws}
InFlight(r) == req[r].pc # "free"
Quiet == \A r \in Requests : ~InFlight(r)
Move(r, x) == req' = [req EXCEPT ![r] = x]

(* The handler's own answer goes out, without an envelope.                  *)
AnswerBare(r) ==
  /\ Move(r, [Free EXCEPT !.pc = "reply"])
  /\ recompute' = IF writer = r /\ recompute = "due" THEN "dropped" ELSE recompute
  /\ UNCHANGED <<db, cache, writer, blind>>

-------------------------------------------------------------------------------
(* A restart keeps the file: the cache may be of an earlier database.       *)
ServerInit ==
  /\ db \in Contents
  /\ \E old \in Contents : cache = Engine[old]
  /\ req = [r \in Requests |-> Free]
  /\ writer = None
  /\ recompute = "none"
  /\ blind = {}

Begin(r) ==
  /\ req[r].pc = "free"
  /\ Move(r, [Free EXCEPT !.pc = "handler"])
  /\ UNCHANGED <<db, cache, writer, recompute, blind>>

(* One transaction of the handler; some handlers commit several.            *)
Commit(r) ==
  /\ req[r].pc = "handler"
  /\ db' \in Contents \ {db}
  /\ writer' = r
  /\ recompute' = "due"
  /\ UNCHANGED <<cache, req, blind>>

(* The handler answers 2xx: the middleware goes on.                         *)
HandlerSucceeds(r) ==
  /\ req[r].pc = "handler"
  /\ Move(r, [req[r] EXCEPT !.pc = "ids"])
  /\ UNCHANGED <<db, cache, writer, recompute, blind>>

(* The handler answers anything else: passed through, whatever it wrote.    *)
HandlerRefuses(r) ==
  /\ req[r].pc = "handler"
  /\ AnswerBare(r)

(* When the query fails the middleware goes on with no ids.                 *)
LoadIDs(r) ==
  /\ req[r].pc = "ids"
  /\ \E prev \in {WarningIds(cache), {}} :
       Move(r, [req[r] EXCEPT !.pc = "load", !.prev = prev])
  /\ UNCHANGED <<db, cache, writer, recompute, blind>>

(* LoadState reads one table after the other.  Cars, trips, passengers and    *)
(* travel times are "skipped silently if the table doesn't exist": by testing *)
(* err == nil, so whatever the reason their query failed for, the read goes   *)
(* on without a row of them.  (Without the trips, the stops and passengers    *)
(* are not asked for; of no trip, they would tell the engine nothing.)        *)
Take(r, rows, unread) ==
  LET t == req[r].next
  IN  Move(r, [req[r] EXCEPT !.read[t] = rows, !.unread = unread, !.next = t + 1,
                             !.pc = IF t = TableCount THEN "persist" ELSE @])
ReadTable(r) ==
  /\ req[r].pc = "load"
  /\ LET t == req[r].next
     IN  \/ Take(r, db[t], req[r].unread)
         \/ t \in Optional /\ Take(r, Empty, req[r].unread \cup {t})
  /\ UNCHANGED <<db, cache, writer, recompute, blind>>

(* Mutant: the new rows are inserted beside the old ones.                    *)
PersistBeside(r) ==
  /\ req[r].pc = "persist"
  /\ req[r].read \notin Clashes
  /\ cache' = cache \cup Engine[req[r].read]
  /\ Move(r, [Free EXCEPT !.pc = "reply"])
  /\ recompute' = IF writer = r THEN "done" ELSE recompute
  /\ blind' = IF writer = r THEN req[r].unread ELSE blind
  /\ UNCHANGED <<db, writer>>

(* Compute, Persist and the envelope.  An id listed twice breaks the primary *)
(* key of the warnings table and rolls the replacement back.                *)
Persist(r) ==
  /\ req[r].pc = "persist"
  /\ req[r].read \notin Clashes
  /\ LET new == Engine[req[r].read]
         ids == WarningIds(new)
     IN  /\ cache' = new
         /\ Move(r, [Free EXCEPT !.pc = "reply", !.wrapped = TRUE,
                       !.added = {w \in new : w.id \notin req[r].prev},
                       !.removed = req[r].prev \ ids])
  /\ recompute' = IF writer = r THEN "done"
                  ELSE IF recompute = "done" THEN "overwritten" ELSE recompute
  /\ blind' = IF writer = r THEN req[r].unread ELSE blind
  /\ UNCHANGED <<db, writer>>

(* LoadState or Persist fails (the client left and its context is cancelled, *)
(* the database is busy, an id clashes): the handler's answer goes out bare. *)
RecomputeFails(r) ==
  /\ req[r].pc \in {"load", "persist"}
  /\ AnswerBare(r)

Respond(r) ==
  /\ req[r].pc = "reply"
  /\ Move(r, Free)
  /\ UNCHANGED <<db, cache, writer, recompute, blind>>

Recompute(r) == LoadIDs(r) \/ ReadTable(r) \/ Persist(r) \/ RecomputeFails(r)
Handler(r) == Begin(r) \/ Commit(r) \/ HandlerSucceeds(r) \/ HandlerRefuses(r)

ServerNext == \E r \in Requests : Handler(r) \/ Recompute(r) \/ Respond(r)
ServerSpec == ServerInit /\ [][ServerNext]_serverVars

-------------------------------------------------------------------------------
RequestRecord ==
  [pc : {"free", "handler", "ids", "load", "persist", "reply"},
   prev : SUBSET WarningIds(Warnings),
   read : [Tables -> Versions \cup {None}],
   unread : SUBSET Tables,
   next : 1 .. TableCount + 1,
   wrapped : BOOLEAN,
   added : SUBSET Warnings, removed : SUBSET WarningIds(Warnings)]
ServerTypeOK ==
  /\ db \in Contents
  /\ cache \in SUBSET Warnings
  /\ req \in [Requests -> RequestRecord]
  /\ writer \in Requests \cup {None}
  /\ recompute \in {"none", "due", "done", "overwritten", "dropped"}
  /\ blind \in SUBSET Tables

(* When the request that committed last is also the last to have replaced    *)
(* the cache, the cache is what the engine says of the database as it is,    *)
(* however its read interleaved with the other requests: of the whole of it,  *)
(* unless queries failed and passed for empty tables, and then of the rest    *)
(* (an answer that looks like any other).                                    *)
Without(unread) == [t \in Tables |-> IF t \in unread THEN Empty ELSE db[t]]
LastWriterPublishes == recompute = "done" => cache = Engine[Without(blind)]

(* Once the request that committed last has replaced the cache, and nothing  *)
(* is in flight, GET /api/warnings returns the current warnings: a recompute *)
(* that ends later has read the same database.                               *)
QuietCacheIsCurrent ==
  Quiet /\ recompute \in {"done", "overwritten"} => cache = Engine[db]
===============================================================================
