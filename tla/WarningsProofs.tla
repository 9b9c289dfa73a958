---------------------------- MODULE WarningsProofs ----------------------------
(***************************************************************************)
(* Whoever commits last and replaces the cache last leaves it current, and   *)
(* envelopes that do not overlap keep the browser's list beside it, for any  *)
(* number of requests and tables and for any engine.                        *)
(***************************************************************************)
EXTENDS WarningsClient, TLAPS

(* How far a recompute's read has come, and that what it has is contents.    *)
Progress(x) ==
  /\ x.pc \in {"handler", "ids"} => x.next = 1 /\ x.unread = {}
  /\ x.pc = "load" => /\ x.next \in Tables
                      /\ x.unread \subseteq 1 .. x.next - 1
                      /\ \A t \in 1 .. x.next - 1 : x.read[t] \in Versions
  /\ x.pc = "persist" => x.read \in Contents

(* The strengthening: nobody has committed since the last writer did, so     *)
(* what its recompute has read so far is what the tables still hold, but for  *)
(* those whose query failed.                                                *)
Current(x) ==
  /\ x.pc = "load" => \A t \in 1 .. x.next - 1 :
                        x.read[t] = IF t \in x.unread THEN Empty ELSE db[t]
  /\ x.pc = "persist" => x.read = Without(x.unread)

ServerInv ==
  /\ ServerTypeOK
  /\ \A r \in Requests : Progress(req[r])
  /\ \A r \in Requests : writer = r => Current(req[r])
  /\ LastWriterPublishes

USE TableCountAssumption, EngineAssumption, NoneIsNoRequest, NoneIsNoContent,
    OptionalAssumption

-------------------------------------------------------------------------------
(* A step that gives one request a new record and leaves the database, the   *)
(* cache and the last writer alone.                                          *)
LEMMA MoveKeeps ==
  ASSUME ServerInv, NEW r \in Requests, NEW x \in RequestRecord,
         Move(r, x), Progress(x), writer = r => Current(x),
         UNCHANGED <<db, cache, writer, blind>>,
         recompute' \in {recompute, "dropped"}
  PROVE  ServerInv'
<1>1. \A q \in Requests : req'[q] = IF q = r THEN x ELSE req[q]
  BY DEF Move, ServerInv, ServerTypeOK
<1>2. req' \in [Requests -> RequestRecord]
  BY DEF Move, ServerInv, ServerTypeOK
<1>3. ServerTypeOK' BY <1>2 DEF ServerInv, ServerTypeOK
<1>4. \A q \in Requests : Progress(req[q])'
  BY <1>1 DEF ServerInv, Progress
<1>5. \A q \in Requests : writer' = q => Current(req[q])'
  BY <1>1 DEF ServerInv, Current, Without
<1>6. LastWriterPublishes' BY DEF ServerInv, LastWriterPublishes, Without
<1> QED BY <1>3, <1>4, <1>5, <1>6 DEF ServerInv

LEMMA FreeRecord ==
  /\ Free \in RequestRecord
  /\ [Free EXCEPT !.pc = "handler"] \in RequestRecord
  /\ [Free EXCEPT !.pc = "reply"] \in RequestRecord
<1>1. Free \in RequestRecord
  <2>1. [t \in Tables |-> None] \in [Tables -> Versions \cup {None}]
    OBVIOUS
  <2>2. 1 \in 1 .. TableCount + 1
    OBVIOUS
  <2> QED BY <2>1, <2>2 DEF Free, RequestRecord
<1> QED BY <1>1 DEF RequestRecord

LEMMA BeginKeeps ==
  ASSUME ServerInv, NEW r \in Requests, Begin(r)
  PROVE  ServerInv'
<1> DEFINE x == [Free EXCEPT !.pc = "handler"]
<1>1. x \in RequestRecord BY FreeRecord
<1>2. Progress(x) /\ Current(x) BY DEF Progress, Current, Free
<1> QED BY <1>1, <1>2, MoveKeeps DEF Begin

LEMMA AnswerBareKeeps ==
  ASSUME ServerInv, NEW r \in Requests, AnswerBare(r)
  PROVE  ServerInv'
<1> DEFINE x == [Free EXCEPT !.pc = "reply"]
<1>1. x \in RequestRecord BY FreeRecord
<1>2. Progress(x) /\ Current(x) BY DEF Progress, Current, Free
<1> QED BY <1>1, <1>2, MoveKeeps DEF AnswerBare

LEMMA RespondKeeps ==
  ASSUME ServerInv, NEW r \in Requests, Respond(r)
  PROVE  ServerInv'
<1>1. Progress(Free) /\ Current(Free) BY DEF Progress, Current, Free
<1> QED BY <1>1, FreeRecord, MoveKeeps DEF Respond

(* A commit makes its request the last writer; that request has read nothing. *)
LEMMA CommitKeeps ==
  ASSUME ServerInv, NEW r \in Requests, Commit(r)
  PROVE  ServerInv'
<1>1. ServerTypeOK' BY DEF ServerInv, ServerTypeOK, Commit
<1>2. \A q \in Requests : Progress(req[q])' BY DEF ServerInv, Commit, Progress
<1>3. Current(req[r])' BY DEF Commit, Current
<1>4. LastWriterPublishes' BY DEF Commit, LastWriterPublishes
<1> QED BY <1>1, <1>2, <1>3, <1>4 DEF ServerInv, Commit

LEMMA HandlerSucceedsKeeps ==
  ASSUME ServerInv, NEW r \in Requests, HandlerSucceeds(r)
  PROVE  ServerInv'
<1> DEFINE x == [req[r] EXCEPT !.pc = "ids"]
<1>0. req[r] \in RequestRecord /\ Progress(req[r])
  BY DEF ServerInv, ServerTypeOK
<1>1. x \in RequestRecord BY <1>0 DEF RequestRecord
<1>2. Progress(x) /\ Current(x)
  BY <1>0 DEF Progress, Current, HandlerSucceeds, RequestRecord
<1> QED BY <1>1, <1>2, MoveKeeps DEF HandlerSucceeds

LEMMA LoadIDsKeeps ==
  ASSUME ServerInv, NEW r \in Requests, LoadIDs(r)
  PROVE  ServerInv'
<1>0. req[r] \in RequestRecord /\ Progress(req[r])
  BY DEF ServerInv, ServerTypeOK
<1>1. PICK prev \in {WarningIds(cache), {}} :
        Move(r, [req[r] EXCEPT !.pc = "load", !.prev = prev])
  BY DEF LoadIDs
<1> DEFINE x == [req[r] EXCEPT !.pc = "load", !.prev = prev]
<1>2. prev \in SUBSET WarningIds(Warnings)
  BY DEF ServerInv, ServerTypeOK, WarningIds
<1>3. x \in RequestRecord BY <1>0, <1>2 DEF RequestRecord
<1>4. x.pc = "load" /\ x.next = 1 /\ x.unread = {}
  BY <1>0 DEF Progress, LoadIDs, RequestRecord
<1>5. Progress(x) /\ Current(x)
  BY <1>4 DEF Progress, Current, Tables
<1> HIDE DEF x
<1> QED BY <1>1, <1>3, <1>5, MoveKeeps DEF LoadIDs, x

(* Whatever a query returned, it is the table's content, or nothing and the  *)
(* table is among the unread.                                                *)
LEMMA ReadTableKeeps ==
  ASSUME ServerInv, NEW r \in Requests, ReadTable(r)
  PROVE  ServerInv'
<1> DEFINE t == req[r].next
<1>1. PICK rows \in Versions, unread \in SUBSET (1 .. t) :
        /\ Take(r, rows, unread)
        /\ rows = IF t \in unread THEN Empty ELSE db[t]
        /\ \A u \in 1 .. t - 1 : u \in unread <=> u \in req[r].unread
  <2>0. /\ t \in Tables /\ db[t] \in Versions /\ Empty \in Versions
        /\ req[r].unread \subseteq 1 .. t - 1
    BY DEF ServerInv, ServerTypeOK, Progress, ReadTable, Contents
  <2>1. /\ t \in 1 .. t /\ t \notin 1 .. t - 1 /\ 1 .. t - 1 \subseteq 1 .. t
    BY <2>0 DEF Tables
  <2>2. CASE Take(r, db[t], req[r].unread)
    BY <2>0, <2>1, <2>2
  <2>3. CASE Take(r, Empty, req[r].unread \cup {t})
    BY <2>0, <2>1, <2>3
  <2> QED BY <2>2, <2>3 DEF ReadTable
<1> DEFINE pc == IF t = TableCount THEN "persist" ELSE "load"
           read == [req[r].read EXCEPT ![t] = rows]
           x == [req[r] EXCEPT !.read = read, !.unread = unread, !.next = t + 1, !.pc = pc]
<1>0. /\ req[r] \in RequestRecord /\ req[r].pc = "load"
      /\ db \in Contents
      /\ t \in Tables
      /\ \A u \in 1 .. t - 1 : req[r].read[u] \in Versions
  BY DEF ServerInv, ServerTypeOK, Progress, ReadTable
<1>2. read \in [Tables -> Versions \cup {None}]
  BY <1>0 DEF RequestRecord
<1>3. /\ t + 1 \in 1 .. TableCount + 1
      /\ pc = "load" => t + 1 \in Tables
      /\ pc \in {"persist", "load"}
      /\ (t + 1) - 1 = t
      /\ pc = "persist" => 1 .. t = Tables
      /\ unread \subseteq Tables
  BY <1>0 DEF Tables
<1>4. \A u \in 1 .. t : u = t \/ u \in 1 .. t - 1
  BY <1>0 DEF Tables
<1>5. \A u \in 1 .. t : read[u] \in Versions
  BY <1>0, <1>4 DEF RequestRecord
<1>6. ASSUME writer = r
      PROVE  \A u \in 1 .. t : read[u] = IF u \in unread THEN Empty ELSE db[u]
  <2>1. \A u \in 1 .. t - 1 : req[r].read[u] = IF u \in req[r].unread THEN Empty ELSE db[u]
    BY <1>0, <1>6 DEF ServerInv, Current
  <2> QED BY <2>1, <1>0, <1>1, <1>4 DEF RequestRecord
<1>7. Move(r, x) /\ UNCHANGED <<db, cache, writer, recompute, blind>>
  <2>1. Move(r, [req[r] EXCEPT !.read[t] = rows, !.unread = unread, !.next = t + 1,
                               !.pc = IF t = TableCount THEN "persist" ELSE @])
    BY <1>1 DEF Take
  <2>2. [req[r] EXCEPT !.read[t] = rows, !.unread = unread, !.next = t + 1,
                       !.pc = IF t = TableCount THEN "persist" ELSE @] = x
    BY <1>0 DEF RequestRecord
  <2> QED BY <2>1, <2>2 DEF ReadTable
<1>8. /\ x.read = read /\ x.unread = unread /\ x.next = t + 1 /\ x.pc = pc
      /\ x \in RequestRecord
  <2> HIDE DEF read, pc
  <2> QED BY <1>0, <1>2, <1>3 DEF RequestRecord
<1> HIDE DEF x, read, pc
<1>9. Progress(x)
  <2>1. unread \subseteq 1 .. (t + 1) - 1
    BY <1>1, <1>3
  <2>2. pc = "persist" => read \in Contents
    BY <1>2, <1>3, <1>5 DEF Contents
  <2> QED BY <1>3, <1>5, <1>8, <2>1, <2>2 DEF Progress
<1>10. ASSUME writer = r PROVE Current(x)
  <2>1. \A u \in 1 .. t : read[u] = IF u \in unread THEN Empty ELSE db[u]
    BY <1>6, <1>10
  <2>2. pc = "persist" => read = Without(unread)
    <3>1. ASSUME pc = "persist", NEW u \in Tables PROVE read[u] = Without(unread)[u]
      BY <2>1, <3>1, <1>3 DEF Without
    <3> QED BY <3>1, <1>2 DEF Without
  <2> QED BY <1>3, <1>8, <2>1, <2>2 DEF Current
<1> QED BY <1>7, <1>8, <1>9, <1>10, MoveKeeps

(* If the last writer persists, what it has read is the database.            *)
LEMMA PersistKeeps ==
  ASSUME ServerInv, NEW r \in Requests, Persist(r)
  PROVE  ServerInv'
<1>0. req[r] \in RequestRecord /\ req[r].read \in Contents
  BY DEF ServerInv, ServerTypeOK, Progress, Persist
<1> DEFINE new == Engine[req[r].read]
           added == {w \in new : w.id \notin req[r].prev}
           removed == req[r].prev \ WarningIds(new)
           x == [Free EXCEPT !.pc = "reply", !.wrapped = TRUE,
                             !.added = added, !.removed = removed]
<1>1. new \in SUBSET Warnings BY <1>0
<1>2. /\ added \in SUBSET Warnings
      /\ removed \in SUBSET WarningIds(Warnings)
  BY <1>0, <1>1 DEF RequestRecord
<1>3. /\ Move(r, x) /\ cache' = new /\ UNCHANGED <<db, writer>>
      /\ blind' = IF writer = r THEN req[r].unread ELSE blind
  BY DEF Persist
<1> HIDE DEF new, added, removed
<1>4. x \in RequestRecord /\ x.pc = "reply"
  BY <1>2, FreeRecord DEF RequestRecord, Free
<1> HIDE DEF x
<1>5. \A q \in Requests : req'[q] = IF q = r THEN x ELSE req[q]
  BY <1>3 DEF Move, ServerInv, ServerTypeOK
<1>6. ServerTypeOK'
  <2>1. req[r].unread \in SUBSET Tables
    BY <1>0 DEF RequestRecord
  <2>2. blind' \in SUBSET Tables
    BY <1>3, <2>1 DEF ServerInv, ServerTypeOK
  <2>3. req' \in [Requests -> RequestRecord]
    BY <1>3, <1>4 DEF ServerInv, ServerTypeOK, Move
  <2> QED BY <1>1, <1>3, <2>2, <2>3 DEF ServerInv, ServerTypeOK, Persist
<1>7. \A q \in Requests : Progress(req[q])'
  BY <1>4, <1>5 DEF ServerInv, Progress
<1>8. \A q \in Requests : writer' = q => Current(req[q])'
  BY <1>3, <1>4, <1>5 DEF ServerInv, Current, Without
<1>9. LastWriterPublishes'
  <2>1. CASE writer = r
    <3>1. req[r].read = Without(req[r].unread)
      BY <2>1 DEF ServerInv, Current, Persist
    <3>2. Without(blind)' = Without(req[r].unread)
      BY <1>3, <2>1 DEF Without
    <3> QED BY <3>1, <3>2, <1>3 DEF LastWriterPublishes, new
  <2>2. CASE writer # r
    <3>1. recompute' # "done" BY <2>2 DEF Persist
    <3> QED BY <3>1 DEF LastWriterPublishes
  <2> QED BY <2>1, <2>2
<1> QED BY <1>6, <1>7, <1>8, <1>9 DEF ServerInv

-------------------------------------------------------------------------------
LEMMA ServerStart == ServerInit => ServerInv
<1> SUFFICES ASSUME ServerInit PROVE ServerInv
  OBVIOUS
<1>1. ServerTypeOK
  BY FreeRecord DEF ServerInit, ServerTypeOK
<1>2. Progress(Free) BY DEF Progress, Free
<1> QED BY <1>1, <1>2 DEF ServerInit, ServerInv, LastWriterPublishes

LEMMA ServerInvStep ==
  ASSUME ServerInv, [ServerNext]_serverVars
  PROVE  ServerInv'
<1>1. CASE UNCHANGED serverVars
  BY <1>1 DEF serverVars, ServerInv, ServerTypeOK, Progress, Current,
              LastWriterPublishes, Without
<1>2. ASSUME NEW r \in Requests, Handler(r) PROVE ServerInv'
  <2>1. CASE HandlerRefuses(r) BY <2>1, AnswerBareKeeps DEF HandlerRefuses
  <2> QED BY <1>2, <2>1, BeginKeeps, CommitKeeps, HandlerSucceedsKeeps DEF Handler
<1>3. ASSUME NEW r \in Requests, Recompute(r) PROVE ServerInv'
  <2>1. CASE RecomputeFails(r) BY <2>1, AnswerBareKeeps DEF RecomputeFails
  <2> QED BY <1>3, <2>1, LoadIDsKeeps, ReadTableKeeps, PersistKeeps DEF Recompute
<1>4. ASSUME NEW r \in Requests, Respond(r) PROVE ServerInv'
  BY <1>4, RespondKeeps
<1> QED BY <1>1, <1>2, <1>3, <1>4 DEF ServerNext

THEOREM ServerCorrect == ServerSpec => []ServerInv
<1>1. ServerInv /\ [ServerNext]_serverVars => ServerInv' BY ServerInvStep
<1> QED BY <1>1, ServerStart, PTL DEF ServerSpec

(* The middleware's state keeps its types.                                   *)
THEOREM ServerTypes == ServerSpec => []ServerTypeOK
BY ServerCorrect, PTL DEF ServerInv

(* A mutation whose recompute comes last leaves the warnings table current,  *)
(* although LoadState reads the tables in separate queries: if one of them   *)
(* had changed since it was read, another request would be the last writer.  *)
THEOREM LastWriterCorrect == ServerSpec => []LastWriterPublishes
BY ServerCorrect, PTL DEF ServerInv

-------------------------------------------------------------------------------
(* The browser beside the server: each of its steps is one of the server or  *)
(* leaves the server alone.                                                  *)
THEOREM ClientImplementsServer == Spec => ServerSpec
<1>1. Init => ServerInit
  BY DEF Init
<1>2. [Next]_vars => [ServerNext]_serverVars
  <2> SUFFICES ASSUME [Next]_vars PROVE [ServerNext]_serverVars
    OBVIOUS
  <2>1. ASSUME NEW r \in Requests, Send(r) \/ ServerStep(r) \/ ApplyDiff(r) \/ LoseAnswer(r)
        PROVE  ServerNext
    BY <2>1 DEF Send, ServerStep, ApplyDiff, LoseAnswer, ServerNext, Handler
  <2>2. CASE StartFetch \/ AnswerFetch \/ TakeFetch \/ FetchFails \/ UNCHANGED vars
    BY <2>2 DEF StartFetch, AnswerFetch, TakeFetch, FetchFails, vars
  <2> QED BY <2>1, <2>2 DEF Next
<1> QED BY <1>1, <1>2, PTL DEF Spec, ServerSpec

THEOREM LastWriterCorrectWithClient == Spec => []LastWriterPublishes
BY ClientImplementsServer, LastWriterCorrect, PTL

(* What is shown and what the server keeps, while one mutation is on its way *)
(* and nothing else: the same ids until the recompute has replaced the table, *)
(* and then the same once the envelope is merged.                            *)
InStep == view.loaded => WarningIds(view.rows) = WarningIds(cache)
InStepWith(x) ==
  /\ x.pc \in {"handler", "ids"} => InStep
  /\ x.pc \in {"load", "persist"} => InStep /\ x.prev = WarningIds(cache)
  /\ x.pc = "reply" /\ ~x.wrapped => InStep
  /\ x.pc = "reply" /\ x.wrapped /\ view.loaded =>
       WarningIds(cache) = (WarningIds(view.rows) \ x.removed) \cup WarningIds(x.added)

(* A calm browser: one thing is under way at a time, a mutation in step with *)
(* the list shown, or a fetch that brings the list the server keeps.         *)
Calm ==
  /\ \A r, q \in Requests : InFlight(r) /\ InFlight(q) => r = q
  /\ \A r \in Requests : InFlight(r) => fetch.pc = "idle" /\ InStepWith(req[r])
  /\ fetch.pc = "answered" => fetch.rows = cache
  /\ AllQuiet => InStep

ClientInv == TypeOK /\ (calm => Calm)

LEMMA ClientStart == Init => ClientInv
BY FreeRecord DEF Init, ServerInit, ClientInv, TypeOK, ServerTypeOK, Calm, Quiet, InFlight,
                  AllQuiet, InStep, Free

(* A mutation that is alone, served.                                         *)
LEMMA AloneKeeps ==
  ASSUME TypeOK, Calm, NEW r \in Requests, InFlight(r), UNCHANGED <<view, fetch>>,
         \A q \in Requests \ {r} : req'[q] = req[q],
         InFlight(r)', InStepWith(req[r])'
  PROVE  Calm'
<1>1. \A q \in Requests : InFlight(q) => q = r
  BY DEF Calm
<1>2. fetch.pc = "idle"
  BY DEF Calm
<1>3. \A q \in Requests : InFlight(q)' => q = r
  BY <1>1 DEF InFlight
<1>4. ~AllQuiet'
  BY DEF AllQuiet, Quiet
<1> QED BY <1>2, <1>3, <1>4 DEF Calm

(* The envelope takes the ids the list had to the ids the table has now.     *)
LEMMA EnvelopeIsDifference ==
  ASSUME NEW r \in Requests, TypeOK, ServerTypeOK', InStep, Persist(r),
         req[r].prev = WarningIds(cache), UNCHANGED view
  PROVE  /\ req'[r].wrapped /\ req'[r].pc = "reply"
         /\ view.loaded => WarningIds(cache') =
              (WarningIds(view.rows) \ req'[r].removed) \cup WarningIds(req'[r].added)
<1> DEFINE new == Engine[req[r].read]
<1>1. /\ cache' = new /\ req \in [Requests -> RequestRecord]
      /\ req' = [req EXCEPT ![r] =
           [Free EXCEPT !.pc = "reply", !.wrapped = TRUE,
              !.added = {w \in new : w.id \notin req[r].prev},
              !.removed = req[r].prev \ WarningIds(new)]]
  BY DEF Persist, Move, TypeOK, ServerTypeOK
<1> HIDE DEF new
<1>2. /\ req'[r].wrapped /\ req'[r].pc = "reply"
      /\ req'[r].added = {w \in new : w.id \notin req[r].prev}
      /\ req'[r].removed = req[r].prev \ WarningIds(new)
  BY <1>1 DEF Free
<1>3. WarningIds(req'[r].added) = WarningIds(new) \ req[r].prev
  BY <1>2 DEF WarningIds
<1> QED BY <1>1, <1>2, <1>3 DEF InStep

LEMMA ServeCalm ==
  ASSUME TypeOK, ServerTypeOK', NEW r \in Requests, ServerStep(r), calm => Calm, calm'
  PROVE  Calm'
<1>1. /\ Calm /\ (LoadIDs(r) => req'[r].prev = WarningIds(cache))
      /\ UNCHANGED <<view, fetch>> /\ req \in [Requests -> RequestRecord]
  BY DEF ServerStep, TypeOK, ServerTypeOK
<1>2. InFlight(r) /\ \E x : req' = [req EXCEPT ![r] = x]
  <2>1. CASE Commit(r)
    <3>1. req' = [req EXCEPT ![r] = req[r]] BY <1>1, <2>1 DEF Commit
    <3> QED BY <2>1, <3>1 DEF Commit, InFlight
  <2>2. CASE HandlerSucceeds(r)
    BY <2>2 DEF HandlerSucceeds, InFlight, Move
  <2>3. CASE HandlerRefuses(r) \/ RecomputeFails(r)
    BY <2>3 DEF HandlerRefuses, RecomputeFails, AnswerBare, InFlight, Move
  <2>4. CASE LoadIDs(r)
    BY <2>4 DEF LoadIDs, InFlight, Move
  <2>5. CASE ReadTable(r) \/ Persist(r)
    BY <2>5 DEF ReadTable, Take, Persist, InFlight, Move
  <2> QED BY <2>1, <2>2, <2>3, <2>4, <2>5 DEF ServerStep, Recompute
<1>3. InStepWith(req[r]) /\ \A q \in Requests \ {r} : req'[q] = req[q]
  BY <1>1, <1>2 DEF Calm
<1>4. ASSUME UNCHANGED cache, req'[r].pc \in {"handler", "ids"}, req[r].pc = "handler"
      PROVE  Calm'
  BY <1>1, <1>2, <1>3, <1>4, AloneKeeps DEF InStepWith, InStep, InFlight
<1>5. CASE Commit(r) \/ HandlerSucceeds(r)
  <2>1. CASE Commit(r)
    BY <1>1, <1>4, <2>1 DEF Commit
  <2>2. CASE HandlerSucceeds(r)
    <3>1. UNCHANGED cache /\ req[r].pc = "handler" /\ req'[r].pc = "ids"
      BY <1>1, <2>2 DEF HandlerSucceeds, Move
    <3> QED BY <1>4, <3>1
  <2> QED BY <1>5, <2>1, <2>2
<1>6. CASE HandlerRefuses(r) \/ RecomputeFails(r)
  <2>1. UNCHANGED cache /\ req[r].pc \in {"handler", "load", "persist"}
        /\ req'[r].pc = "reply" /\ ~req'[r].wrapped
    BY <1>1, <1>6 DEF HandlerRefuses, RecomputeFails, AnswerBare, Move, Free
  <2> QED BY <1>1, <1>2, <1>3, <2>1, AloneKeeps DEF InStepWith, InStep, InFlight
<1>7. CASE LoadIDs(r)
  <2>1. UNCHANGED cache /\ req[r].pc = "ids" /\ req'[r].pc = "load"
    BY <1>1, <1>7 DEF LoadIDs, Move
  <2> QED BY <1>1, <1>2, <1>3, <1>7, <2>1, AloneKeeps DEF InStepWith, InStep, InFlight
<1>8. CASE ReadTable(r)
  <2>1. /\ UNCHANGED cache /\ req[r].pc = "load" /\ req'[r].pc \in {"load", "persist"}
        /\ req'[r].prev = req[r].prev
    <3>1. UNCHANGED cache /\ req[r].pc = "load" /\ \E rows, unread : Take(r, rows, unread)
      BY <1>8 DEF ReadTable
    <3>2. PICK rows, unread : Take(r, rows, unread)
      BY <3>1
    <3> QED BY <1>1, <3>1, <3>2 DEF Take, Move, RequestRecord
  <2> QED BY <1>1, <1>2, <1>3, <2>1, AloneKeeps DEF InStepWith, InStep, InFlight
<1>9. CASE Persist(r)
  <2>1. InStep /\ req[r].prev = WarningIds(cache)
    BY <1>3, <1>9 DEF Persist, InStepWith
  <2>2. /\ req'[r].wrapped /\ req'[r].pc = "reply"
        /\ view.loaded => WarningIds(cache') =
             (WarningIds(view.rows) \ req'[r].removed) \cup WarningIds(req'[r].added)
    BY <1>1, <1>9, <2>1, EnvelopeIsDifference
  <2> QED BY <1>1, <1>2, <1>3, <2>2, AloneKeeps DEF InStepWith, InFlight
<1> QED BY <1>5, <1>6, <1>7, <1>8, <1>9 DEF ServerStep, Recompute

(* A mutation that ends leaves the browser quiet: its envelope was merged,   *)
(* or it had none.                                                           *)
LEMMA EndCalm ==
  ASSUME TypeOK, NEW r \in Requests, ApplyDiff(r) \/ LoseAnswer(r), calm => Calm, calm'
  PROVE  Calm'
<1>1. /\ Calm /\ req[r].pc = "reply" /\ InFlight(r) /\ UNCHANGED <<fetch, cache>>
      /\ req' = [req EXCEPT ![r] = Free] /\ req \in [Requests -> RequestRecord]
  BY DEF ApplyDiff, LoseAnswer, Respond, Move, InFlight, TypeOK, ServerTypeOK
<1>2. fetch.pc = "idle" /\ InStepWith(req[r]) /\ \A q \in Requests : InFlight(q) => q = r
  BY <1>1 DEF Calm
<1>3. \A q \in Requests : ~InFlight(q)'
  BY <1>1, <1>2 DEF InFlight, Free
<1>4. InStep'
  <2>1. CASE req[r].wrapped
    <3>1. /\ view.loaded
          /\ view' = [loaded |-> TRUE, rows |-> Merge(view.rows, req[r].added, req[r].removed)]
      BY <2>1 DEF ApplyDiff, LoseAnswer
    <3>2. WarningIds(Merge(view.rows, req[r].added, req[r].removed)) =
            (WarningIds(view.rows) \ req[r].removed) \cup WarningIds(req[r].added)
      BY DEF WarningIds, Merge
    <3> QED BY <1>1, <1>2, <2>1, <3>1, <3>2 DEF InStepWith, InStep
  <2>2. CASE ~req[r].wrapped
    <3>1. view' = view BY <2>2 DEF ApplyDiff, LoseAnswer
    <3> QED BY <1>1, <1>2, <2>2, <3>1 DEF InStepWith, InStep
  <2> QED BY <2>1, <2>2
<1> QED BY <1>1, <1>2, <1>3, <1>4 DEF Calm

LEMMA SendCalm ==
  ASSUME TypeOK, NEW r \in Requests, Send(r), calm => Calm, calm'
  PROVE  Calm'
<1>1. /\ Calm /\ AllQuiet /\ UNCHANGED <<view, fetch, cache>>
      /\ req' = [req EXCEPT ![r] = [Free EXCEPT !.pc = "handler"]]
      /\ req \in [Requests -> RequestRecord]
  BY DEF Send, Begin, Move, TypeOK, ServerTypeOK
<1>2. req'[r].pc = "handler" /\ \A q \in Requests : InFlight(q)' => q = r
  BY <1>1 DEF AllQuiet, Quiet, InFlight, Free
<1>3. InStep'
  BY <1>1 DEF Calm, InStep
<1> QED BY <1>1, <1>2, <1>3 DEF Calm, InStepWith, AllQuiet, Quiet, InFlight

LEMMA FetchCalm ==
  ASSUME TypeOK, StartFetch \/ AnswerFetch \/ TakeFetch \/ FetchFails, calm => Calm, calm'
  PROVE  Calm'
<1>1. UNCHANGED <<req, cache>> /\ fetch \in [pc : {"idle", "sent", "answered"}, rows : SUBSET Warnings]
  BY DEF StartFetch, AnswerFetch, TakeFetch, FetchFails, serverVars, TypeOK
<1>2. \A q \in Requests : InFlight(q)' <=> InFlight(q)
  BY <1>1 DEF InFlight
<1>3. CASE StartFetch
  <2>1. Quiet /\ fetch'.pc = "sent"
    BY <1>1, <1>3 DEF StartFetch
  <2> QED BY <1>2, <2>1 DEF Calm, AllQuiet, Quiet
<1>4. CASE AnswerFetch
  BY <1>1, <1>2, <1>4 DEF AnswerFetch, Calm, AllQuiet
<1>5. CASE TakeFetch
  BY <1>1, <1>2, <1>5 DEF TakeFetch, NoFetch, Calm, AllQuiet, InStep
<1> QED BY <1>3, <1>4, <1>5 DEF FetchFails

LEMMA ClientTypesKept ==
  ASSUME ServerTypeOK', TypeOK, [Next]_vars
  PROVE  TypeOK'
<1>1. CASE UNCHANGED vars
  BY <1>1 DEF vars, TypeOK
<1>2. CASE StartFetch \/ AnswerFetch \/ TakeFetch \/ FetchFails
  <2>1. cache \in SUBSET Warnings /\ Quiet \in BOOLEAN
    BY DEF TypeOK, ServerTypeOK, Quiet
  <2>2. fetch' \in [pc : {"idle", "sent", "answered"}, rows : SUBSET Warnings]
    <3>1. \/ fetch' = [fetch EXCEPT !.pc = "sent"] \/ fetch' = [pc |-> "answered", rows |-> cache]
          \/ fetch' = [pc |-> "idle", rows |-> {}]
      BY <1>2 DEF StartFetch, AnswerFetch, TakeFetch, FetchFails, NoFetch
    <3> QED BY <2>1, <3>1 DEF TypeOK
  <2>3. view' \in [loaded : BOOLEAN, rows : SUBSET Warnings]
    <3>1. view' = view \/ view' = [loaded |-> TRUE, rows |-> fetch.rows]
      BY <1>2 DEF StartFetch, AnswerFetch, TakeFetch, FetchFails
    <3>2. fetch.rows \in SUBSET Warnings /\ view \in [loaded : BOOLEAN, rows : SUBSET Warnings]
      BY DEF TypeOK
    <3>3. [loaded |-> TRUE, rows |-> fetch.rows] \in [loaded : BOOLEAN, rows : SUBSET Warnings]
      BY <3>2
    <3> QED BY <3>1, <3>2, <3>3, Zenon
  <2>4. calm' \in BOOLEAN
    BY <1>2, <2>1 DEF StartFetch, AnswerFetch, TakeFetch, FetchFails, TypeOK
  <2> QED BY <2>2, <2>3, <2>4 DEF TypeOK
<1>3. ASSUME NEW r \in Requests, Send(r) \/ ServerStep(r) \/ ApplyDiff(r) \/ LoseAnswer(r)
      PROVE  TypeOK'
  <2>1. calm' \in BOOLEAN /\ fetch' = fetch
    BY <1>3 DEF Send, ServerStep, ApplyDiff, LoseAnswer
  <2>2. req[r].added \subseteq Warnings /\ view.rows \subseteq Warnings
    BY DEF TypeOK, ServerTypeOK, RequestRecord
  <2>3. Merge(view.rows, req[r].added, req[r].removed) \subseteq Warnings
    BY <2>2 DEF Merge
  <2>4. view' = view \/ view' = [loaded |-> TRUE,
                                rows |-> Merge(view.rows, req[r].added, req[r].removed)]
    BY <1>3 DEF Send, ServerStep, ApplyDiff, LoseAnswer
  <2>5. view' \in [loaded : BOOLEAN, rows : SUBSET Warnings]
    <3>1. view \in [loaded : BOOLEAN, rows : SUBSET Warnings]
      BY DEF TypeOK
    <3>2. [loaded |-> TRUE, rows |-> Merge(view.rows, req[r].added, req[r].removed)]
            \in [loaded : BOOLEAN, rows : SUBSET Warnings]
      BY <2>3
    <3> QED BY <2>4, <3>1, <3>2, Zenon
  <2>6. fetch' \in [pc : {"idle", "sent", "answered"}, rows : SUBSET Warnings]
    BY <2>1 DEF TypeOK
  <2> QED BY <2>1, <2>5, <2>6 DEF TypeOK
<1> QED BY <1>1, <1>2, <1>3 DEF Next

LEMMA ClientStep ==
  ASSUME ServerTypeOK', ClientInv, [Next]_vars
  PROVE  ClientInv'
<1>1. TypeOK'
  BY ClientTypesKept DEF ClientInv
<1>2. ASSUME calm' PROVE Calm'
  <2>1. CASE UNCHANGED vars
    BY <1>2, <2>1 DEF vars, serverVars, ClientInv, Calm, InFlight, InStepWith, InStep,
                      AllQuiet, Quiet
  <2> QED BY <1>2, <2>1, SendCalm, ServeCalm, EndCalm, FetchCalm DEF Next, ClientInv
<1> QED BY <1>1, <1>2 DEF ClientInv

THEOREM ClientCorrect == Spec => []ClientInv
BY ClientImplementsServer, ServerTypes, ClientStart, ClientStep, PTL DEF Spec

(* The browser's list of warnings and its fetch keep their types.            *)
THEOREM ClientTypes == Spec => []TypeOK
BY ClientCorrect, PTL DEF ClientInv

(* Envelopes that do not overlap, merged one after the other, keep the ids   *)
(* shown the ids the server keeps (unwrapMutationResponse, applyDiff).       *)
THEOREM MergedIdsCorrect == Spec => []MergedIdsFollowCache
<1>1. ClientInv => MergedIdsFollowCache
  BY DEF ClientInv, Calm, InStep, MergedIdsFollowCache
<1> QED BY <1>1, ClientCorrect, PTL
===============================================================================
