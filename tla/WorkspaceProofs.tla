--------------------------- MODULE WorkspaceProofs ---------------------------
(***************************************************************************)
(* The forms of the browser, whatever pages are visited beside them.  An   *)
(* import is applied once and imports what its page showed; then the copy  *)
(* of the event row that the settings pages write from, the station panel, *)
(* the editor of a trip, and the types of all of them.                     *)
(***************************************************************************)
EXTENDS Workspace, Induction, SequenceTheorems

Ops == {"upload", "mapping", "resolve", "commit"}
IsCall(c) ==
  /\ "op" \in DOMAIN c /\ "session" \in DOMAIN c /\ "step" \in DOMAIN c /\ "live" \in DOMAIN c
  /\ c.op \in Ops /\ c.live \in BOOLEAN
IsWizard(w) == "step" \in DOMAIN w /\ "rows" \in DOMAIN w /\ "busy" \in DOMAIN w
IsSession(s) == "state" \in DOMAIN s
Shape ==
  /\ sessions = [s \in Sessions |-> sessions[s]] /\ \A s \in Sessions : IsSession(sessions[s])
  /\ applied \in [Sessions -> Nat]
  /\ IsWizard(wizard)
  /\ \A c \in csvCalls : IsCall(c)

(* A request to import a session for which nothing is known yet that would   *)
(* excuse a second import.                                                   *)
Pristine(c) == c.op = "commit" /\ c.session \in Sessions \ excused

(* There is one per session.  While the browser waits for it, it waits for   *)
(* nothing else, and the page offers no way to send another.                 *)
OnePerSession ==
  \A c, d \in csvCalls : Pristine(c) /\ Pristine(d) /\ c.session = d.session => c = d
NothingBeside ==
  \A c \in csvCalls : Pristine(c) /\ c.live =>
    /\ csvCalls = {c} /\ wizard.busy
    /\ wizard.step = "map" \/ (wizard.step = "preview" /\ Ambiguous(wizard.rows) = {})

(* A session that has been imported is gone, or the request that has done it *)
(* is about to delete it; one that is still to be imported has not been.     *)
ImportedIsGone ==
  \A s \in Sessions \ excused : applied[s] > 0 =>
    \/ sessions[s].state = "gone"
    \/ \E c \in csvCalls : Pristine(c) /\ c.session = s /\ c.step = "applied"
ReadIsNotImported ==
  \A c \in csvCalls : Pristine(c) /\ c.step = "read" => applied[c.session] = 0
AtMostOnce == \A s \in Sessions \ excused : applied[s] <= 1
FreeIsNew ==
  /\ \A s \in Sessions : sessions[s].state = "free" => applied[s] = 0
  /\ \A c \in csvCalls : c.op = "commit" /\ c.step = "read" /\ c.session \in Sessions
       => sessions[c.session].state # "free"

ImportInv ==
  /\ Shape /\ OnePerSession /\ NothingBeside /\ ImportedIsGone /\ ReadIsNotImported
  /\ AtMostOnce /\ FreeIsNew
-----------------------------------------------------------------------------
LEMMA InitImport == CsvInit => ImportInv
  BY DEF CsvInit, ImportInv, Shape, OnePerSession, NothingBeside, ImportedIsGone,
         ReadIsNotImported, AtMostOnce, FreeIsNew, IsWizard, IsSession, Session, NoWizard

(* Steps of the server that only replace a request by what it is next.       *)
LEMMA ReplaceCall ==
  ASSUME ImportInv, NEW c \in csvCalls, NEW d,
         csvCalls' = (csvCalls \ {c}) \cup {d}, wizard' = wizard,
         excused \subseteq excused',
         d.op = c.op, d.live = c.live \/ ~d.live, c.op = "commit" => d.session = c.session
  PROVE  OnePerSession' /\ NothingBeside'
<1>1. ASSUME NEW e, Pristine(e)' PROVE Pristine(e)
  BY <1>1 DEF Pristine
<1>2. Pristine(d)' => Pristine(c) /\ c.session = d.session
  BY DEF Pristine
<1>3. OnePerSession'
  <2> SUFFICES ASSUME NEW e \in csvCalls', NEW f \in csvCalls', Pristine(e)', Pristine(f)',
                      e.session = f.session
               PROVE  e = f
    BY DEF OnePerSession
  <2>1. CASE e = d /\ f = d
    BY <2>1
  <2>2. CASE e = d /\ f # d
    BY <1>1, <1>2, <2>2 DEF ImportInv, OnePerSession
  <2>3. CASE e # d /\ f = d
    BY <1>1, <1>2, <2>3 DEF ImportInv, OnePerSession
  <2>4. CASE e # d /\ f # d
    BY <1>1, <2>4 DEF ImportInv, OnePerSession
  <2> QED
    BY <2>1, <2>2, <2>3, <2>4
<1>4. NothingBeside'
  <2> SUFFICES ASSUME NEW e \in csvCalls', Pristine(e)', e.live
               PROVE  /\ csvCalls' = {e} /\ wizard.busy
                      /\ wizard.step = "map" \/ (wizard.step = "preview" /\ Ambiguous(wizard.rows) = {})
    BY DEF NothingBeside
  <2>1. CASE e = d
    BY <1>2, <2>1 DEF ImportInv, NothingBeside
  <2>2. CASE e # d
    BY <1>1, <2>2 DEF ImportInv, NothingBeside
  <2> QED
    BY <2>1, <2>2
<1> QED
  BY <1>3, <1>4

-----------------------------------------------------------------------------
(* The wizard.  No button sends anything while a pristine import is waited   *)
(* for; one that is sent beside others is not pristine.                      *)
LEMMA SendStep ==
  ASSUME ImportInv, NEW op \in Ops, NEW arg, SendCsv(op, arg),
         \A c \in csvCalls : ~(Pristine(c) /\ c.live),
         op = "commit" => wizard.step = "preview" /\ Ambiguous(wizard.rows) = {}
  PROVE  ImportInv'
<1> PICK new : new = CsvCall(op, arg)
  OBVIOUS
<1>1. /\ new.op = op /\ new.session = wizard.session /\ new.step = "sent" /\ new.live
      /\ IsCall(new)
  BY DEF CsvCall, IsCall
<1>2. /\ csvCalls' = csvCalls \cup {new} /\ wizard' = [wizard EXCEPT !.busy = TRUE]
      /\ UNCHANGED <<sessions, added, applied>>
      /\ excused \subseteq excused'
  BY DEF SendCsv
<1>3. IsWizard(wizard') /\ wizard'.busy /\ wizard'.step = wizard.step /\ wizard'.rows = wizard.rows
  BY <1>2 DEF ImportInv, Shape, IsWizard
<1>4. ASSUME NEW c, Pristine(c)' PROVE Pristine(c)
  BY <1>2, <1>4 DEF Pristine
<1>5. Pristine(new)' => csvCalls = {}
  <2> SUFFICES ASSUME Pristine(new)', NEW c \in csvCalls PROVE FALSE
    OBVIOUS
  <2>1. op = "commit" /\ wizard.session \in Sessions \ excused'
    BY <1>1 DEF Pristine
  <2>2. ~Disturbs(c)
    BY <2>1 DEF SendCsv
  <2> QED
    BY <1>2, <2>1, <2>2 DEF Disturbs, Pristine
<1>6. Shape'
  BY <1>1, <1>2, <1>3 DEF ImportInv, Shape
<1>7. OnePerSession'
  <2> SUFFICES ASSUME NEW c \in csvCalls', NEW d \in csvCalls', Pristine(c)', Pristine(d)',
                      c.session = d.session
               PROVE  c = d
    BY DEF OnePerSession
  <2> QED
    BY <1>2, <1>4, <1>5 DEF ImportInv, OnePerSession
<1>8. NothingBeside'
  <2> SUFFICES ASSUME NEW c \in csvCalls', Pristine(c)', c.live
               PROVE  csvCalls' = {c} /\ wizard.step = "preview" /\ Ambiguous(wizard.rows) = {}
    BY <1>3 DEF NothingBeside
  <2>1. c = new
    BY <1>2, <1>4
  <2> QED
    BY <1>1, <1>2, <1>5, <2>1 DEF Pristine
<1>9. ImportedIsGone'
  <2> SUFFICES ASSUME NEW s \in Sessions \ excused', applied[s] > 0, sessions[s].state # "gone"
               PROVE  \E c \in csvCalls' : Pristine(c)' /\ c.session = s /\ c.step = "applied"
    BY <1>2 DEF ImportedIsGone
  <2>1. PICK c \in csvCalls : Pristine(c) /\ c.session = s /\ c.step = "applied"
    BY <1>2 DEF ImportInv, ImportedIsGone
  <2> QED
    BY <1>2, <2>1 DEF Pristine
<1>10. ReadIsNotImported'
  BY <1>1, <1>2, <1>4 DEF ImportInv, ReadIsNotImported
<1>11. AtMostOnce' /\ FreeIsNew'
  BY <1>1, <1>2 DEF ImportInv, AtMostOnce, FreeIsNew
<1> QED
  BY <1>6, <1>7, <1>8, <1>9, <1>10, <1>11 DEF ImportInv

LEMMA ButtonSteps ==
  ASSUME ImportInv,
         \/ onFile \/ submitMapping \/ commit
         \/ \E row \in FileRows, choice \in {"new", "update", "skip"} : resolveRow(row, choice)
  PROVE  ImportInv'
<1>1. ASSUME NEW c \in csvCalls, Pristine(c), c.live PROVE FALSE
  BY <1>1 DEF ImportInv, NothingBeside, onFile, submitMapping, commit, resolveRow
<1>2. CASE onFile
  BY <1>1, <1>2, SendStep DEF onFile, Ops
<1>3. CASE submitMapping
  BY <1>1, <1>3, SendStep DEF submitMapping, Ops
<1>4. CASE commit
  BY <1>1, <1>4, SendStep DEF commit, Ops
<1>5. ASSUME NEW row \in FileRows, NEW choice \in {"new", "update", "skip"}, resolveRow(row, choice)
      PROVE  ImportInv'
  BY <1>1, <1>5, SendStep DEF resolveRow, Ops
<1> QED
  BY <1>2, <1>3, <1>4, <1>5

(* Steps that leave the requests and the tables as they are.                 *)
LEMMA AdjustStep == ImportInv /\ (ChangeKey \/ EditMapping) => ImportInv'
<1> SUFFICES ASSUME ImportInv, ChangeKey \/ EditMapping PROVE ImportInv'
  OBVIOUS
<1>1. UNCHANGED <<sessions, applied, csvCalls, excused>>
  BY DEF ChangeKey, EditMapping, Adjusted
<1>2. /\ IsWizard(wizard') /\ wizard'.busy = wizard.busy
      /\ wizard'.step = "map" \/ (wizard'.step = wizard.step /\ wizard'.rows = wizard.rows)
  BY DEF ChangeKey, EditMapping, Adjusted, ImportInv, Shape, IsWizard
<1>3. NothingBeside'
  BY <1>1, <1>2 DEF ImportInv, NothingBeside, Pristine
<1> QED
  BY <1>1, <1>2, <1>3 DEF ImportInv, Shape, OnePerSession, ImportedIsGone, ReadIsNotImported,
                          AtMostOnce, FreeIsNew, Pristine

-----------------------------------------------------------------------------
(* The server.  Every step replaces one request; those that neither import   *)
(* nor follow an import keep the invariant alike.                            *)
LEMMA ServerStep ==
  ASSUME ImportInv, NEW c \in csvCalls, NEW d,
         csvCalls' = (csvCalls \ {c}) \cup {d}, UNCHANGED <<wizard, applied, excused>>,
         IsCall(d), d.op = c.op, d.live = c.live, c.op = "commit" => d.session = c.session,
         c.step # "applied",
         sessions' = [s \in Sessions |-> sessions'[s]], \A s \in Sessions : IsSession(sessions'[s]),
         \A s \in Sessions : sessions'[s].state = sessions[s].state
            \/ (sessions'[s].state = "open" /\ sessions[s].state = "free"),
         d.op = "commit" /\ d.step = "read" /\ d.session \in Sessions =>
            sessions[d.session].state = "open"
  PROVE  ImportInv'
<1>1. OnePerSession' /\ NothingBeside'
  BY ReplaceCall
<1>2. Shape'
  BY DEF ImportInv, Shape
<1>3. FreeIsNew'
  BY DEF ImportInv, FreeIsNew
<1>4. ImportedIsGone'
  <2> SUFFICES ASSUME NEW s \in Sessions \ excused, applied[s] > 0, sessions'[s].state # "gone"
               PROVE  \E e \in csvCalls' : Pristine(e)' /\ e.session = s /\ e.step = "applied"
    BY DEF ImportedIsGone
  <2>1. sessions[s].state # "gone"
    BY DEF ImportInv, FreeIsNew
  <2>2. PICK e \in csvCalls : Pristine(e) /\ e.session = s /\ e.step = "applied"
    BY <2>1 DEF ImportInv, ImportedIsGone
  <2> QED
    BY <2>2 DEF Pristine
<1>5. ReadIsNotImported'
  <2> SUFFICES ASSUME NEW e \in csvCalls', Pristine(e)', e.step = "read" PROVE applied[e.session] = 0
    BY DEF ReadIsNotImported
  <2>1. CASE e # d
    BY <2>1 DEF ImportInv, ReadIsNotImported, Pristine
  <2>2. CASE e = d
    <3>1. /\ e.session \in Sessions \ excused /\ sessions[e.session].state = "open"
          /\ Pristine(c) /\ c.session = e.session
      BY <2>2 DEF Pristine
    <3>2. ~\E f \in csvCalls : Pristine(f) /\ f.session = e.session /\ f.step = "applied"
      BY <3>1 DEF ImportInv, OnePerSession
    <3>3. ~(applied[e.session] > 0)
      BY <3>1, <3>2 DEF ImportInv, ImportedIsGone
    <3> QED
      BY <3>1, <3>3 DEF ImportInv, Shape
  <2> QED
    BY <2>1, <2>2
<1>6. AtMostOnce'
  BY DEF ImportInv, AtMostOnce
<1> QED
  BY <1>1, <1>2, <1>3, <1>4, <1>5, <1>6 DEF ImportInv

LEMMA UploadStep == ASSUME ImportInv, NEW c \in csvCalls, ServeUpload(c) PROVE ImportInv'
<1>1. PICK s \in Sessions :
        /\ sessions[s].state = "free"
        /\ sessions' = [sessions EXCEPT ![s] = Session("open", NoRows)]
        /\ CsvStep(c, [c EXCEPT !.session = s, !.step = "ok"])
  BY DEF ServeUpload
<1>2. PICK d : d = [c EXCEPT !.session = s, !.step = "ok"]
  OBVIOUS
<1>3. IsCall(d) /\ d.op = c.op /\ d.live = c.live /\ d.step = "ok"
  BY <1>2 DEF ImportInv, Shape, IsCall
<1>4. c.op = "upload" /\ c.step = "sent" /\ csvCalls' = (csvCalls \ {c}) \cup {d}
      /\ UNCHANGED <<wizard, applied, excused>>
  BY <1>1, <1>2 DEF ServeUpload, CsvStep
<1>5. /\ sessions' = [t \in Sessions |-> sessions'[t]] /\ \A t \in Sessions : IsSession(sessions'[t])
      /\ \A t \in Sessions : sessions'[t].state = sessions[t].state
            \/ (sessions'[t].state = "open" /\ sessions[t].state = "free")
  BY <1>1 DEF ImportInv, Shape, IsSession, Session
<1> QED
  BY <1>3, <1>4, <1>5, ServerStep

LEMMA GetStep == ASSUME ImportInv, NEW c \in csvCalls, GetSession(c) PROVE ImportInv'
<1>1. PICK rows, step :
        /\ CsvStep(c, [c EXCEPT !.step = step, !.rows = rows])
        /\ step = "read" => IsOpen(c.session)
  <2> DEFINE rows == IF IsOpen(c.session) THEN sessions[c.session].rows ELSE NoRows
             accepted == /\ IsOpen(c.session)
                         /\ c.op = "resolve" => c.arg[1] \in DOMAIN rows
                         /\ c.op = "commit" => rows # NoRows /\ Ambiguous(rows) = {}
  <2>1. CsvStep(c, [c EXCEPT !.step = IF accepted THEN "read" ELSE "error", !.rows = rows])
    BY DEF GetSession
  <2>2. (IF accepted THEN "read" ELSE "error") = "read" => IsOpen(c.session)
    OBVIOUS
  <2> HIDE DEF rows, accepted
  <2> QED
    BY <2>1, <2>2
<1>2. PICK d : d = [c EXCEPT !.step = step, !.rows = rows]
  OBVIOUS
<1>3. /\ IsCall(d) /\ d.op = c.op /\ d.live = c.live /\ d.session = c.session
      /\ d.step = step
  BY <1>2 DEF ImportInv, Shape, IsCall
<1>4. c.step = "sent" /\ csvCalls' = (csvCalls \ {c}) \cup {d}
      /\ UNCHANGED <<wizard, sessions, applied, excused>>
  BY <1>1, <1>2 DEF GetSession, CsvStep
<1>5. d.step = "read" => sessions[d.session].state = "open"
  BY <1>1, <1>3 DEF IsOpen
<1>6. /\ sessions' = [t \in Sessions |-> sessions'[t]] /\ \A t \in Sessions : IsSession(sessions'[t])
      /\ \A t \in Sessions : sessions'[t].state = sessions[t].state
  BY <1>4 DEF ImportInv, Shape
<1> QED
  BY <1>3, <1>4, <1>5, <1>6, ServerStep

LEMMA UpdateStep == ASSUME ImportInv, NEW c \in csvCalls, UpdateSession(c) PROVE ImportInv'
<1>1. c.op # "commit" /\ c.step = "read" /\ UNCHANGED <<wizard, applied, excused>>
  BY DEF UpdateSession, CsvStep
<1>2. PICK rows, d :
        /\ csvCalls' = (csvCalls \ {c}) \cup {d}
        /\ \/ d = [c EXCEPT !.step = "ok", !.rows = rows]
              /\ sessions' = [sessions EXCEPT ![c.session].rows = rows]
           \/ d = [c EXCEPT !.step = "error"] /\ UNCHANGED sessions
  <2> DEFINE rows == IF c.op = "mapping" THEN Classify(c.arg[1])
                     ELSE [c.rows EXCEPT ![c.arg[1]] = c.arg[2]]
  <2>1. IF IsOpen(c.session)
        THEN /\ sessions' = [sessions EXCEPT ![c.session].rows = rows]
             /\ CsvStep(c, [c EXCEPT !.step = "ok", !.rows = rows])
        ELSE UNCHANGED sessions /\ CsvStep(c, [c EXCEPT !.step = "error"])
    BY DEF UpdateSession
  <2> HIDE DEF rows
  <2> QED
    BY <2>1 DEF CsvStep
<1>3. IsCall(d) /\ d.op = c.op /\ d.live = c.live
  BY <1>2 DEF ImportInv, Shape, IsCall
<1>4. /\ sessions' = [t \in Sessions |-> sessions'[t]] /\ \A t \in Sessions : IsSession(sessions'[t])
      /\ \A t \in Sessions : sessions'[t].state = sessions[t].state
  <2>1. CASE UNCHANGED sessions
    BY <2>1 DEF ImportInv, Shape
  <2>2. CASE sessions' = [sessions EXCEPT ![c.session].rows = rows]
    <3>1. sessions' = [t \in Sessions |-> IF t = c.session THEN [sessions[t] EXCEPT !.rows = rows]
                                          ELSE sessions[t]]
      BY <2>2 DEF ImportInv, Shape
    <3>2. ASSUME NEW r, IsSession(r)
          PROVE  IsSession([r EXCEPT !.rows = rows]) /\ [r EXCEPT !.rows = rows].state = r.state
      BY <3>2 DEF IsSession, Session
    <3> QED
      BY <3>1, <3>2 DEF ImportInv, Shape
  <2> QED
    BY <1>2, <2>1, <2>2
<1> QED
  BY <1>1, <1>2, <1>3, <1>4, ServerStep

(* The import: a first one, as the request is pristine, or one that fails.   *)
LEMMA CommitStep == ASSUME ImportInv, NEW c \in csvCalls, CommitRows(c) PROVE ImportInv'
<1>1. c.op = "commit" /\ c.step = "read" /\ UNCHANGED <<sessions, wizard, excused>>
  BY DEF CommitRows, CsvStep
<1>2. CASE /\ applied' = [applied EXCEPT ![c.session] = @ + 1]
           /\ CsvStep(c, [c EXCEPT !.step = "applied"])
  <2>1. PICK d : d = [c EXCEPT !.step = "applied"]
    OBVIOUS
  <2>2. IsCall(d) /\ d.op = c.op /\ d.live = c.live /\ d.session = c.session /\ d.step = "applied"
    BY <2>1 DEF ImportInv, Shape, IsCall
  <2>3. csvCalls' = (csvCalls \ {c}) \cup {d}
    BY <1>2, <2>1 DEF CsvStep
  <2>4. OnePerSession' /\ NothingBeside'
    BY <1>1, <2>2, <2>3, ReplaceCall
  <2>5. /\ applied' \in [Sessions -> Nat]
        /\ \A s \in Sessions : applied'[s] = IF s = c.session THEN applied[s] + 1 ELSE applied[s]
    <3>1. applied' = [applied EXCEPT ![c.session] = applied[c.session] + 1]
      BY <1>2
    <3>2. applied \in [Sessions -> Nat]
      BY DEF ImportInv, Shape
    <3>3. CASE c.session \in Sessions
      <4>1. applied[c.session] + 1 \in Nat
        BY <3>2, <3>3
      <4> QED
        BY <3>1, <3>2, <4>1
    <3>4. CASE c.session \notin Sessions
      <4>1. applied' = applied
        BY <3>1, <3>2, <3>4
      <4> QED
        BY <3>2, <3>4, <4>1
    <3> QED
      BY <3>3, <3>4
  <2>6. Shape'
    BY <1>1, <2>2, <2>3, <2>5 DEF ImportInv, Shape
  <2>7. Pristine(c) => applied[c.session] = 0
    BY <1>1 DEF ImportInv, ReadIsNotImported
  <2>8. ImportedIsGone'
    <3> SUFFICES ASSUME NEW s \in Sessions \ excused, applied'[s] > 0, sessions[s].state # "gone"
                 PROVE  \E e \in csvCalls' : Pristine(e)' /\ e.session = s /\ e.step = "applied"
      BY <1>1 DEF ImportedIsGone
    <3>1. CASE s = c.session
      <4>1. d \in csvCalls' /\ Pristine(d)'
        BY <1>1, <2>2, <2>3, <3>1 DEF Pristine
      <4> QED
        BY <2>2, <3>1, <4>1
    <3>2. CASE s # c.session
      <4>1. PICK e \in csvCalls : Pristine(e) /\ e.session = s /\ e.step = "applied"
        BY <2>5, <3>2 DEF ImportInv, ImportedIsGone
      <4> QED
        BY <1>1, <2>3, <3>2, <4>1 DEF Pristine
    <3> QED
      BY <3>1, <3>2
  <2>9. ReadIsNotImported'
    <3> SUFFICES ASSUME NEW e \in csvCalls', Pristine(e)', e.step = "read" PROVE applied'[e.session] = 0
      BY DEF ReadIsNotImported
    <3>1. e \in csvCalls /\ e # c /\ Pristine(e) /\ e.session \in Sessions
      BY <1>1, <2>2, <2>3 DEF Pristine
    <3>2. e.session # c.session
      BY <1>1, <3>1 DEF ImportInv, OnePerSession, Pristine
    <3> QED
      BY <2>5, <3>1, <3>2 DEF ImportInv, ReadIsNotImported
  <2>10. AtMostOnce'
    BY <1>1, <2>5, <2>7 DEF ImportInv, AtMostOnce, Pristine
  <2>11. FreeIsNew'
    BY <1>1, <2>2, <2>3, <2>5 DEF ImportInv, FreeIsNew
  <2> QED
    BY <2>4, <2>6, <2>8, <2>9, <2>10, <2>11 DEF ImportInv
<1>3. CASE UNCHANGED <<added, applied>> /\ CsvStep(c, [c EXCEPT !.step = "error"])
  <2>1. PICK d : d = [c EXCEPT !.step = "error"]
    OBVIOUS
  <2>2. IsCall(d) /\ d.op = c.op /\ d.live = c.live /\ d.session = c.session /\ d.step = "error"
    BY <2>1 DEF ImportInv, Shape, IsCall
  <2>3. csvCalls' = (csvCalls \ {c}) \cup {d}
    BY <1>3, <2>1 DEF CsvStep
  <2>4. /\ sessions' = [t \in Sessions |-> sessions'[t]] /\ \A t \in Sessions : IsSession(sessions'[t])
        /\ \A t \in Sessions : sessions'[t].state = sessions[t].state
    BY <1>1 DEF ImportInv, Shape
  <2> QED
    BY <1>1, <1>3, <2>2, <2>3, <2>4, ServerStep
<1> QED
  BY <1>2, <1>3 DEF CommitRows

(* After the import the session is gone, or a second one is excused.         *)
LEMMA DeleteStep == ASSUME ImportInv, NEW c \in csvCalls, DeleteSession(c) PROVE ImportInv'
<1>1. PICK d : d = [c EXCEPT !.step = "ok"]
  OBVIOUS
<1>2. IsCall(d) /\ d.op = c.op /\ d.live = c.live /\ d.session = c.session /\ d.step = "ok"
  BY <1>1 DEF ImportInv, Shape, IsCall
<1>3. /\ csvCalls' = (csvCalls \ {c}) \cup {d} /\ UNCHANGED <<wizard, applied>>
      /\ \/ sessions' = [sessions EXCEPT ![c.session] = Session("gone", NoRows)] /\ excused' = excused
         \/ sessions' = sessions /\ excused' = excused \cup {c.session}
  BY <1>1 DEF DeleteSession, CsvStep
<1>4. /\ sessions' = [t \in Sessions |-> sessions'[t]] /\ \A t \in Sessions : IsSession(sessions'[t])
      /\ \A t \in Sessions : sessions'[t].state \in {sessions[t].state, "gone"}
      /\ c.session \in Sessions \ excused' => sessions'[c.session].state = "gone"
  BY <1>3 DEF ImportInv, Shape, IsSession, Session
<1>5. excused \subseteq excused'
  BY <1>3
<1>6. OnePerSession' /\ NothingBeside'
  BY <1>2, <1>3, <1>5, ReplaceCall
<1>7. Shape'
  BY <1>2, <1>3, <1>4 DEF ImportInv, Shape
<1>8. ImportedIsGone'
  <2> SUFFICES ASSUME NEW s \in Sessions \ excused', applied[s] > 0, sessions'[s].state # "gone"
               PROVE  \E e \in csvCalls' : Pristine(e)' /\ e.session = s /\ e.step = "applied"
    BY <1>3 DEF ImportedIsGone
  <2>1. s # c.session /\ sessions[s].state # "gone"
    BY <1>3, <1>4
  <2>2. PICK e \in csvCalls : Pristine(e) /\ e.session = s /\ e.step = "applied"
    BY <1>5, <2>1 DEF ImportInv, ImportedIsGone
  <2> QED
    BY <1>3, <2>1, <2>2 DEF Pristine
<1>9. ReadIsNotImported' /\ AtMostOnce'
  BY <1>2, <1>3, <1>5 DEF ImportInv, ReadIsNotImported, AtMostOnce, Pristine
<1>10. FreeIsNew'
  BY <1>2, <1>3, <1>4 DEF ImportInv, FreeIsNew
<1> QED
  BY <1>6, <1>7, <1>8, <1>9, <1>10 DEF ImportInv

LEMMA GCStep == ASSUME ImportInv, NEW s \in Sessions, GC(s) PROVE ImportInv'
<1>1. /\ sessions' = [sessions EXCEPT ![s] = Session("gone", NoRows)]
      /\ UNCHANGED <<applied, wizard, csvCalls, excused>>
  BY DEF GC
<1>2. /\ sessions' = [t \in Sessions |-> sessions'[t]] /\ \A t \in Sessions : IsSession(sessions'[t])
      /\ \A t \in Sessions : sessions'[t].state \in {sessions[t].state, "gone"}
  BY <1>1 DEF ImportInv, Shape, IsSession, Session
<1>3. Shape' /\ FreeIsNew'
  BY <1>1, <1>2 DEF ImportInv, Shape, FreeIsNew
<1>4. ImportedIsGone'
  <2> SUFFICES ASSUME NEW t \in Sessions \ excused, applied[t] > 0, sessions'[t].state # "gone"
               PROVE  \E e \in csvCalls : Pristine(e) /\ e.session = t /\ e.step = "applied"
    BY <1>1 DEF ImportedIsGone, Pristine
  <2> QED
    BY <1>2 DEF ImportInv, ImportedIsGone
<1>5. OnePerSession' /\ NothingBeside' /\ ReadIsNotImported' /\ AtMostOnce'
  BY <1>1 DEF ImportInv, OnePerSession, NothingBeside, ReadIsNotImported, AtMostOnce, Pristine
<1> QED
  BY <1>3, <1>4, <1>5 DEF ImportInv

-----------------------------------------------------------------------------
(* The answers, and requests the browser no longer waits for.                *)
LEMMA EndedStep ==
  ASSUME NEW c, NEW ok, IsWizard(wizard), IsCall(c), Ended(c, ok) PROVE IsWizard(wizard')
<1>1. IsWizard(Shown(wizard, c))
  BY DEF IsWizard, IsCall, Ops, Shown
<1> QED
  BY <1>1 DEF Ended, IsWizard

LEMMA ReceiveStep == ASSUME ImportInv, NEW c \in csvCalls, ReceiveCsv(c) PROVE ImportInv'
<1>1. /\ csvCalls' = csvCalls \ {c} /\ c.step # "applied" /\ c.step # "read"
      /\ UNCHANGED <<sessions, applied, excused>>
  BY DEF ReceiveCsv
<1>2. IsWizard(wizard')
  BY EndedStep DEF ReceiveCsv, ImportInv, Shape
<1>3. Shape'
  BY <1>1, <1>2 DEF ImportInv, Shape
<1>4. NothingBeside'
  BY <1>1 DEF ImportInv, NothingBeside, Pristine
<1>5. ImportedIsGone'
  BY <1>1 DEF ImportInv, ImportedIsGone, Pristine
<1>6. OnePerSession' /\ ReadIsNotImported' /\ AtMostOnce' /\ FreeIsNew'
  BY <1>1 DEF ImportInv, OnePerSession, ReadIsNotImported, AtMostOnce, FreeIsNew, Pristine
<1> QED
  BY <1>3, <1>4, <1>5, <1>6 DEF ImportInv

LEMMA GiveUpStep == ASSUME ImportInv, NEW c \in csvCalls, GiveUpCsv(c) PROVE ImportInv'
<1>1. UNCHANGED <<sessions, applied, excused>>
  BY DEF GiveUpCsv
<1>2. IsWizard(wizard')
  BY EndedStep DEF GiveUpCsv, ImportInv, Shape
<1>3. CASE c.step \in {"ok", "error"}
  <2>1. csvCalls' = csvCalls \ {c}
    BY <1>3 DEF GiveUpCsv
  <2>2. Shape' /\ NothingBeside' /\ ImportedIsGone'
    BY <1>1, <1>2, <1>3, <2>1 DEF ImportInv, Shape, NothingBeside, ImportedIsGone, Pristine
  <2>3. OnePerSession' /\ ReadIsNotImported' /\ AtMostOnce' /\ FreeIsNew'
    BY <1>1, <2>1 DEF ImportInv, OnePerSession, ReadIsNotImported, AtMostOnce, FreeIsNew, Pristine
  <2> QED
    BY <2>2, <2>3 DEF ImportInv
<1>4. CASE c.step \notin {"ok", "error"}
  <2>1. PICK d : d = [c EXCEPT !.live = FALSE]
    OBVIOUS
  <2>2. IsCall(d) /\ d.op = c.op /\ ~d.live /\ d.session = c.session /\ d.step = c.step
    BY <2>1 DEF ImportInv, Shape, IsCall
  <2>3. csvCalls' = (csvCalls \ {c}) \cup {d}
    BY <1>4, <2>1 DEF GiveUpCsv
  <2>4. \A e \in csvCalls' : e = d \/ (e \in csvCalls /\ e # c)
    BY <2>3
  <2>5. NothingBeside'
    BY <1>1, <2>2, <2>4 DEF ImportInv, NothingBeside, Pristine
  <2>6. OnePerSession'
    BY <1>1, <2>2, <2>4 DEF ImportInv, OnePerSession, Pristine
  <2>7. ImportedIsGone'
    <3> SUFFICES ASSUME NEW s \in Sessions \ excused, applied[s] > 0, sessions[s].state # "gone"
                 PROVE  \E e \in csvCalls' : Pristine(e)' /\ e.session = s /\ e.step = "applied"
      BY <1>1 DEF ImportedIsGone
    <3>1. PICK e \in csvCalls : Pristine(e) /\ e.session = s /\ e.step = "applied"
      BY DEF ImportInv, ImportedIsGone
    <3>2. CASE e = c
      BY <1>1, <2>2, <2>3, <3>1, <3>2 DEF Pristine
    <3>3. CASE e # c
      BY <1>1, <2>3, <3>1, <3>3 DEF Pristine
    <3> QED
      BY <3>2, <3>3
  <2>8. ReadIsNotImported' /\ AtMostOnce' /\ FreeIsNew'
    BY <1>1, <2>2, <2>4 DEF ImportInv, ReadIsNotImported, AtMostOnce, FreeIsNew, Pristine
  <2>9. Shape'
    BY <1>1, <1>2, <2>2, <2>4 DEF ImportInv, Shape
  <2> QED
    BY <2>5, <2>6, <2>7, <2>8, <2>9 DEF ImportInv
<1> QED
  BY <1>3, <1>4

(* Another page: nothing is waited for any more, the server goes on.         *)
LEMMA LeaveStep == ASSUME ImportInv, CsvFollows PROVE ImportInv'
<1>1. CASE screen' = screen
  BY <1>1 DEF CsvFollows, csvVars, ImportInv, Shape, OnePerSession, NothingBeside, ImportedIsGone,
              ReadIsNotImported, AtMostOnce, FreeIsNew, Pristine
<1>2. CASE screen' # screen
  <2> DEFINE Left(c) == [c EXCEPT !.live = FALSE]
  <2>1. csvCalls' = {Left(c) : c \in csvCalls} /\ UNCHANGED <<sessions, applied, excused>>
    BY <1>2 DEF CsvFollows
  <2>2. ASSUME NEW c \in csvCalls
        PROVE  /\ IsCall(Left(c)) /\ Left(c).op = c.op /\ ~Left(c).live
               /\ Left(c).session = c.session /\ Left(c).step = c.step
    BY DEF ImportInv, Shape, IsCall
  <2>3. IsWizard(wizard')
    BY <1>2 DEF CsvFollows, NoWizard, IsWizard
  <2> HIDE DEF Left
  <2>4. Shape'
    BY <2>1, <2>2, <2>3 DEF ImportInv, Shape
  <2>5. OnePerSession'
    BY <2>1, <2>2 DEF ImportInv, OnePerSession, Pristine
  <2>6. NothingBeside'
    BY <2>1, <2>2 DEF NothingBeside
  <2>7. ImportedIsGone'
    <3> SUFFICES ASSUME NEW s \in Sessions \ excused, applied[s] > 0, sessions[s].state # "gone"
                 PROVE  \E e \in csvCalls' : Pristine(e)' /\ e.session = s /\ e.step = "applied"
      BY <2>1 DEF ImportedIsGone
    <3>1. PICK e \in csvCalls : Pristine(e) /\ e.session = s /\ e.step = "applied"
      BY DEF ImportInv, ImportedIsGone
    <3>2. PICK f \in csvCalls' : f = Left(e)
      BY <2>1
    <3> QED
      BY <2>1, <2>2, <3>1, <3>2 DEF Pristine
  <2>8. ReadIsNotImported' /\ AtMostOnce' /\ FreeIsNew'
    BY <2>1, <2>2 DEF ImportInv, ReadIsNotImported, AtMostOnce, FreeIsNew, Pristine
  <2> QED
    BY <2>4, <2>5, <2>6, <2>7, <2>8 DEF ImportInv
<1> QED
  BY <1>1, <1>2

LEMMA ImportStep == ImportInv /\ [Next]_vars => ImportInv'
<1> SUFFICES ASSUME ImportInv, [Next]_vars PROVE ImportInv'
  OBVIOUS
<1>1. CASE CsvFollows
  BY <1>1, LeaveStep
<1>2. CASE CsvNext
  BY <1>2, ButtonSteps, AdjustStep, LeaveStep, UploadStep, GetStep, UpdateStep, CommitStep, DeleteStep,
     ReceiveStep, GiveUpStep, GCStep
     DEF CsvNext, handleCancel
<1>3. CASE UNCHANGED vars
  BY <1>3 DEF vars, csvVars, ImportInv, Shape, OnePerSession, NothingBeside, ImportedIsGone,
              ReadIsNotImported, AtMostOnce, FreeIsNew, Pristine
<1>4. [Next]_vars => CsvFollows \/ CsvNext \/ UNCHANGED vars
  BY DEF Next, Browse, EditStations, EditTrips, EditEvent, ImportCsv
<1> QED
  BY <1>1, <1>2, <1>3, <1>4

(* However requests, answers and pages follow each other, and whatever fails *)
(* on the server, a session of the CSV import is imported at most once,      *)
(* unless one of the events that excused names has happened to it            *)
(* (csv.Handler.commit, CsvImportWizard).                                    *)
THEOREM ImportIsOnce == Spec => []ImportedOnce
<1>1. Init => ImportInv
  BY InitImport DEF Init
<1>2. ImportInv => ImportedOnce
  BY DEF ImportInv, Shape, AtMostOnce, ImportedOnce
<1> QED
  BY <1>1, <1>2, ImportStep, PTL DEF Spec
-----------------------------------------------------------------------------
(* What is imported is what was shown.  The shape of what the steps touch.   *)
IsShown(c) ==
  /\ DOMAIN c = {"op", "session", "arg", "rows", "shown", "step", "live"}
  /\ c.op \in Ops /\ c.session \in Sessions \cup {0}
  /\ c.step = "applied" => c.op = "commit"
ShowShape ==
  /\ sessions = [s \in Sessions |-> sessions[s]]
  /\ \A s \in Sessions : DOMAIN sessions[s] = {"state", "rows"}
  /\ DOMAIN wizard = {"on", "step", "session", "key", "rows", "busy"}
  /\ wizard.session \in Sessions \cup {0}
  /\ \A c \in csvCalls : IsShown(c)

(* A session exists before it is named, and while the upload that opened it  *)
(* is not answered nothing else names it.                                    *)
KnownSessions ==
  /\ wizard.session # 0 => sessions[wizard.session].state # "free"
  /\ \A c \in csvCalls : c.session # 0 => sessions[c.session].state # "free"
  /\ wizard.step = "upload" => wizard.session = 0
UploadsAreNew ==
  \A u \in csvCalls : u.op = "upload" =>
    IF u.step = "ok"
    THEN /\ u.session # 0 /\ wizard.session # u.session /\ sessions[u.session].rows = NoRows
         /\ \A c \in csvCalls : c.session = u.session => c = u
    ELSE u.session = 0

(* A request of a session that has not been crossed is the only one.  Until  *)
(* it is answered the preview offers no import: the wizard asks for the      *)
(* columns, or the row being resolved is still ambiguous.                    *)
Uncrossed(s) == s # 0 /\ s \notin crossed
LoneCalls == \A c \in csvCalls : c.op # "upload" /\ c.session \notin crossed => csvCalls = {c}
LoneEdits ==
  \A c \in csvCalls : c.session = wizard.session /\ Uncrossed(c.session) =>
    /\ c.op = "mapping" => wizard.step = "map"
    /\ c.op = "resolve" => c.arg[1] \in Ambiguous(wizard.rows)

(* Such an answer brings what the session holds; one of another session than *)
(* the wizard's is only late while the wizard's has no classes.              *)
HasRows(s) == IsOpen(s) /\ sessions[s].rows # NoRows
LoneAnswers ==
  \A c \in csvCalls : Uncrossed(c.session) /\ HasRows(c.session) =>
    /\ c.op \in {"mapping", "resolve"} /\ c.step = "ok" => c.rows = sessions[c.session].rows
    /\ c.op = "commit" /\ c.step = "sent" => c.shown = sessions[c.session].rows
LateAnswers ==
  \A c \in csvCalls :
    (c.live /\ c.op \in {"mapping", "resolve"} /\ c.session # wizard.session
       /\ Uncrossed(wizard.session)) => ~HasRows(wizard.session)
PreviewIsSession ==
  (Uncrossed(wizard.session) /\ HasRows(wizard.session) /\ wizard.step = "preview"
     /\ Ambiguous(wizard.rows) = {}) => wizard.rows = sessions[wizard.session].rows

ShowInv ==
  /\ ShowShape /\ KnownSessions /\ UploadsAreNew /\ LoneCalls /\ LoneEdits /\ LoneAnswers
  /\ LateAnswers /\ PreviewIsSession /\ CommitAsShown
-----------------------------------------------------------------------------
LEMMA InitShow == CsvInit => ShowInv
  BY DEF CsvInit, ShowInv, ShowShape, KnownSessions, UploadsAreNew, LoneCalls, LoneEdits,
         LoneAnswers, LateAnswers, PreviewIsSession, CommitAsShown, Uncrossed, NoWizard, Session

(* A request of the wizard: alone, or its session is crossed with those of   *)
(* the requests it meets.                                                    *)
LEMMA SendShows ==
  ASSUME ShowInv, NEW op \in Ops, NEW arg, SendCsv(op, arg),
         op = "upload" => wizard.step = "upload",
         op = "mapping" => wizard.step = "map",
         op = "resolve" => arg[1] \in Ambiguous(wizard.rows),
         op = "commit" => wizard.step = "preview" /\ Ambiguous(wizard.rows) = {}
  PROVE  ShowInv'
<1> PICK new : new = CsvCall(op, arg)
  OBVIOUS
<1>1. /\ IsShown(new) /\ new.op = op /\ new.session = wizard.session /\ new.arg = arg
      /\ new.shown = wizard.rows /\ new.step = "sent"
  BY DEF CsvCall, IsShown, ShowInv, ShowShape
<1>2. /\ csvCalls' = csvCalls \cup {new} /\ UNCHANGED <<sessions, added, applied>>
      /\ crossed \subseteq crossed'
      /\ csvCalls # {} => /\ wizard.session \in crossed'
                          /\ \A c \in csvCalls : c.session \in crossed'
  BY DEF SendCsv
<1>3. /\ DOMAIN wizard' = DOMAIN wizard /\ wizard'.step = wizard.step
      /\ wizard'.session = wizard.session /\ wizard'.rows = wizard.rows
  BY DEF SendCsv, ShowInv, ShowShape
<1>4. ShowShape' /\ KnownSessions'
  BY <1>1, <1>2, <1>3 DEF ShowInv, ShowShape, KnownSessions
<1>5. UploadsAreNew'
  <2>1. op = "upload" => new.session = 0
    BY <1>1 DEF ShowInv, KnownSessions
  <2> QED
    BY <1>1, <1>2, <1>3, <2>1 DEF ShowInv, UploadsAreNew
<1>6. ASSUME NEW c \in csvCalls', c.session \notin crossed' PROVE c = new /\ csvCalls = {}
  BY <1>1, <1>2, <1>6
<1>7. LoneCalls'
  BY <1>2, <1>6 DEF LoneCalls
<1>8. LoneEdits'
  BY <1>1, <1>2, <1>3, <1>6 DEF LoneEdits, Uncrossed
<1>9. LoneAnswers'
  <2>1. op = "commit" /\ Uncrossed(wizard.session) /\ HasRows(wizard.session)
          => wizard.rows = sessions[wizard.session].rows
    BY DEF ShowInv, PreviewIsSession
  <2> QED
    BY <1>1, <1>2, <1>6, <2>1 DEF LoneAnswers, Uncrossed, HasRows, IsOpen
<1>10. LateAnswers' /\ PreviewIsSession'
  BY <1>1, <1>2, <1>3 DEF ShowInv, LateAnswers, PreviewIsSession, Uncrossed, HasRows, IsOpen
<1>11. CommitAsShown'
  BY <1>1, <1>2 DEF ShowInv, CommitAsShown
<1> QED
  BY <1>4, <1>5, <1>7, <1>8, <1>9, <1>10, <1>11 DEF ShowInv

LEMMA AdjustShows == ASSUME ShowInv, ChangeKey \/ EditMapping PROVE ShowInv'
<1>1. /\ UNCHANGED <<sessions, csvCalls, crossed>>
      /\ DOMAIN wizard' = DOMAIN wizard /\ wizard'.session = wizard.session /\ wizard'.rows = wizard.rows
      /\ wizard'.step = "map" /\ wizard.step # "upload"
  BY DEF ChangeKey, EditMapping, Adjusted, ShowInv, ShowShape
<1>2. ShowShape' /\ KnownSessions' /\ UploadsAreNew' /\ LoneCalls'
  BY <1>1 DEF ShowInv, ShowShape, KnownSessions, UploadsAreNew, LoneCalls
<1>3. LoneEdits' /\ LoneAnswers' /\ LateAnswers' /\ PreviewIsSession' /\ CommitAsShown'
  BY <1>1 DEF ShowInv, LoneEdits, LoneAnswers, LateAnswers, PreviewIsSession, CommitAsShown,
              Uncrossed, HasRows, IsOpen
<1> QED
  BY <1>2, <1>3 DEF ShowInv

(* The server goes on with a request c, that is d next: it touches the       *)
(* session of c at most.                                                     *)
LEMMA ServerShows ==
  ASSUME ShowInv, NEW c \in csvCalls, NEW d, c.op # "upload",
         csvCalls' = (csvCalls \ {c}) \cup {d}, UNCHANGED <<wizard, crossed>>,
         IsShown(d), d.op = c.op, d.session = c.session, d.arg = c.arg, d.live = c.live,
         d.step # "sent",
         sessions' = [s \in Sessions |-> sessions'[s]],
         \A s \in Sessions : /\ DOMAIN sessions'[s] = {"state", "rows"}
                             /\ sessions'[s].state = "free" => sessions[s].state = "free"
                             /\ s # c.session => sessions'[s] = sessions[s],
         c.op = "commit" /\ c.session # 0 =>
           sessions'[c.session] = sessions[c.session] \/ sessions'[c.session].state = "gone",
         c.op \in {"mapping", "resolve"} /\ d.step = "ok" /\ c.session # 0 =>
           d.rows = sessions'[c.session].rows,
         c.op = "commit" /\ d.step \in {"read", "applied", "ok"} /\ c.session \notin crossed =>
           d.rows = d.shown
  PROVE  ShowInv'
<1>1. c.session \in Sessions \cup {0} /\ wizard.session \in Sessions \cup {0}
  BY DEF ShowInv, ShowShape, IsShown
<1>2. ShowShape' /\ KnownSessions'
  BY <1>1 DEF ShowInv, ShowShape, KnownSessions, IsShown
<1>3. UploadsAreNew'
  <2> SUFFICES ASSUME NEW u \in csvCalls', u.op = "upload"
               PROVE  IF u.step = "ok"
                      THEN /\ u.session # 0 /\ wizard.session # u.session
                           /\ sessions'[u.session].rows = NoRows
                           /\ \A e \in csvCalls' : e.session = u.session => e = u
                      ELSE u.session = 0
    BY DEF UploadsAreNew
  <2>1. u \in csvCalls /\ u # c /\ u.session \in Sessions \cup {0}
    BY DEF ShowInv, ShowShape, IsShown
  <2>2. u.step = "ok" => u.session # c.session
    BY <2>1 DEF ShowInv, UploadsAreNew
  <2>3. u.step = "ok" => sessions'[u.session] = sessions[u.session]
    BY <2>1, <2>2 DEF ShowInv, UploadsAreNew
  <2> QED
    BY <2>1, <2>2, <2>3 DEF ShowInv, UploadsAreNew
<1>4. ASSUME NEW e \in csvCalls', e.op # "upload", e.session \notin crossed
      PROVE  e = d /\ csvCalls = {c}
  BY <1>4 DEF ShowInv, LoneCalls
<1>5. LoneCalls'
  BY <1>4 DEF LoneCalls
<1>6. LoneEdits'
  BY <1>4 DEF ShowInv, LoneEdits, Uncrossed
<1>7. LoneAnswers'
  BY <1>4 DEF LoneAnswers, Uncrossed
<1>8. LateAnswers'
  <2> SUFFICES ASSUME NEW e \in csvCalls', e.live, e.op \in {"mapping", "resolve"},
                      e.session # wizard.session, Uncrossed(wizard.session), HasRows(wizard.session)'
               PROVE  FALSE
    BY DEF LateAnswers, Uncrossed
  <2>1. CASE c.session = wizard.session
    BY <1>4, <2>1 DEF ShowInv, LoneCalls, Uncrossed
  <2>2. CASE c.session # wizard.session
    <3>1. HasRows(wizard.session)
      BY <1>1, <2>2 DEF HasRows, IsOpen, Uncrossed
    <3> QED
      BY <3>1 DEF ShowInv, LateAnswers
  <2> QED
    BY <2>1, <2>2
<1>9. PreviewIsSession'
  <2> SUFFICES ASSUME Uncrossed(wizard.session), HasRows(wizard.session)', wizard.step = "preview",
                      Ambiguous(wizard.rows) = {}
               PROVE  wizard.rows = sessions'[wizard.session].rows
    BY DEF PreviewIsSession, Uncrossed, Ambiguous
  <2>1. sessions'[wizard.session] = sessions[wizard.session]
    <3>1. CASE c.session = wizard.session
      <4>1. c.op = "commit"
        BY <3>1 DEF ShowInv, ShowShape, IsShown, Ops, LoneEdits
      <4> QED
        BY <3>1, <4>1 DEF HasRows, IsOpen, Uncrossed
    <3>2. CASE c.session # wizard.session
      BY <1>1, <3>2 DEF Uncrossed
    <3> QED
      BY <3>1, <3>2
  <2>2. HasRows(wizard.session)
    BY <2>1 DEF HasRows, IsOpen
  <2> QED
    BY <2>1, <2>2 DEF ShowInv, PreviewIsSession
<1>10. CommitAsShown'
  BY DEF ShowInv, CommitAsShown
<1> QED
  BY <1>2, <1>3, <1>5, <1>6, <1>7, <1>8, <1>9, <1>10 DEF ShowInv

LEMMA GetShows == ASSUME ShowInv, NEW c \in csvCalls, GetSession(c) PROVE ShowInv'
<1> DEFINE rows == IF IsOpen(c.session) THEN sessions[c.session].rows ELSE NoRows
<1>1. PICK step \in {"read", "error"} :
        /\ step = "read" => IsOpen(c.session) /\ (c.op = "commit" => rows # NoRows)
        /\ csvCalls' = (csvCalls \ {c}) \cup {[c EXCEPT !.step = step, !.rows = rows]}
  <2> DEFINE accepted == /\ IsOpen(c.session)
                         /\ c.op = "resolve" => c.arg[1] \in DOMAIN rows
                         /\ c.op = "commit" => rows # NoRows /\ Ambiguous(rows) = {}
             step == IF accepted THEN "read" ELSE "error"
  <2>1. csvCalls' = (csvCalls \ {c}) \cup {[c EXCEPT !.step = step, !.rows = rows]}
    BY DEF GetSession, CsvStep
  <2>2. /\ step \in {"read", "error"}
        /\ step = "read" => IsOpen(c.session) /\ (c.op = "commit" => rows # NoRows)
    OBVIOUS
  <2> HIDE DEF step, rows
  <2> QED
    BY <2>1, <2>2
<1> PICK d : d = [c EXCEPT !.step = step, !.rows = rows]
  OBVIOUS
<1>2. /\ c.op \in {"mapping", "resolve", "commit"} /\ c.step = "sent"
      /\ UNCHANGED <<sessions, wizard, crossed>>
  BY DEF GetSession, CsvStep
<1>3. /\ IsShown(d) /\ d.op = c.op /\ d.session = c.session /\ d.arg = c.arg /\ d.live = c.live
      /\ d.step = step /\ d.rows = rows /\ d.shown = c.shown
  BY <1>1 DEF ShowInv, ShowShape, IsShown
<1> HIDE DEF rows
<1>4. c.op = "commit" /\ d.step = "read" /\ c.session \notin crossed => d.rows = d.shown
  <2> SUFFICES ASSUME c.op = "commit", d.step = "read", c.session \notin crossed PROVE d.rows = d.shown
    OBVIOUS
  <2>1. rows = sessions[c.session].rows /\ HasRows(c.session) /\ Uncrossed(c.session)
    BY <1>1, <1>3 DEF rows, HasRows, Uncrossed, IsOpen
  <2> QED
    BY <1>2, <1>3, <2>1 DEF ShowInv, LoneAnswers
<1>5. /\ sessions' = [s \in Sessions |-> sessions'[s]]
      /\ \A s \in Sessions : DOMAIN sessions'[s] = {"state", "rows"} /\ sessions'[s] = sessions[s]
  BY <1>2 DEF ShowInv, ShowShape
<1> QED
  BY <1>1, <1>2, <1>3, <1>4, <1>5, ServerShows

LEMMA UpdateShows == ASSUME ShowInv, NEW c \in csvCalls, UpdateSession(c) PROVE ShowInv'
<1> DEFINE rows == IF c.op = "mapping" THEN Classify(c.arg[1])
                   ELSE [c.rows EXCEPT ![c.arg[1]] = c.arg[2]]
<1>1. /\ c.op \in {"mapping", "resolve"} /\ UNCHANGED <<wizard, crossed>>
      /\ IF IsOpen(c.session)
         THEN /\ sessions' = [sessions EXCEPT ![c.session].rows = rows]
              /\ csvCalls' = (csvCalls \ {c}) \cup {[c EXCEPT !.step = "ok", !.rows = rows]}
         ELSE /\ sessions' = sessions
              /\ csvCalls' = (csvCalls \ {c}) \cup {[c EXCEPT !.step = "error"]}
  BY DEF UpdateSession, CsvStep
<1> HIDE DEF rows
<1>2. CASE IsOpen(c.session)
  <2> PICK d : d = [c EXCEPT !.step = "ok", !.rows = rows]
    OBVIOUS
  <2>1. /\ IsShown(d) /\ d.op = c.op /\ d.session = c.session /\ d.arg = c.arg /\ d.live = c.live
        /\ d.rows = rows /\ d.step = "ok"
    BY DEF ShowInv, ShowShape, IsShown
  <2>2. c.session \in Sessions
    BY <1>2 DEF ShowInv, ShowShape, IsShown, IsOpen
  <2>3. sessions' = [s \in Sessions |-> IF s = c.session THEN [sessions[s] EXCEPT !.rows = rows]
                                        ELSE sessions[s]]
    BY <1>1, <1>2, <2>2 DEF ShowInv, ShowShape
  <2>4. \A s \in Sessions : /\ DOMAIN sessions'[s] = {"state", "rows"}
                            /\ sessions'[s].state = sessions[s].state
                            /\ s # c.session => sessions'[s] = sessions[s]
                            /\ s = c.session => sessions'[s].rows = rows
    BY <2>3 DEF ShowInv, ShowShape
  <2>5. sessions' = [s \in Sessions |-> sessions'[s]]
    BY <2>3
  <2> QED
    BY <1>1, <1>2, <2>1, <2>2, <2>4, <2>5, ServerShows
<1>3. CASE ~IsOpen(c.session)
  <2> PICK d : d = [c EXCEPT !.step = "error"]
    OBVIOUS
  <2>1. /\ IsShown(d) /\ d.op = c.op /\ d.session = c.session /\ d.arg = c.arg /\ d.live = c.live
        /\ d.step = "error"
    BY DEF ShowInv, ShowShape, IsShown
  <2>2. /\ sessions' = [s \in Sessions |-> sessions'[s]]
        /\ \A s \in Sessions : DOMAIN sessions'[s] = {"state", "rows"} /\ sessions'[s] = sessions[s]
    BY <1>1, <1>3 DEF ShowInv, ShowShape
  <2> QED
    BY <1>1, <1>3, <2>1, <2>2, ServerShows
<1> QED
  BY <1>2, <1>3

LEMMA ImportShows ==
  ASSUME ShowInv, NEW c \in csvCalls, CommitRows(c) \/ DeleteSession(c)
  PROVE  ShowInv'
<1>1. PICK step \in {"applied", "error", "ok"} :
        /\ csvCalls' = (csvCalls \ {c}) \cup {[c EXCEPT !.step = step]}
        /\ c.op = "commit" /\ c.step \in {"read", "applied"} /\ UNCHANGED <<wizard, crossed>>
        /\ sessions' = sessions \/ sessions' = [sessions EXCEPT ![c.session] = Session("gone", NoRows)]
  BY DEF CommitRows, DeleteSession, CsvStep, ShowInv, ShowShape, IsShown
<1> PICK d : d = [c EXCEPT !.step = step]
  OBVIOUS
<1>2. /\ IsShown(d) /\ d.op = c.op /\ d.session = c.session /\ d.arg = c.arg /\ d.live = c.live
      /\ d.step = step /\ d.rows = c.rows /\ d.shown = c.shown
  BY <1>1 DEF ShowInv, ShowShape, IsShown
<1>3. /\ sessions' = [s \in Sessions |-> sessions'[s]]
      /\ \A s \in Sessions : DOMAIN sessions'[s] = {"state", "rows"}
      /\ \A s \in Sessions : \/ sessions'[s] = sessions[s]
                             \/ s = c.session /\ sessions'[s].state = "gone"
  BY <1>1 DEF ShowInv, ShowShape, Session
<1>4. c.session \notin crossed => d.rows = d.shown
  BY <1>1, <1>2 DEF ShowInv, CommitAsShown
<1>5. c.session # 0 => c.session \in Sessions
  BY DEF ShowInv, ShowShape, IsShown
<1> QED
  BY <1>1, <1>2, <1>3, <1>4, <1>5, ServerShows

(* A session is opened, and nothing names it yet.                            *)
LEMMA UploadShows == ASSUME ShowInv, NEW c \in csvCalls, ServeUpload(c) PROVE ShowInv'
<1>1. PICK s \in Sessions :
        /\ sessions[s].state = "free" /\ sessions' = [sessions EXCEPT ![s] = Session("open", NoRows)]
        /\ csvCalls' = (csvCalls \ {c}) \cup {[c EXCEPT !.session = s, !.step = "ok"]}
  BY DEF ServeUpload, CsvStep
<1> PICK d : d = [c EXCEPT !.session = s, !.step = "ok"]
  OBVIOUS
<1>2. c.op = "upload" /\ UNCHANGED <<wizard, crossed>>
  BY DEF ServeUpload, CsvStep
<1>3. IsShown(d) /\ d.op = "upload" /\ d.session = s /\ d.step = "ok" /\ s # 0
  BY <1>2, CsvAssumption DEF ShowInv, ShowShape, IsShown
<1>4. /\ sessions' = [t \in Sessions |-> sessions'[t]]
      /\ \A t \in Sessions : /\ DOMAIN sessions'[t] = {"state", "rows"}
                             /\ t # s => sessions'[t] = sessions[t]
      /\ sessions'[s].state = "open" /\ sessions'[s].rows = NoRows
  BY <1>1 DEF ShowInv, ShowShape, Session
<1>5. /\ wizard.session \in Sessions \cup {0} /\ wizard.session # s
      /\ \A e \in csvCalls : e.session \in Sessions \cup {0} /\ e.session # s
  BY <1>1, <1>3 DEF ShowInv, ShowShape, IsShown, KnownSessions
<1>6. ShowShape' /\ KnownSessions'
  BY <1>1, <1>2, <1>3, <1>4, <1>5 DEF ShowInv, ShowShape, KnownSessions
<1>7. UploadsAreNew'
  <2> SUFFICES ASSUME NEW u \in csvCalls', u.op = "upload"
               PROVE  IF u.step = "ok"
                      THEN /\ u.session # 0 /\ wizard.session # u.session
                           /\ sessions'[u.session].rows = NoRows
                           /\ \A e \in csvCalls' : e.session = u.session => e = u
                      ELSE u.session = 0
    BY <1>2 DEF UploadsAreNew
  <2>1. CASE u = d
    BY <1>1, <1>3, <1>4, <1>5, <2>1
  <2>2. CASE u # d
    <3>1. u \in csvCalls /\ u.session # s /\ u.session \in Sessions \cup {0}
      BY <1>1, <1>5, <2>2
    <3>2. u.session # 0 => sessions'[u.session] = sessions[u.session]
      BY <1>4, <3>1
    <3> QED
      BY <1>1, <1>3, <3>1, <3>2 DEF ShowInv, UploadsAreNew
  <2> QED
    BY <2>1, <2>2
<1>8. ASSUME NEW e \in csvCalls', e.op # "upload" PROVE e \in csvCalls /\ e.session \in crossed
  BY <1>1, <1>2, <1>3, <1>8 DEF ShowInv, LoneCalls
<1>9. LoneCalls' /\ LoneEdits' /\ LoneAnswers'
  BY <1>2, <1>8 DEF LoneCalls, LoneEdits, LoneAnswers, Uncrossed
<1>10. HasRows(wizard.session)' => HasRows(wizard.session)
  BY <1>2, <1>4, <1>5 DEF HasRows, IsOpen
<1>11. sessions'[wizard.session] = sessions[wizard.session] \/ wizard.session = 0
  BY <1>4, <1>5
<1>12. LateAnswers' /\ PreviewIsSession'
  BY <1>2, <1>8, <1>10, <1>11 DEF ShowInv, LateAnswers, PreviewIsSession, Uncrossed, HasRows
<1>13. CommitAsShown'
  BY <1>2, <1>8 DEF ShowInv, CommitAsShown
<1> QED
  BY <1>6, <1>7, <1>9, <1>12, <1>13 DEF ShowInv

LEMMA GCShows == ASSUME ShowInv, NEW s \in Sessions, GC(s) PROVE ShowInv'
<1>1. /\ sessions' = [sessions EXCEPT ![s] = Session("gone", NoRows)]
      /\ UNCHANGED <<wizard, csvCalls, crossed>>
  BY DEF GC
<1>2. /\ sessions' = [t \in Sessions |-> sessions'[t]]
      /\ \A t \in Sessions : /\ DOMAIN sessions'[t] = {"state", "rows"}
                             /\ t # s => sessions'[t] = sessions[t]
      /\ sessions'[s].state = "gone" /\ sessions'[s].rows = NoRows
  BY <1>1 DEF ShowInv, ShowShape, Session
<1>3. /\ wizard.session \in Sessions \cup {0}
      /\ \A e \in csvCalls : e.session \in Sessions \cup {0}
  BY DEF ShowInv, ShowShape, IsShown
<1>4. \A t \in Sessions \cup {0} :
        HasRows(t)' => HasRows(t) /\ sessions'[t] = sessions[t]
  BY <1>2 DEF HasRows, IsOpen
<1>5. ShowShape' /\ KnownSessions'
  BY <1>1, <1>2, <1>3 DEF ShowInv, ShowShape, KnownSessions
<1>6. UploadsAreNew'
  BY <1>1, <1>2, <1>3 DEF ShowInv, UploadsAreNew
<1>7. LoneCalls' /\ LoneEdits' /\ CommitAsShown'
  BY <1>1 DEF ShowInv, LoneCalls, LoneEdits, CommitAsShown, Uncrossed, Ambiguous
<1>8. LoneAnswers' /\ LateAnswers' /\ PreviewIsSession'
  BY <1>1, <1>3, <1>4 DEF ShowInv, LoneAnswers, LateAnswers, PreviewIsSession, Uncrossed, Ambiguous
<1> QED
  BY <1>5, <1>6, <1>7, <1>8 DEF ShowInv

(* The answer.  Whatever it makes the wizard show is what its session holds, *)
(* if nothing has crossed it.                                                *)
LEMMA EndedShows ==
  ASSUME ShowInv, NEW c \in csvCalls, NEW ok \in BOOLEAN, Ended(c, ok)
  PROVE  /\ DOMAIN wizard' = DOMAIN wizard
         /\ \/ wizard'.step = wizard.step /\ wizard'.session = wizard.session /\ wizard'.rows = wizard.rows
            \/ /\ ok /\ c.live
               /\ \/ c.op = "upload" /\ wizard'.session = c.session /\ wizard'.step = "map"
                  \/ /\ c.op = "mapping" /\ wizard'.session = wizard.session
                     /\ wizard'.step = "preview" /\ wizard'.rows = c.rows
                  \/ /\ c.op = "resolve" /\ wizard'.session = wizard.session
                     /\ wizard'.step = wizard.step /\ wizard'.rows = c.rows
                  \/ /\ c.op = "commit" /\ wizard'.session = wizard.session /\ wizard'.step = "done"
<1>1. /\ DOMAIN wizard = {"on", "step", "session", "key", "rows", "busy"} /\ c.op \in Ops
  BY DEF ShowInv, ShowShape, IsShown
<1>2. CASE ~c.live
  BY <1>2 DEF Ended
<1>3. CASE c.live /\ ~ok
  BY <1>1, <1>3 DEF Ended
<1>4. CASE c.live /\ ok
  <2>1. wizard' = [Shown(wizard, c) EXCEPT !.busy = FALSE]
    BY <1>4 DEF Ended
  <2> QED
    BY <1>1, <1>4, <2>1 DEF Shown, Ops
<1> QED
  BY <1>2, <1>3, <1>4

LEMMA AnswerShows ==
  ASSUME ShowInv, NEW c \in csvCalls, ReceiveCsv(c) \/ GiveUpCsv(c)
  PROVE  ShowInv'
<1>1. PICK ok \in BOOLEAN : Ended(c, ok) /\ (ok => c.step = "ok" /\ csvCalls' = csvCalls \ {c})
  <2>1. CASE ReceiveCsv(c)
    BY <2>1 DEF ReceiveCsv
  <2>2. CASE GiveUpCsv(c)
    BY <2>2 DEF GiveUpCsv
  <2> QED
    BY <2>1, <2>2
<1>2. /\ UNCHANGED <<sessions, crossed>>
      /\ \/ csvCalls' = csvCalls \ {c}
         \/ csvCalls' = (csvCalls \ {c}) \cup {[c EXCEPT !.live = FALSE]}
  BY DEF ReceiveCsv, GiveUpCsv
<1> PICK d : d = [c EXCEPT !.live = FALSE]
  OBVIOUS
<1>3. /\ IsShown(d) /\ d.op = c.op /\ d.session = c.session /\ d.arg = c.arg /\ ~d.live
      /\ d.rows = c.rows /\ d.shown = c.shown /\ d.step = c.step
  BY DEF ShowInv, ShowShape, IsShown
<1>4. ASSUME NEW e \in csvCalls'
      PROVE  \E b \in csvCalls :
               /\ b = e \/ (b = c /\ e = d)
               /\ e.op = b.op /\ e.session = b.session /\ e.arg = b.arg /\ e.rows = b.rows
               /\ e.shown = b.shown /\ e.step = b.step /\ (e.live => b.live) /\ IsShown(e)
  BY <1>2, <1>3 DEF ShowInv, ShowShape
<1>5. LoneCalls'
  <2> SUFFICES ASSUME NEW e \in csvCalls', e.op # "upload", e.session \notin crossed
               PROVE  csvCalls' = {e}
    BY <1>2 DEF LoneCalls
  <2>1. csvCalls = {c}
    BY <1>4 DEF ShowInv, LoneCalls
  <2> QED
    BY <1>2, <2>1
<1>6. /\ \A e \in csvCalls : e.op # "upload" /\ e.session \notin crossed => csvCalls = {e}
      /\ c.session \in Sessions \cup {0} /\ wizard.session \in Sessions \cup {0}
  BY DEF ShowInv, LoneCalls, ShowShape, IsShown
<1>7. LoneAnswers' /\ CommitAsShown'
  BY <1>2, <1>4 DEF ShowInv, LoneAnswers, CommitAsShown, Uncrossed, HasRows, IsOpen
<1>8. CASE wizard'.step = wizard.step /\ wizard'.session = wizard.session /\ wizard'.rows = wizard.rows
  <2>1. ShowShape' /\ KnownSessions'
    BY <1>1, <1>2, <1>4, <1>8, EndedShows DEF ShowInv, ShowShape, KnownSessions
  <2>2. UploadsAreNew'
    <3> SUFFICES ASSUME NEW u \in csvCalls', u.op = "upload"
                 PROVE  IF u.step = "ok"
                        THEN /\ u.session # 0 /\ wizard.session # u.session
                             /\ sessions[u.session].rows = NoRows
                             /\ \A e \in csvCalls' : e.session = u.session => e = u
                        ELSE u.session = 0
      BY <1>2, <1>8 DEF UploadsAreNew
    <3>1. CASE csvCalls' = csvCalls \ {c}
      BY <3>1 DEF ShowInv, UploadsAreNew
    <3>2. CASE csvCalls' = (csvCalls \ {c}) \cup {d}
      <4>1. CASE u = d
        BY <1>3, <3>2, <4>1 DEF ShowInv, UploadsAreNew
      <4>2. CASE u # d
        <5>1. u \in csvCalls /\ u # c
          BY <3>2, <4>2
        <5>2. u.step = "ok" => c.session # u.session
          BY <5>1 DEF ShowInv, UploadsAreNew
        <5> QED
          BY <1>3, <3>2, <5>1, <5>2 DEF ShowInv, UploadsAreNew
      <4> QED
        BY <4>1, <4>2
    <3> QED
      BY <1>2, <3>1, <3>2
  <2>3. LoneEdits' /\ LateAnswers'
    BY <1>2, <1>4, <1>8 DEF ShowInv, LoneEdits, LateAnswers, Uncrossed, HasRows, IsOpen
  <2>4. PreviewIsSession'
    BY <1>2, <1>8 DEF ShowInv, PreviewIsSession, Uncrossed, HasRows, IsOpen
  <2> QED
    BY <1>5, <1>7, <2>1, <2>2, <2>3, <2>4 DEF ShowInv
<1>9. CASE /\ ok /\ c.live /\ c.op = "upload" /\ wizard'.session = c.session /\ wizard'.step = "map"
  <2>1. /\ csvCalls' = csvCalls \ {c} /\ c.session # 0 /\ sessions[c.session].rows = NoRows
        /\ \A e \in csvCalls : e.session = c.session => e = c
    BY <1>1, <1>9 DEF ShowInv, UploadsAreNew
  <2>2. ShowShape' /\ KnownSessions'
    <3>1. IsShown(c) /\ c.session \in Sessions /\ sessions[c.session].state # "free"
      BY <2>1 DEF ShowInv, ShowShape, KnownSessions, IsShown
    <3>2. ShowShape'
      BY <1>1, <1>2, <1>9, <2>1, <3>1, EndedShows DEF ShowInv, ShowShape
    <3>3. KnownSessions'
      BY <1>2, <1>9, <2>1, <3>1 DEF ShowInv, KnownSessions
    <3> QED
      BY <3>2, <3>3
  <2>3. UploadsAreNew'
    BY <1>2, <1>9, <2>1 DEF ShowInv, UploadsAreNew
  <2>4. LoneEdits' /\ LateAnswers' /\ PreviewIsSession'
    BY <1>2, <1>9, <2>1 DEF LoneEdits, LateAnswers, PreviewIsSession, HasRows, IsOpen
  <2> QED
    BY <1>5, <1>7, <2>2, <2>3, <2>4 DEF ShowInv
<1>10. CASE /\ ok /\ c.live /\ wizard'.session = wizard.session
            /\ \/ c.op = "mapping" /\ wizard'.step = "preview" /\ wizard'.rows = c.rows
               \/ c.op = "resolve" /\ wizard'.step = wizard.step /\ wizard'.rows = c.rows
               \/ c.op = "commit" /\ wizard'.step = "done"
  <2>1. csvCalls' = csvCalls \ {c} /\ c.step = "ok"
    BY <1>1, <1>10
  <2>2. ShowShape' /\ UploadsAreNew'
    <3>1. ShowShape'
      BY <1>1, <1>2, <1>10, <2>1, EndedShows DEF ShowInv, ShowShape
    <3>2. UploadsAreNew'
      BY <1>2, <1>10, <2>1 DEF ShowInv, UploadsAreNew
    <3> QED
      BY <3>1, <3>2
  <2>3. KnownSessions'
    BY <1>2, <1>10, <2>1 DEF ShowInv, KnownSessions
  <2>4. LoneEdits'
    BY <1>2, <1>6, <1>10, <2>1 DEF LoneEdits, Uncrossed
  <2>5. LateAnswers'
    BY <1>2, <1>10, <2>1 DEF ShowInv, LateAnswers, Uncrossed, HasRows, IsOpen
  <2>6. PreviewIsSession'
    <3> SUFFICES ASSUME Uncrossed(wizard.session), HasRows(wizard.session), c.op \in {"mapping", "resolve"}
                 PROVE  c.rows = sessions[wizard.session].rows
      BY <1>2, <1>10 DEF PreviewIsSession, Uncrossed, HasRows, IsOpen
    <3>1. c.session = wizard.session
      BY <1>10 DEF ShowInv, LateAnswers
    <3> QED
      BY <2>1, <3>1 DEF ShowInv, LoneAnswers
  <2> QED
    BY <1>5, <1>7, <2>2, <2>3, <2>4, <2>5, <2>6 DEF ShowInv
<1> QED
  BY <1>1, <1>8, <1>9, <1>10, EndedShows

LEMMA LeaveShows == ASSUME ShowInv, CsvFollows PROVE ShowInv'
<1>1. CASE screen' = screen
  BY <1>1 DEF CsvFollows, csvVars, ShowInv, ShowShape, KnownSessions, UploadsAreNew, LoneCalls, LoneEdits,
              LoneAnswers, LateAnswers, PreviewIsSession, CommitAsShown, Uncrossed, HasRows, IsOpen, Ambiguous
<1>2. CASE screen' # screen
  <2> DEFINE Left(c) == [c EXCEPT !.live = FALSE]
  <2>1. csvCalls' = {Left(c) : c \in csvCalls} /\ UNCHANGED <<sessions, crossed>>
    BY <1>2 DEF CsvFollows
  <2>2. ASSUME NEW c \in csvCalls
        PROVE  /\ IsShown(Left(c)) /\ Left(c).op = c.op /\ ~Left(c).live /\ Left(c).arg = c.arg
               /\ Left(c).session = c.session /\ Left(c).step = c.step
               /\ Left(c).rows = c.rows /\ Left(c).shown = c.shown
    BY DEF ShowInv, ShowShape, IsShown
  <2>3. /\ DOMAIN wizard' = {"on", "step", "session", "key", "rows", "busy"}
        /\ wizard'.session = 0 /\ wizard'.step = "upload"
    BY <1>2 DEF CsvFollows, NoWizard
  <2> HIDE DEF Left
  <2>4. ShowShape' /\ KnownSessions'
    BY <2>1, <2>2, <2>3 DEF ShowInv, ShowShape, KnownSessions
  <2>5. UploadsAreNew' /\ LoneCalls'
    BY <2>1, <2>2, <2>3 DEF ShowInv, UploadsAreNew, LoneCalls
  <2>6. LoneEdits' /\ LateAnswers' /\ PreviewIsSession'
    BY <2>1, <2>2, <2>3 DEF LoneEdits, LateAnswers, PreviewIsSession, Uncrossed
  <2>7. LoneAnswers' /\ CommitAsShown'
    BY <2>1, <2>2 DEF ShowInv, LoneAnswers, CommitAsShown, Uncrossed, HasRows, IsOpen
  <2> QED
    BY <2>4, <2>5, <2>6, <2>7 DEF ShowInv
<1> QED
  BY <1>1, <1>2

LEMMA ShowStep == ShowInv /\ [Next]_vars => ShowInv'
<1> SUFFICES ASSUME ShowInv, [Next]_vars PROVE ShowInv'
  OBVIOUS
<1>1. CASE CsvNext
  <2>1. CASE onFile \/ submitMapping \/ commit
    BY <2>1, SendShows DEF onFile, submitMapping, commit, Ops
  <2>2. CASE \E row \in FileRows, choice \in {"new", "update", "skip"} : resolveRow(row, choice)
    BY <2>2, SendShows DEF resolveRow, Ops
  <2> QED
    BY <1>1, <2>1, <2>2, AdjustShows, LeaveShows, UploadShows, GetShows, UpdateShows, ImportShows,
       AnswerShows, GCShows DEF CsvNext, handleCancel
<1>2. CASE UNCHANGED vars
  BY <1>2 DEF vars, csvVars, ShowInv, ShowShape, KnownSessions, UploadsAreNew, LoneCalls, LoneEdits,
              LoneAnswers, LateAnswers, PreviewIsSession, CommitAsShown, Uncrossed, HasRows, IsOpen, Ambiguous
<1>3. [Next]_vars => CsvFollows \/ CsvNext \/ UNCHANGED vars
  BY DEF Next, Browse, EditStations, EditTrips, EditEvent, ImportCsv
<1> QED
  BY <1>1, <1>2, <1>3, LeaveShows

(* What the server imports is what the preview showed when the import was    *)
(* confirmed, whatever was uploaded, given up or left before, unless the     *)
(* session's requests crossed others (csv.Handler, CsvImportWizard).         *)
THEOREM CommitsAreShown == Spec => []CommitAsShown
<1>1. Init => ShowInv
  BY InitShow DEF Init
<1>2. ShowInv => CommitAsShown
  BY DEF ShowInv
<1> QED
  BY <1>1, <1>2, ShowStep, PTL DEF Spec

-----------------------------------------------------------------------------
(* The types, with the numbers: no row is inserted and no session imported   *)
(* more often than imports were asked for and are not on their way.          *)
Awaits(c) == c.op = "commit" /\ c.step \in {"sent", "read"}
Awaited(calls) == {c \in calls : Awaits(c)}
CsvShape ==
  /\ sessions = [s \in Sessions |-> sessions[s]]
  /\ \A s \in Sessions : sessions[s].state \in {"free", "open", "gone"} /\ IsRows(sessions[s].rows)
  /\ wizard.step \in {"upload", "map", "preview", "done"} /\ IsRows(wizard.rows)
  /\ \A c \in csvCalls : IsRows(c.rows) /\ (c.op = "resolve" => c.arg[2] \in Classes)
Tally ==
  /\ IsFiniteSet(csvCalls) /\ csvSends \in Nat /\ csvSends <= MaxCsvSends
  /\ added \in [FileRows -> Nat] /\ applied \in [Sessions -> Nat]
  /\ \A r \in FileRows : added[r] + Cardinality(Awaited(csvCalls)) <= csvSends
  /\ \A s \in Sessions : applied[s] + Cardinality(Awaited(csvCalls)) <= csvSends
CsvInv == ShowInv /\ CsvShape /\ Tally

LEMMA AwaitedNumber ==
  ASSUME NEW calls, IsFiniteSet(calls)
  PROVE  IsFiniteSet(Awaited(calls)) /\ Cardinality(Awaited(calls)) \in Nat
BY FS_Subset, FS_CardinalityType DEF Awaited

LEMMA FewerAwaited ==
  ASSUME Tally, IsFiniteSet(csvCalls'), UNCHANGED <<added, applied, csvSends>>,
         Cardinality(Awaited(csvCalls)) \in Nat, Cardinality(Awaited(csvCalls')) \in Nat,
         Cardinality(Awaited(csvCalls')) <= Cardinality(Awaited(csvCalls))
  PROVE  Tally'
<1> DEFINE old == Cardinality(Awaited(csvCalls))
           new == Cardinality(Awaited(csvCalls'))
<1>1. /\ csvSends \in Nat /\ csvSends <= MaxCsvSends
      /\ added \in [FileRows -> Nat] /\ applied \in [Sessions -> Nat]
      /\ \A r \in FileRows : added[r] + old <= csvSends
      /\ \A s \in Sessions : applied[s] + old <= csvSends
  BY DEF Tally
<1>2. old \in Nat /\ new \in Nat /\ new <= old
  OBVIOUS
<1> HIDE DEF old, new
<1>3. \A r \in FileRows : added[r] + new <= csvSends
  BY <1>1, <1>2
<1>4. \A s \in Sessions : applied[s] + new <= csvSends
  BY <1>1, <1>2
<1> QED
  BY <1>1, <1>3, <1>4 DEF Tally, new

(* A request goes on as d: it awaits its import, or it does no longer.       *)
LEMMA TallyGoesOn ==
  ASSUME Tally, NEW c \in csvCalls, NEW d, Awaits(d) => Awaits(c), csvCalls' = (csvCalls \ {c}) \cup {d},
         UNCHANGED <<added, applied, csvSends>>
  PROVE  Tally'
<1>1. IsFiniteSet(Awaited(csvCalls)) /\ Cardinality(Awaited(csvCalls)) \in Nat
  BY AwaitedNumber DEF Tally
<1>2. IsFiniteSet(csvCalls')
  BY FS_Subset, FS_AddElement DEF Tally
<1>3. Cardinality(Awaited(csvCalls')) \in Nat
  BY <1>2, AwaitedNumber
<1>4. Cardinality(Awaited(csvCalls')) <= Cardinality(Awaited(csvCalls))
  <2>1. CASE Awaits(d)
    <3> DEFINE rest == Awaited(csvCalls) \ {c}
    <3>1. c \in Awaited(csvCalls) /\ Awaited(csvCalls') = rest \cup {d}
      BY <2>1 DEF Awaited
    <3>2. IsFiniteSet(rest) /\ Cardinality(rest) = Cardinality(Awaited(csvCalls)) - 1
      BY <1>1, <3>1, FS_RemoveElement
    <3> HIDE DEF rest
    <3>3. Cardinality(rest \cup {d}) = IF d \in rest THEN Cardinality(rest) ELSE Cardinality(rest) + 1
      BY <3>2, FS_AddElement
    <3>4. Cardinality(rest) \in Nat
      BY <3>2, FS_CardinalityType
    <3>5. Cardinality(rest \cup {d}) <= Cardinality(Awaited(csvCalls))
      BY <1>1, <3>2, <3>3, <3>4
    <3> QED
      BY <3>1, <3>5
  <2>2. CASE ~Awaits(d)
    <3>1. Awaited(csvCalls') \subseteq Awaited(csvCalls)
      BY <2>2 DEF Awaited
    <3> QED
      BY <1>1, <3>1, FS_Subset
  <2> QED
    BY <2>1, <2>2
<1> QED
  BY <1>1, <1>2, <1>3, <1>4, FewerAwaited

LEMMA TallyEnds ==
  ASSUME Tally, NEW calls, calls \subseteq csvCalls, csvCalls' = calls,
         UNCHANGED <<added, applied, csvSends>>
  PROVE  Tally'
<1>1. IsFiniteSet(Awaited(csvCalls)) /\ Cardinality(Awaited(csvCalls)) \in Nat
  BY AwaitedNumber DEF Tally
<1>2. IsFiniteSet(calls)
  BY FS_Subset DEF Tally
<1>3. Cardinality(Awaited(calls)) \in Nat /\ Cardinality(Awaited(calls)) <= Cardinality(Awaited(csvCalls))
  <2>1. Awaited(calls) \subseteq Awaited(csvCalls)
    BY DEF Awaited
  <2> QED
    BY <1>1, <1>2, <2>1, AwaitedNumber, FS_Subset
<1> QED
  BY <1>1, <1>2, <1>3, FewerAwaited

(* The import itself: one request less awaits, one more has been done.       *)
LEMMA TallyCounts ==
  ASSUME Tally, NEW c \in csvCalls, CommitRows(c), c.session \in Sessions \cup {0},
         DOMAIN c = {"op", "session", "arg", "rows", "shown", "step", "live"}
  PROVE  Tally'
<1>1. Awaits(c)
  BY DEF CommitRows, Awaits
<1>2. CASE added' = added /\ applied' = applied /\ CsvStep(c, [c EXCEPT !.step = "error"])
  <2>1. UNCHANGED csvSends /\ csvCalls' = (csvCalls \ {c}) \cup {[c EXCEPT !.step = "error"]}
    BY <1>2 DEF CsvStep
  <2> QED
    BY <1>1, <1>2, <2>1, TallyGoesOn
<1>3. CASE /\ added' = [r \in FileRows |-> added[r] + IF c.rows[r] = "new" THEN 1 ELSE 0]
           /\ applied' = [applied EXCEPT ![c.session] = @ + 1]
           /\ CsvStep(c, [c EXCEPT !.step = "applied"])
  <2> DEFINE d == [c EXCEPT !.step = "applied"]
  <2>1. UNCHANGED csvSends /\ csvCalls' = (csvCalls \ {c}) \cup {d}
    BY <1>3 DEF CsvStep
  <2>2. ~Awaits(d)
    BY DEF Awaits
  <2>3. Awaited(csvCalls') = Awaited(csvCalls) \ {c} /\ c \in Awaited(csvCalls)
    BY <1>1, <2>1, <2>2 DEF Awaited
  <2>4. IsFiniteSet(csvCalls')
    BY <2>1, FS_Subset, FS_AddElement DEF Tally
  <2>5. IsFiniteSet(Awaited(csvCalls)) /\ Cardinality(Awaited(csvCalls)) \in Nat
    BY AwaitedNumber DEF Tally
  <2>6. Cardinality(Awaited(csvCalls')) = Cardinality(Awaited(csvCalls)) - 1 /\ Cardinality(Awaited(csvCalls')) \in Nat
    BY <2>3, <2>4, <2>5, FS_RemoveElement, AwaitedNumber
  <2>7. \A r \in FileRows : added'[r] \in {added[r], added[r] + 1} /\ added[r] \in Nat
    BY <1>3 DEF Tally
  <2>8. /\ applied' \in [Sessions -> Nat]
        /\ \A s \in Sessions : applied'[s] \in {applied[s], applied[s] + 1} /\ applied[s] \in Nat
    <3>1. applied \in [Sessions -> Nat]
      BY DEF Tally
    <3>2. CASE c.session \in Sessions
      BY <1>3, <3>1, <3>2
    <3>3. CASE c.session \notin Sessions
      <4>1. applied' = applied
        BY <1>3, <3>1, <3>3
      <4> QED
        BY <3>1, <4>1
    <3> QED
      BY <3>2, <3>3
  <2>9. added' \in [FileRows -> Nat]
    BY <1>3, <2>7
  <2> HIDE DEF d
  <2>10. \A r \in FileRows : added'[r] + Cardinality(Awaited(csvCalls')) <= csvSends
    BY <2>5, <2>6, <2>7 DEF Tally
  <2>11. \A s \in Sessions : applied'[s] + Cardinality(Awaited(csvCalls')) <= csvSends
    BY <2>5, <2>6, <2>8 DEF Tally
  <2> QED
    BY <2>1, <2>4, <2>8, <2>9, <2>10, <2>11 DEF Tally
<1> QED
  BY <1>2, <1>3 DEF CommitRows

LEMMA TallySends ==
  ASSUME Tally, NEW op, NEW arg, SendCsv(op, arg)
  PROVE  Tally'
<1> PICK new : new = CsvCall(op, arg)
  OBVIOUS
<1> DEFINE old == Cardinality(Awaited(csvCalls))
           now == Cardinality(Awaited(csvCalls'))
<1>1. /\ csvCalls' = csvCalls \cup {new} /\ csvSends' = csvSends + 1 /\ csvSends < MaxCsvSends
      /\ UNCHANGED <<added, applied>>
  BY DEF SendCsv
<1>2. IsFiniteSet(Awaited(csvCalls)) /\ old \in Nat
  BY AwaitedNumber DEF Tally
<1>3. IsFiniteSet(csvCalls')
  BY <1>1, FS_AddElement DEF Tally
<1>4. now \in Nat
  BY <1>3, AwaitedNumber
<1>5. now <= old + 1
  <2>1. Awaited(csvCalls') \subseteq Awaited(csvCalls) \cup {new}
    BY <1>1 DEF Awaited
  <2>2. IsFiniteSet(Awaited(csvCalls) \cup {new})
    BY <1>2, FS_AddElement
  <2>3. Cardinality(Awaited(csvCalls) \cup {new}) = IF new \in Awaited(csvCalls) THEN old ELSE old + 1
    BY <1>2, FS_AddElement
  <2>4. now <= Cardinality(Awaited(csvCalls) \cup {new})
    BY <2>1, <2>2, FS_Subset
  <2> QED
    BY <1>2, <1>4, <2>3, <2>4
<1>6. /\ csvSends \in Nat /\ added \in [FileRows -> Nat] /\ applied \in [Sessions -> Nat]
      /\ \A r \in FileRows : added[r] + old <= csvSends
      /\ \A s \in Sessions : applied[s] + old <= csvSends
  BY DEF Tally
<1> HIDE DEF old, now
<1>7. csvSends' \in Nat /\ csvSends' <= MaxCsvSends
  BY <1>1, <1>6, CsvAssumption
<1>8. /\ \A r \in FileRows : added[r] + now <= csvSends'
      /\ \A s \in Sessions : applied[s] + now <= csvSends'
  BY <1>1, <1>2, <1>4, <1>5, <1>6
<1> QED
  BY <1>1, <1>3, <1>6, <1>7, <1>8 DEF Tally, now

LEMMA NoRowsAreRows == IsRows(NoRows)
  BY DEF IsRows

LEMMA SendTypes ==
  ASSUME CsvInv, NEW op, NEW arg, SendCsv(op, arg), op = "resolve" => arg[2] \in Classes
  PROVE  CsvShape' /\ Tally'
<1> PICK new : new = CsvCall(op, arg)
  OBVIOUS
<1>1. new.rows = NoRows /\ new.op = op /\ new.arg = arg
  BY DEF CsvCall
<1>2. /\ csvCalls' = csvCalls \cup {new} /\ UNCHANGED sessions
      /\ wizard'.step = wizard.step /\ wizard'.rows = wizard.rows
  BY DEF SendCsv, CsvInv, ShowInv, ShowShape
<1>3. CsvShape'
  BY <1>1, <1>2, NoRowsAreRows DEF CsvInv, CsvShape
<1> QED
  BY <1>3, TallySends DEF CsvInv

LEMMA AdjustTypes ==
  ASSUME CsvInv, ChangeKey \/ EditMapping
  PROVE  CsvShape' /\ Tally'
<1>1. /\ UNCHANGED <<sessions, added, applied, csvCalls, csvSends>>
      /\ wizard'.rows = wizard.rows /\ wizard'.step \in {wizard.step, "map"}
  BY DEF ChangeKey, EditMapping, Adjusted, CsvInv, ShowInv, ShowShape
<1>2. CsvShape'
  BY <1>1 DEF CsvInv, CsvShape
<1> QED
  BY <1>1, <1>2 DEF CsvInv, Tally

LEMMA GCTypes == ASSUME CsvInv, NEW s \in Sessions, GC(s) PROVE CsvShape' /\ Tally'
<1>1. UNCHANGED <<added, applied, csvCalls, csvSends, wizard>>
  BY DEF GC
<1>2. /\ sessions' = [t \in Sessions |-> sessions'[t]]
      /\ \A t \in Sessions : sessions'[t] = IF t = s THEN Session("gone", NoRows) ELSE sessions[t]
  BY DEF GC, CsvInv, CsvShape
<1>3. CsvShape'
  BY <1>1, <1>2, NoRowsAreRows DEF CsvInv, CsvShape, Session
<1> QED
  BY <1>1, <1>3 DEF CsvInv, Tally

(* The server goes on with request c.                                        *)
LEMMA ServerTypes ==
  ASSUME CsvInv, NEW c \in csvCalls, NEW d, csvCalls' = (csvCalls \ {c}) \cup {d}, UNCHANGED <<wizard, csvSends, added, applied>>,
         sessions' = [s \in Sessions |-> sessions'[s]],
         \A s \in Sessions : \/ sessions'[s] = sessions[s]
                             \/ sessions'[s].state \in {"free", "open", "gone"} /\ IsRows(sessions'[s].rows),
         IsRows(d.rows), d.op = c.op, d.arg = c.arg, Awaits(d) => Awaits(c)
  PROVE  CsvShape' /\ Tally'
<1>1. Tally'
  BY TallyGoesOn DEF CsvInv
<1>2. \A e \in csvCalls' : IsRows(e.rows) /\ (e.op = "resolve" => e.arg[2] \in Classes)
  BY DEF CsvInv, CsvShape
<1>3. wizard'.step \in {"upload", "map", "preview", "done"} /\ IsRows(wizard'.rows)
  BY DEF CsvInv, CsvShape
<1>4. \A s \in Sessions : sessions'[s].state \in {"free", "open", "gone"} /\ IsRows(sessions'[s].rows)
  BY DEF CsvInv, CsvShape
<1> QED
  BY <1>1, <1>2, <1>3, <1>4 DEF CsvShape

LEMMA ClassesOfRows ==
  /\ \A key : IsRows(Classify(key))
  /\ \A rows, r, class : IsRows(rows) /\ class \in Classes => IsRows([rows EXCEPT ![r] = class])
<1>1. ASSUME NEW key PROVE IsRows(Classify(key))
  <2> DEFINE n(r) == Matches[key][r] + added[r]
             class(r) == CASE r \in FaultyRows -> "error"
                           [] r \notin FaultyRows /\ (Matches[key][r] = -1 \/ n(r) = 0) -> "new"
                           [] r \notin FaultyRows /\ Matches[key][r] # -1 /\ n(r) = 1 -> "update"
                           [] OTHER -> "ambiguous"
  <2>1. \A r \in FileRows : class(r) \in Classes
    <3> HIDE DEF n
    <3> QED
      BY DEF Classes
  <2>2. Classify(key) = [r \in FileRows |-> class(r)]
    BY DEF Classify
  <2> HIDE DEF class
  <2> QED
    BY <2>1, <2>2 DEF IsRows
<1>2. ASSUME NEW rows, NEW r, NEW class \in Classes, IsRows(rows) PROVE IsRows([rows EXCEPT ![r] = class])
  <2>1. CASE rows = NoRows
    <3>1. [rows EXCEPT ![r] = class] = NoRows
      BY <2>1 DEF NoRows
    <3> QED
      BY <3>1, NoRowsAreRows
  <2>2. CASE rows \in [FileRows -> Classes]
    BY <2>2 DEF IsRows
  <2> QED
    BY <1>2, <2>1, <2>2 DEF IsRows
<1> QED
  BY <1>1, <1>2

LEMMA HandlerTypes ==
  ASSUME CsvInv, NEW c \in csvCalls,
         ServeUpload(c) \/ GetSession(c) \/ UpdateSession(c) \/ CommitRows(c) \/ DeleteSession(c)
  PROVE  CsvShape' /\ Tally'
<1>1. /\ IsShown(c) /\ IsRows(c.rows) /\ (c.op = "resolve" => c.arg[2] \in Classes)
      /\ sessions = [s \in Sessions |-> sessions[s]]
      /\ \A s \in Sessions : sessions[s].state \in {"free", "open", "gone"} /\ IsRows(sessions[s].rows)
  BY DEF CsvInv, CsvShape, ShowInv, ShowShape
<1>2. CASE ServeUpload(c)
  <2>1. PICK s \in Sessions : /\ sessions' = [sessions EXCEPT ![s] = Session("open", NoRows)]
                              /\ CsvStep(c, [c EXCEPT !.session = s, !.step = "ok"])
    BY <1>2 DEF ServeUpload
  <2> DEFINE d == [c EXCEPT !.session = s, !.step = "ok"]
  <2>2. d.rows = c.rows /\ d.op = c.op /\ d.arg = c.arg /\ ~Awaits(d)
    BY <1>1 DEF IsShown, Awaits
  <2>3. csvCalls' = (csvCalls \ {c}) \cup {d} /\ UNCHANGED <<wizard, csvSends, added, applied>>
    BY <1>2, <2>1 DEF CsvStep, ServeUpload
  <2>4. /\ sessions' = [t \in Sessions |-> sessions'[t]]
        /\ \A t \in Sessions : \/ sessions'[t] = sessions[t]
                               \/ sessions'[t].state \in {"free", "open", "gone"} /\ IsRows(sessions'[t].rows)
    BY <1>1, <2>1, NoRowsAreRows DEF Session
  <2> HIDE DEF d
  <2> QED
    BY <1>1, <2>2, <2>3, <2>4, ServerTypes
<1>3. CASE GetSession(c)
  <2>1. PICK rows, step : /\ CsvStep(c, [c EXCEPT !.step = step, !.rows = rows])
                          /\ rows = IF IsOpen(c.session) THEN sessions[c.session].rows ELSE NoRows
    BY <1>3 DEF GetSession
  <2>2. IsRows(rows)
    BY <1>1, <2>1, NoRowsAreRows DEF IsShown, IsOpen
  <2>3. Awaits(c) \/ c.op # "commit"
    BY <1>3 DEF GetSession, Awaits
  <2> DEFINE d == [c EXCEPT !.step = step, !.rows = rows]
  <2>4. d.rows = rows /\ d.op = c.op /\ d.arg = c.arg /\ (Awaits(d) => Awaits(c))
    BY <1>1, <2>3 DEF IsShown, Awaits
  <2>5. csvCalls' = (csvCalls \ {c}) \cup {d} /\ UNCHANGED <<wizard, csvSends, added, applied, sessions>>
    BY <1>3, <2>1 DEF CsvStep, GetSession
  <2> HIDE DEF d
  <2> QED
    BY <1>1, <2>2, <2>4, <2>5, ServerTypes
<1>4. CASE UpdateSession(c)
  <2>1. PICK rows : /\ rows = IF c.op = "mapping" THEN Classify(c.arg[1]) ELSE [c.rows EXCEPT ![c.arg[1]] = c.arg[2]]
                    /\ IF IsOpen(c.session)
                       THEN /\ sessions' = [sessions EXCEPT ![c.session].rows = rows]
                            /\ CsvStep(c, [c EXCEPT !.step = "ok", !.rows = rows])
                       ELSE UNCHANGED sessions /\ CsvStep(c, [c EXCEPT !.step = "error"])
    BY <1>4 DEF UpdateSession
  <2>2. c.op \in {"mapping", "resolve"} /\ UNCHANGED <<wizard, csvSends, added, applied>>
    BY <1>4, <2>1 DEF UpdateSession, CsvStep
  <2>3. IsRows(rows)
    BY <1>1, <2>1, <2>2, ClassesOfRows
  <2>4. PICK d : /\ csvCalls' = (csvCalls \ {c}) \cup {d}
                 /\ d \in {[c EXCEPT !.step = "ok", !.rows = rows], [c EXCEPT !.step = "error"]}
    BY <2>1 DEF CsvStep
  <2>5. IsRows(d.rows) /\ d.op = c.op /\ d.arg = c.arg /\ ~Awaits(d)
    BY <1>1, <2>2, <2>3, <2>4 DEF IsShown, Awaits
  <2>6. /\ sessions' = [t \in Sessions |-> sessions'[t]]
        /\ \A t \in Sessions : \/ sessions'[t] = sessions[t]
                               \/ sessions'[t].state \in {"free", "open", "gone"} /\ IsRows(sessions'[t].rows)
    <3>1. CASE IsOpen(c.session)
      <4>1. c.session \in Sessions /\ "rows" \in DOMAIN sessions[c.session] /\ "state" \in DOMAIN sessions[c.session]
        BY <1>1, <3>1 DEF IsShown, IsOpen, CsvInv, ShowInv, ShowShape
      <4>2. /\ sessions' = [t \in Sessions |-> sessions'[t]]
            /\ \A t \in Sessions : sessions'[t] = IF t = c.session THEN [sessions[t] EXCEPT !.rows = rows] ELSE sessions[t]
        BY <1>1, <2>1, <3>1, <4>1
      <4>3. sessions'[c.session].rows = rows /\ sessions'[c.session].state = sessions[c.session].state
        BY <4>1, <4>2
      <4> QED
        BY <1>1, <2>3, <4>1, <4>2, <4>3
    <3>2. CASE ~IsOpen(c.session)
      BY <1>1, <2>1, <3>2
    <3> QED
      BY <3>1, <3>2
  <2> QED
    BY <2>2, <2>4, <2>5, <2>6, ServerTypes
<1>5. CASE CommitRows(c)
  <2>1. Tally'
    BY <1>1, <1>5, TallyCounts DEF CsvInv, IsShown
  <2>2. PICK d : csvCalls' = (csvCalls \ {c}) \cup {d} /\ d \in {[c EXCEPT !.step = "applied"], [c EXCEPT !.step = "error"]}
    BY <1>5 DEF CommitRows, CsvStep
  <2>3. IsRows(d.rows) /\ d.op = c.op /\ d.arg = c.arg
    BY <1>1, <2>2 DEF IsShown
  <2>4. UNCHANGED <<wizard, sessions>>
    BY <1>5 DEF CommitRows, CsvStep
  <2> QED
    BY <2>1, <2>2, <2>3, <2>4 DEF CsvInv, CsvShape
<1>6. CASE DeleteSession(c)
  <2> DEFINE d == [c EXCEPT !.step = "ok"]
  <2>1. d.rows = c.rows /\ d.op = c.op /\ d.arg = c.arg /\ ~Awaits(d)
    BY <1>1 DEF IsShown, Awaits
  <2>2. csvCalls' = (csvCalls \ {c}) \cup {d} /\ UNCHANGED <<wizard, csvSends, added, applied>>
    BY <1>6 DEF CsvStep, DeleteSession
  <2>3. /\ sessions' = [t \in Sessions |-> sessions'[t]]
        /\ \A t \in Sessions : \/ sessions'[t] = sessions[t]
                               \/ sessions'[t].state \in {"free", "open", "gone"} /\ IsRows(sessions'[t].rows)
    BY <1>1, <1>6, NoRowsAreRows DEF Session, DeleteSession
  <2> HIDE DEF d
  <2> QED
    BY <1>1, <2>1, <2>2, <2>3, ServerTypes
<1> QED
  BY <1>2, <1>3, <1>4, <1>5, <1>6

LEMMA EndedTypes ==
  ASSUME CsvInv, NEW c \in csvCalls, NEW ok \in BOOLEAN, Ended(c, ok)
  PROVE  wizard'.step \in {"upload", "map", "preview", "done"} /\ IsRows(wizard'.rows)
<1>1. /\ DOMAIN wizard = {"on", "step", "session", "key", "rows", "busy"}
      /\ wizard.step \in {"upload", "map", "preview", "done"} /\ IsRows(wizard.rows)
      /\ IsRows(c.rows) /\ c.op \in Ops
  BY DEF CsvInv, CsvShape, ShowInv, ShowShape, IsShown
<1>2. /\ DOMAIN Shown(wizard, c) = DOMAIN wizard
      /\ Shown(wizard, c).step \in {"upload", "map", "preview", "done"} /\ IsRows(Shown(wizard, c).rows)
  BY <1>1 DEF Shown, Ops
<1>3. PICK w : w \in {wizard, Shown(wizard, c)} /\ (wizard' = wizard \/ wizard' = [w EXCEPT !.busy = FALSE])
  BY DEF Ended
<1>4. DOMAIN w = DOMAIN wizard /\ w.step \in {"upload", "map", "preview", "done"} /\ IsRows(w.rows)
  BY <1>1, <1>2, <1>3
<1> QED
  BY <1>1, <1>3, <1>4

LEMMA AnswerTypes ==
  ASSUME CsvInv, NEW c \in csvCalls, ReceiveCsv(c) \/ GiveUpCsv(c)
  PROVE  CsvShape' /\ Tally'
<1>1. UNCHANGED <<sessions, added, applied, csvSends>> /\ \E ok \in BOOLEAN : Ended(c, ok)
  BY DEF ReceiveCsv, GiveUpCsv
<1>2. wizard'.step \in {"upload", "map", "preview", "done"} /\ IsRows(wizard'.rows)
  BY <1>1, EndedTypes
<1>3. CASE csvCalls' = csvCalls \ {c}
  <2>1. Tally'
    BY <1>1, <1>3, TallyEnds DEF CsvInv
  <2> QED
    BY <1>1, <1>2, <1>3, <2>1 DEF CsvInv, CsvShape
<1>4. CASE csvCalls' = (csvCalls \ {c}) \cup {[c EXCEPT !.live = FALSE]}
  <2> DEFINE d == [c EXCEPT !.live = FALSE]
  <2>1. d.rows = c.rows /\ d.op = c.op /\ d.arg = c.arg /\ (Awaits(d) => Awaits(c))
    BY DEF CsvInv, ShowInv, ShowShape, IsShown, Awaits
  <2> HIDE DEF d
  <2>2. csvCalls' = (csvCalls \ {c}) \cup {d}
    BY <1>4 DEF d
  <2>3. Tally'
    BY <1>1, <2>1, <2>2, TallyGoesOn DEF CsvInv
  <2> QED
    BY <1>1, <1>2, <2>1, <2>2, <2>3 DEF CsvInv, CsvShape
<1> QED
  BY <1>3, <1>4 DEF ReceiveCsv, GiveUpCsv

(* Leaving the page maps the requests to orphans: no more of them.           *)
LEMMA LeaveTypes == ASSUME CsvInv, CsvFollows PROVE CsvShape' /\ Tally'
<1>1. CASE screen' = screen
  BY <1>1 DEF CsvFollows, csvVars, CsvInv, CsvShape, Tally
<1>2. CASE screen' # screen
  <2> DEFINE orphan == [c \in csvCalls |-> [c EXCEPT !.live = FALSE]]
             leaving == [c \in Awaited(csvCalls) |-> orphan[c]]
  <2>1. /\ csvCalls' = {orphan[c] : c \in csvCalls} /\ UNCHANGED <<sessions, added, applied, csvSends>>
        /\ wizard' = [NoWizard EXCEPT !.on = IsImport(screen')]
    BY <1>2 DEF CsvFollows
  <2>2. wizard'.step = "upload" /\ wizard'.rows = NoRows
    BY <2>1 DEF NoWizard
  <2>3. \A c \in csvCalls : /\ orphan[c].rows = c.rows /\ orphan[c].op = c.op /\ orphan[c].arg = c.arg
                            /\ orphan[c].step = c.step
    BY DEF CsvInv, ShowInv, ShowShape, IsShown
  <2>4. CsvShape'
    <3> HIDE DEF orphan
    <3>1. \A d \in csvCalls' : IsRows(d.rows) /\ (d.op = "resolve" => d.arg[2] \in Classes)
      BY <2>1, <2>3 DEF CsvInv, CsvShape
    <3> QED
      BY <2>1, <2>2, <3>1, NoRowsAreRows DEF CsvInv, CsvShape
  <2>5. IsFiniteSet(csvCalls')
    <3>1. orphan \in Surjection(csvCalls, csvCalls')
      BY <2>1 DEF Surjection
    <3> HIDE DEF orphan
    <3> QED
      BY <3>1, FS_Surjection DEF CsvInv, Tally
  <2>6. IsFiniteSet(Awaited(csvCalls)) /\ Cardinality(Awaited(csvCalls)) \in Nat
    BY AwaitedNumber DEF CsvInv, Tally
  <2>7. Cardinality(Awaited(csvCalls')) <= Cardinality(Awaited(csvCalls))
    <3> HIDE DEF orphan
    <3>1. leaving \in Surjection(Awaited(csvCalls), Awaited(csvCalls'))
      <4>1. \A c \in csvCalls : Awaits(orphan[c]) <=> Awaits(c)
        BY <2>3 DEF Awaits
      <4>2. \A c \in Awaited(csvCalls) : leaving[c] = orphan[c] /\ orphan[c] \in Awaited(csvCalls')
        BY <2>1, <4>1 DEF Awaited
      <4>3. \A d \in Awaited(csvCalls') : \E c \in Awaited(csvCalls) : leaving[c] = d
        BY <2>1, <4>1 DEF Awaited
      <4>4. leaving \in [Awaited(csvCalls) -> Awaited(csvCalls')]
        BY <4>2
      <4> QED
        BY <4>3, <4>4 DEF Surjection
    <3> HIDE DEF leaving
    <3> QED
      BY <2>6, <3>1, FS_Surjection
  <2>8. Cardinality(Awaited(csvCalls')) \in Nat
    BY <2>5, AwaitedNumber
  <2>9. Tally'
    BY <2>1, <2>5, <2>6, <2>7, <2>8, FewerAwaited DEF CsvInv
  <2> QED
    BY <2>4, <2>9
<1> QED
  BY <1>1, <1>2

LEMMA TypeStep == CsvInv /\ [Next]_vars => CsvInv'
<1> SUFFICES ASSUME CsvInv, [Next]_vars PROVE CsvInv'
  OBVIOUS
<1>1. ShowInv'
  BY ShowStep DEF CsvInv
<1>2. CASE CsvNext
  <2>1. CASE onFile \/ submitMapping \/ commit
    BY <1>1, <2>1, SendTypes DEF onFile, submitMapping, commit, CsvInv
  <2>2. ASSUME NEW row \in FileRows, NEW choice \in {"new", "update", "skip"}, resolveRow(row, choice)
        PROVE  CsvInv'
    <3>1. SendCsv("resolve", <<row, choice>>) /\ <<row, choice>>[2] \in Classes
      BY <2>2 DEF resolveRow, Classes
    <3> QED
      BY <1>1, <3>1, SendTypes DEF CsvInv
  <2> QED
    BY <1>1, <1>2, <2>1, <2>2, AdjustTypes, LeaveTypes, HandlerTypes, AnswerTypes, GCTypes
       DEF CsvNext, handleCancel, CsvInv
<1>3. CASE UNCHANGED vars
  BY <1>1, <1>3 DEF vars, csvVars, CsvInv, CsvShape, Tally
<1>4. [Next]_vars => CsvFollows \/ CsvNext \/ UNCHANGED vars
  BY DEF Next, Browse, EditStations, EditTrips, EditEvent, ImportCsv
<1> QED
  BY <1>1, <1>2, <1>3, <1>4, LeaveTypes DEF CsvInv

LEMMA InitCsvInv == Init => CsvInv
<1> SUFFICES ASSUME CsvInit, ShowInv PROVE CsvShape /\ Tally
  BY InitShow DEF Init, CsvInv
<1>1. CsvShape
  BY NoRowsAreRows DEF CsvInit, CsvShape, Session, NoWizard
<1>2. Awaited(csvCalls) = {} /\ IsFiniteSet(csvCalls) /\ Cardinality(Awaited(csvCalls)) = 0
  BY FS_EmptySet DEF CsvInit, Awaited
<1>3. Tally
  BY <1>2, CsvAssumption DEF CsvInit, Tally
<1> QED
  BY <1>1, <1>3

(* The types of the import: no row of a file is inserted, and no session     *)
(* imported, more often than requests were sent.                             *)
LEMMA CsvInvTypes == CsvInv => CsvTypeOK
<1> SUFFICES ASSUME CsvInv PROVE CsvTypeOK
  OBVIOUS
<1>1. Cardinality(Awaited(csvCalls)) \in Nat
  BY AwaitedNumber DEF CsvInv, Tally
<1>2. added \in [FileRows -> 0..MaxCsvSends]
  <2>1. \A r \in FileRows : added[r] \in 0..MaxCsvSends
    BY <1>1, CsvAssumption DEF CsvInv, Tally
  <2> QED
    BY <2>1 DEF CsvInv, Tally
<1>3. applied \in [Sessions -> 0..MaxCsvSends]
  <2>1. \A s \in Sessions : applied[s] \in 0..MaxCsvSends
    BY <1>1, CsvAssumption DEF CsvInv, Tally
  <2> QED
    BY <2>1 DEF CsvInv, Tally
<1> QED
  BY <1>2, <1>3 DEF CsvInv, CsvShape, CsvTypeOK, ShowInv, ShowShape, IsShown

-----------------------------------------------------------------------------
(* The event row.                                                            *)
Tabs == {"none", "wizard", "evenement", "roadbook", "donnees"}
IsPage(p) ==
  /\ DOMAIN p = {"tab", "name", "coordinator", "roadbook", "backup", "busy"}
  /\ p.tab \in Tabs
  /\ p.name \in Values /\ p.coordinator \in Values /\ p.roadbook \in Values /\ p.backup \in Values
IsRequest(c) ==
  /\ DOMAIN c = {"op", "tab", "body", "logo", "blind", "step", "live", "settled", "alone"}
  /\ c.op \in {"put", "logo"} /\ c.tab \in Tabs \ {"none"}
  /\ c.body \in Rows /\ c.logo \in {0, 1}
EventShape ==
  /\ eventRow \in Rows /\ eventSeen \in Rows
  /\ IsPage(page)
  /\ fetch = NoFetch \/ (fetch.step \in {"asked", "read"} /\ fetch.row \in Rows)
  /\ \A c \in eventCalls : IsRequest(c)

(* Requests that will set the copy to the row they have written, and those   *)
(* that will have it read anew.                                              *)
WillSet(c) == c.op = "put" /\ c.tab \in {"evenement", "wizard"} /\ c.step \in {"tiles", "ok"}
WillRead(c) == c.step = "ok" /\ (c.tab = "donnees" \/ c.op = "logo")

AloneIsAlone == \A c \in eventCalls : c.alone => eventCalls = {c}
ReadIsCurrent == ~suspect /\ fetch.step = "read" => fetch.row = eventRow
AnswerIsCurrent == \A c \in eventCalls : c.alone /\ WillSet(c) => c.body = eventRow
WillBeCurrent ==
  ~suspect => \/ eventSeen = eventRow \/ fetch.step \in {"asked", "read"}
              \/ \E c \in eventCalls : WillSet(c) \/ WillRead(c)

(* A settled request carries the other pages' fields as they are, and one    *)
(* whose handler has read the row its logo.                                  *)
SettledBodies ==
  \A c \in eventCalls : (c.settled /\ c.alone /\ c.op = "put" /\ c.step \in {"sent", "read"}) =>
    \A field \in DOMAIN eventRow \ (Owned(c.tab) \cup {"logo"}) : c.body[field] = eventRow[field]
LogoIsRead ==
  \A c \in eventCalls : (c.alone /\ c.op = "put" /\ c.step = "read" /\ ~c.blind) => c.logo = eventRow.logo

EventInv ==
  /\ EventShape /\ AloneIsAlone /\ ReadIsCurrent /\ AnswerIsCurrent /\ WillBeCurrent
  /\ SettledBodies /\ LogoIsRead
-----------------------------------------------------------------------------
LEMMA EmptyRow == NoEvent \in Rows
  BY EventAssumption DEF NoEvent, Rows

LEMMA FreshIsPage == ASSUME NEW tab \in Tabs, NEW seen \in Rows PROVE IsPage(Fresh(tab, seen))
  BY EventAssumption DEF Fresh, IsPage, NoPage, Rows, Tabs

LEMMA PageAfterIsPage ==
  ASSUME EventShape, NEW to, NEW seen \in Rows, NEW answered
  PROVE  IsPage(PageAfter(to, seen, answered))
<1> DEFINE tab == TabOf(to, seen)
<1>1. tab \in Tabs
  BY DEF TabOf, readTab, Tabs
<1>2. IsPage(Fresh(tab, seen)) /\ (page.tab \in Tabs => IsPage(Fresh(page.tab, seen)))
  BY <1>1, FreshIsPage
<1>3. IsPage(Reseeded(page, eventSeen, seen, answered))
  <2>1. /\ seen.name \in Values /\ seen.coordinator \in Values
        /\ seen.roadbook \in Values /\ seen.backup \in Values
    BY DEF Rows
  <2> QED
    BY <1>2, <2>1 DEF EventShape, Reseeded, IsPage
<1>4. ASSUME NEW p, IsPage(p) PROVE IsPage([p EXCEPT !.busy = page.busy])
  BY <1>4 DEF IsPage
<1> QED
  BY <1>2, <1>3, <1>4 DEF PageAfter

LEMMA IdleIsPage == ASSUME NEW p, IsPage(p), NEW calls PROVE IsPage(Idle(p, calls))
  BY DEF IsPage, Idle

LEMMA BodyIsRow ==
  ASSUME EventShape
  PROVE  /\ Body(page.tab) \in Rows
         /\ \A field \in DOMAIN eventRow \ (Owned(page.tab) \cup {"logo"}) :
              Body(page.tab)[field] = eventSeen[field]
<1>1. /\ page.name \in Values /\ page.coordinator \in Values
      /\ page.roadbook \in Values /\ page.backup \in Values /\ eventSeen \in Rows /\ eventRow \in Rows
  BY DEF EventShape, IsPage
<1>2. /\ Typed(eventSeen.name, page.name) \in Values
      /\ Typed(eventSeen.coordinator, page.coordinator) \in Values
  BY <1>1 DEF Typed, Rows
<1>3. DOMAIN eventRow = {"name", "coordinator", "roadbook", "backup", "logo", "region"}
  BY <1>1 DEF Rows
<1>4. CASE page.tab = "evenement"
  BY <1>1, <1>2, <1>3, <1>4 DEF Body, Owned, Rows
<1>5. CASE page.tab = "roadbook"
  BY <1>1, <1>3, <1>5 DEF Body, Owned, Rows
<1>6. CASE page.tab = "donnees"
  BY <1>1, <1>3, <1>6 DEF Body, Owned, Rows
<1>7. CASE page.tab \notin {"evenement", "roadbook", "donnees"}
  <2>1. Body(page.tab) = [NoEvent EXCEPT !.name = page.name, !.region = 1]
    BY <1>7 DEF Body
  <2>2. Body(page.tab) \in Rows
    BY <1>1, <2>1, EventAssumption DEF NoEvent, Rows
  <2>3. Owned(page.tab) = {"name", "coordinator", "roadbook", "backup", "region"}
    BY <1>7 DEF Owned
  <2> QED
    BY <1>3, <2>2, <2>3
<1> QED
  BY <1>4, <1>5, <1>6, <1>7

(* A request that is sent: those before it are alone no more, and it is      *)
(* settled only when the copy it is built from is the row.                   *)
LEMMA SendEventStep ==
  ASSUME EventInv, NEW op \in {"put", "logo"}, page.tab # "none",
         SendEvent(EventCall(op, page.tab))
  PROVE  EventInv'
<1> DEFINE Joined(d) == [d EXCEPT !.alone = FALSE]
<1> PICK new : new = EventCall(op, page.tab)
  OBVIOUS
<1>1. /\ eventCalls' = {Joined(d) : d \in eventCalls} \cup {new}
      /\ page' = [page EXCEPT !.busy = TRUE]
      /\ UNCHANGED <<eventRow, eventSeen, fetch, suspect>>
  BY DEF SendEvent
<1>2. /\ IsRequest(new) /\ new.op = op /\ new.tab = page.tab /\ new.step = "sent"
      /\ new.alone = (eventCalls = {})
      /\ new.settled = (~suspect /\ fetch = NoFetch /\ eventCalls = {})
      /\ op = "put" => new.body = Body(page.tab)
  BY BodyIsRow, EmptyRow DEF EventInv, EventShape, IsPage, IsRequest, EventCall
<1>3. ASSUME NEW d \in eventCalls
      PROVE  /\ IsRequest(Joined(d)) /\ Joined(d).alone = FALSE /\ Joined(d).op = d.op
             /\ Joined(d).tab = d.tab /\ Joined(d).step = d.step /\ Joined(d).body = d.body
  BY DEF EventInv, EventShape, IsRequest
<1> HIDE DEF Joined
<1>4. EventShape'
  BY <1>1, <1>2, <1>3 DEF EventInv, EventShape, IsPage
<1>5. AloneIsAlone'
  <2>1. ASSUME NEW e \in eventCalls', e.alone
        PROVE  eventCalls' = {e}
    <3>1. e = new
      BY <1>1, <1>3, <2>1
    <3>2. eventCalls = {}
      BY <1>2, <2>1, <3>1
    <3> QED
      BY <1>1, <3>1, <3>2
  <2> QED
    BY <2>1 DEF AloneIsAlone
<1>6. ReadIsCurrent' /\ AnswerIsCurrent'
  BY <1>1, <1>2, <1>3 DEF EventInv, ReadIsCurrent, AnswerIsCurrent, WillSet
<1>7. WillBeCurrent'
  <2>1. ASSUME NEW d \in eventCalls, WillSet(d) \/ WillRead(d)
        PROVE  \E c \in eventCalls' : WillSet(c) \/ WillRead(c)
    <3>1. Joined(d) \in eventCalls'
      BY <1>1
    <3>2. WillSet(Joined(d)) \/ WillRead(Joined(d))
      BY <1>3, <2>1 DEF WillSet, WillRead
    <3> QED
      BY <3>1, <3>2
  <2> QED
    BY <1>1, <2>1 DEF EventInv, WillBeCurrent
<1>8. SettledBodies'
  <2> SUFFICES ASSUME NEW c \in eventCalls', c.settled, c.alone, c.op = "put",
                      NEW field \in DOMAIN eventRow \ (Owned(c.tab) \cup {"logo"})
               PROVE  c.body[field] = eventRow[field]
    BY <1>1 DEF SettledBodies
  <2>1. c = new
    BY <1>1, <1>3
  <2>2. ~suspect /\ fetch = NoFetch /\ eventCalls = {}
    BY <1>2, <2>1
  <2>3. eventSeen = eventRow
    BY <2>2 DEF EventInv, WillBeCurrent, NoFetch, Fetch
  <2> QED
    BY <1>2, <2>1, <2>3, BodyIsRow DEF EventInv
<1>9. LogoIsRead'
  BY <1>1, <1>2, <1>3 DEF LogoIsRead
<1> QED
  BY <1>4, <1>5, <1>6, <1>7, <1>8, <1>9 DEF EventInv

(* A request goes on: it is replaced by what it is next, and stays alone.    *)
LEMMA StillAlone ==
  ASSUME AloneIsAlone, NEW c \in eventCalls, NEW d, Advanced(c, d), d.alone = c.alone
  PROVE  AloneIsAlone'
  BY DEF AloneIsAlone, Advanced

LEMMA OthersStillFix ==
  ASSUME WillBeCurrent, NEW c \in eventCalls, NEW d, Advanced(c, d),
         WillSet(c) \/ WillRead(c) => WillSet(d) \/ WillRead(d)
  PROVE  ~suspect => \/ eventSeen = eventRow \/ fetch.step \in {"asked", "read"}
                     \/ \E e \in eventCalls' : WillSet(e) \/ WillRead(e)
  BY DEF WillBeCurrent, Advanced

LEMMA ReadsStep == ASSUME EventInv, NEW c \in eventCalls, PutReads(c) PROVE EventInv'
<1> PICK logo \in {eventRow.logo, 0} :
      Advanced(c, [c EXCEPT !.step = "read", !.logo = logo, !.blind = logo # eventRow.logo])
  BY DEF PutReads
<1> PICK d : d = [c EXCEPT !.step = "read", !.logo = logo, !.blind = logo # eventRow.logo]
  OBVIOUS
<1>0. eventRow.logo \in {0, 1} /\ logo \in {0, 1}
  BY DEF EventInv, EventShape, Rows
<1>1. /\ Advanced(c, d) /\ c.op = "put" /\ c.step = "sent"
      /\ UNCHANGED <<eventRow, eventSeen, page, fetch, suspect>>
  BY DEF PutReads
<1>2. /\ IsRequest(d) /\ d.op = c.op /\ d.step = "read" /\ d.alone = c.alone /\ d.tab = c.tab
      /\ d.body = c.body /\ d.settled = c.settled /\ (~d.blind => d.logo = eventRow.logo)
  BY <1>0 DEF EventInv, EventShape, IsRequest
<1>3. EventShape' /\ AloneIsAlone' /\ ReadIsCurrent'
  BY <1>1, <1>2, StillAlone DEF EventInv, EventShape, ReadIsCurrent, Advanced
<1>4. AnswerIsCurrent'
  BY <1>1, <1>2 DEF EventInv, AnswerIsCurrent, WillSet, Advanced
<1>5. WillBeCurrent'
  BY <1>1, <1>2, OthersStillFix DEF EventInv, WillBeCurrent, WillSet, WillRead
<1>6. SettledBodies'
  <2> SUFFICES ASSUME NEW e \in eventCalls', e.settled, e.alone, e.op = "put", e.step \in {"sent", "read"},
                      NEW field \in DOMAIN eventRow \ (Owned(e.tab) \cup {"logo"})
               PROVE  e.body[field] = eventRow[field]
    BY <1>1 DEF SettledBodies
  <2>1. CASE e = d
    BY <1>1, <1>2, <2>1 DEF EventInv, SettledBodies
  <2>2. CASE e # d
    BY <1>1, <2>2 DEF EventInv, SettledBodies, Advanced
  <2> QED
    BY <2>1, <2>2
<1>7. LogoIsRead'
  BY <1>1, <1>2 DEF EventInv, LogoIsRead, Advanced
<1> QED
  BY <1>3, <1>4, <1>5, <1>6, <1>7 DEF EventInv

(* The row is written.  When no other request is about, the answer carries   *)
(* the new row; a read that has seen the old one, and the roadbook tab,      *)
(* which reads nothing anew, are suspect.                                    *)
LEMMA WritesStep ==
  ASSUME EventInv, NEW c \in eventCalls, PutWrites(c) \/ SetLogoPath(c)
  PROVE  EventInv'
<1>1. PICK d : /\ Advanced(c, d) /\ IsRequest(d) /\ d.alone = c.alone /\ d.op = c.op /\ d.tab = c.tab
               /\ d.step \in {"tiles", "ok"}
               /\ WillSet(d) => d.body = eventRow'
               /\ c.op = "put" => ~d.settled
               /\ c.op = "put" /\ c.tab = "donnees" => WillRead(d)
               /\ c.op = "put" /\ c.tab \in {"evenement", "wizard"} => WillSet(d)
               /\ c.op = "logo" => WillRead(d)
               /\ eventRow' \in Rows
  <2>1. CASE PutWrites(c)
    <3> DEFINE d == IF c.tab \in {"evenement", "wizard"}
                    THEN [Spent(c) EXCEPT !.step = IF c.tab = "wizard" THEN "tiles" ELSE "ok",
                                          !.body = eventRow']
                    ELSE [Spent(c) EXCEPT !.step = "ok"]
    <3>1. Advanced(c, d) /\ c.op = "put" /\ eventRow' = [c.body EXCEPT !.logo = c.logo]
      BY <2>1 DEF PutWrites
    <3>2. IsRequest(c)
      BY DEF EventInv, EventShape
    <3>3. eventRow' \in Rows
      BY <3>1, <3>2 DEF IsRequest, Rows
    <3>4. /\ IsRequest(d) /\ d.alone = c.alone /\ d.op = c.op /\ d.tab = c.tab /\ d.settled = FALSE
          /\ d.step \in {"tiles", "ok"} /\ (c.tab # "wizard" => d.step = "ok")
          /\ c.tab \in {"evenement", "wizard"} => d.body = eventRow'
      BY <3>2, <3>3, EmptyRow DEF IsRequest, Spent
    <3> HIDE DEF d
    <3> QED
      BY <3>1, <3>3, <3>4 DEF WillSet, WillRead
  <2>2. CASE SetLogoPath(c)
    <3> DEFINE d == [c EXCEPT !.step = "ok"]
    <3>1. Advanced(c, d) /\ c.op = "logo" /\ eventRow' = [eventRow EXCEPT !.logo = 1]
      BY <2>2 DEF SetLogoPath
    <3>2. IsRequest(c)
      BY DEF EventInv, EventShape
    <3>3. IsRequest(d) /\ d.alone = c.alone /\ d.op = c.op /\ d.tab = c.tab /\ d.step = "ok"
      BY <3>2 DEF IsRequest
    <3>4. eventRow' \in Rows
      BY <3>1 DEF EventInv, EventShape, Rows
    <3> HIDE DEF d
    <3> QED
      BY <3>1, <3>3, <3>4 DEF WillSet, WillRead
  <2> QED
    BY <2>1, <2>2
<1>2. /\ ~suspect' => ~suspect /\ fetch.step # "read" /\ (c.op = "put" => c.tab # "roadbook")
      /\ UNCHANGED <<eventSeen, page, fetch>>
  BY DEF PutWrites, SetLogoPath, Overtaken
<1>3. EventShape' /\ AloneIsAlone' /\ ReadIsCurrent'
  BY <1>1, <1>2, StillAlone DEF EventInv, EventShape, ReadIsCurrent, Advanced
<1>4. ASSUME NEW e \in eventCalls', e.alone PROVE e = d
  <2>1. eventCalls' = {e}
    BY <1>3, <1>4 DEF AloneIsAlone
  <2> QED
    BY <1>1, <2>1 DEF Advanced
<1>5. AnswerIsCurrent'
  BY <1>1, <1>4 DEF AnswerIsCurrent
<1>6. WillBeCurrent'
  <2>1. ~suspect' => WillSet(d) \/ WillRead(d)
    BY <1>1, <1>2 DEF IsRequest, Tabs
  <2> QED
    BY <1>1, <2>1 DEF WillBeCurrent, Advanced
<1>7. SettledBodies' /\ LogoIsRead'
  BY <1>1, <1>4 DEF SettledBodies, LogoIsRead
<1> QED
  BY <1>3, <1>5, <1>6, <1>7 DEF EventInv

(* A request that fails after its effect is suspect.                         *)
LEMMA FailsStep ==
  ASSUME EventInv, NEW c \in eventCalls, FailEvent(c) \/ startTileDownload(c)
  PROVE  EventInv'
<1>1. PICK d : /\ Advanced(c, d) /\ IsRequest(d) /\ d.alone = c.alone /\ d.op = c.op /\ d.tab = c.tab
               /\ d.step \in {"ok", "error"}
               /\ d.step = "ok" => d.body = c.body /\ c.step = "tiles"
               /\ ~suspect' => ~suspect /\ (c.step \in {"tiles", "ok"} => d.step = "ok")
  <2>1. CASE FailEvent(c)
    <3> DEFINE d == [Spent(c) EXCEPT !.step = "error"]
    <3>1. Advanced(c, d) /\ suspect' = (suspect \/ c.step \in {"tiles", "ok"})
      BY <2>1 DEF FailEvent
    <3>2. IsRequest(d) /\ d.alone = c.alone /\ d.op = c.op /\ d.tab = c.tab /\ d.step = "error"
      BY EmptyRow DEF EventInv, EventShape, IsRequest, Spent
    <3> HIDE DEF d
    <3> QED
      BY <3>1, <3>2
  <2>2. CASE startTileDownload(c)
    <3> DEFINE d == [c EXCEPT !.step = "ok"]
    <3>1. Advanced(c, d) /\ suspect' = suspect /\ c.step = "tiles"
      BY <2>2 DEF startTileDownload
    <3>2. /\ IsRequest(d) /\ d.alone = c.alone /\ d.op = c.op /\ d.tab = c.tab /\ d.step = "ok"
          /\ d.body = c.body
      BY DEF EventInv, EventShape, IsRequest
    <3> HIDE DEF d
    <3> QED
      BY <3>1, <3>2
  <2> QED
    BY <2>1, <2>2
<1>2. UNCHANGED <<eventRow, eventSeen, page, fetch>>
  BY DEF FailEvent, startTileDownload
<1>3. EventShape' /\ AloneIsAlone' /\ ReadIsCurrent'
  BY <1>1, <1>2, StillAlone DEF EventInv, EventShape, ReadIsCurrent, Advanced
<1>4. AnswerIsCurrent'
  BY <1>1, <1>2 DEF EventInv, AnswerIsCurrent, WillSet, Advanced
<1>5. WillBeCurrent'
  <2>1. ~suspect' => ~suspect /\ (WillSet(c) \/ WillRead(c) => WillSet(d) \/ WillRead(d))
    BY <1>1 DEF WillSet, WillRead
  <2> QED
    BY <1>1, <1>2, <2>1, OthersStillFix DEF EventInv, WillBeCurrent
<1>6. SettledBodies' /\ LogoIsRead'
  BY <1>1, <1>2 DEF EventInv, SettledBodies, LogoIsRead, Advanced
<1> QED
  BY <1>3, <1>4, <1>5, <1>6 DEF EventInv

(* The answers.  The copy is set to what a request has written when it was   *)
(* alone: nothing has been written since.                                    *)
LEMMA SetCopyStep == ASSUME EventInv, NEW c \in eventCalls, SetCopy(c) PROVE EventInv'
<1>1. /\ eventCalls' = eventCalls \ {c} /\ eventSeen' = c.body /\ WillSet(c)
      /\ suspect' = (suspect \/ ~c.alone \/ fetch # NoFetch)
      /\ page' = Idle(PageAfter(screen, c.body, TRUE), {c})
      /\ UNCHANGED <<eventRow, fetch>>
  BY DEF SetCopy, SetsCopy, Done, WillSet
<1>2. IsRequest(c)
  BY DEF EventInv, EventShape
<1>3. IsPage(page')
  BY <1>1, <1>2, PageAfterIsPage, IdleIsPage DEF EventInv, IsRequest
<1>4. EventShape' /\ AloneIsAlone'
  BY <1>1, <1>2, <1>3 DEF EventInv, EventShape, AloneIsAlone, IsRequest
<1>5. ReadIsCurrent' /\ AnswerIsCurrent'
  BY <1>1 DEF EventInv, ReadIsCurrent, AnswerIsCurrent, WillSet
<1>6. WillBeCurrent'
  <2>1. ~suspect' => c.alone
    BY <1>1
  <2> QED
    BY <1>1, <2>1 DEF EventInv, AnswerIsCurrent, WillBeCurrent
<1>7. SettledBodies' /\ LogoIsRead'
  BY <1>1 DEF EventInv, SettledBodies, LogoIsRead
<1> QED
  BY <1>4, <1>5, <1>6, <1>7 DEF EventInv

LEMMA ReadAnewStep == ASSUME EventInv, NEW c \in eventCalls, ReadAnew(c) PROVE EventInv'
<1> PICK d : d = [c EXCEPT !.step = "reading"]
  OBVIOUS
<1>1. /\ Advanced(c, d) /\ fetch' = Fetch("asked", NoEvent)
      /\ UNCHANGED <<eventRow, eventSeen, page, suspect>>
  BY DEF ReadAnew
<1>2. IsRequest(d) /\ d.alone = c.alone /\ d.step = "reading"
  BY DEF EventInv, EventShape, IsRequest
<1>3. EventShape' /\ AloneIsAlone' /\ ReadIsCurrent' /\ WillBeCurrent'
  BY <1>1, <1>2, StillAlone, EmptyRow
     DEF EventInv, EventShape, ReadIsCurrent, WillBeCurrent, Advanced, Fetch
<1>4. AnswerIsCurrent'
  BY <1>1, <1>2 DEF EventInv, AnswerIsCurrent, WillSet, Advanced
<1>5. SettledBodies' /\ LogoIsRead'
  <2>1. SettledBodies /\ LogoIsRead
    BY DEF EventInv
  <2>2. ASSUME NEW e \in eventCalls'
        PROVE  e = d \/ e \in eventCalls
    BY <1>1 DEF Advanced
  <2> QED
    BY <1>1, <1>2, <2>1, <2>2 DEF SettledBodies, LogoIsRead
<1> QED
  BY <1>3, <1>4, <1>5 DEF EventInv

LEMMA LeaveCopyStep == ASSUME EventInv, NEW c \in eventCalls, LeaveCopy(c) PROVE EventInv'
<1>1. /\ eventCalls' = eventCalls \ {c} /\ page' = Idle(page, {c})
      /\ UNCHANGED <<eventRow, eventSeen, fetch, suspect>>
      /\ ~WillSet(c) /\ ~WillRead(c)
  BY DEF LeaveCopy, SetsCopy, ReadsAnew, Done, WillSet, WillRead
<1>2. EventShape' /\ AloneIsAlone'
  BY <1>1, IdleIsPage DEF EventInv, EventShape, AloneIsAlone
<1>3. ReadIsCurrent' /\ AnswerIsCurrent' /\ WillBeCurrent'
  BY <1>1 DEF EventInv, ReadIsCurrent, AnswerIsCurrent, WillBeCurrent, WillSet
<1>4. SettledBodies' /\ LogoIsRead'
  BY <1>1 DEF EventInv, SettledBodies, LogoIsRead
<1> QED
  BY <1>2, <1>3, <1>4 DEF EventInv

(* The reads.  One that begins brings the row there is then.                 *)
LEMMA FetchBeginsStep == ASSUME EventInv, AskFetch \/ FetchReads PROVE EventInv'
<1>1. UNCHANGED <<eventRow, eventSeen, page, eventCalls>>
  BY DEF AskFetch, FetchReads
<1>2. \/ suspect' = suspect /\ fetch' = Fetch("asked", NoEvent)
      \/ fetch' = Fetch("read", eventRow)
  BY DEF AskFetch, FetchReads
<1>3. EventShape' /\ ReadIsCurrent' /\ WillBeCurrent'
  BY <1>1, <1>2, EmptyRow DEF EventInv, EventShape, ReadIsCurrent, WillBeCurrent, Fetch
<1>4. AloneIsAlone' /\ AnswerIsCurrent' /\ SettledBodies' /\ LogoIsRead'
  BY <1>1 DEF EventInv, AloneIsAlone, AnswerIsCurrent, WillSet, SettledBodies, LogoIsRead
<1> QED
  BY <1>3, <1>4 DEF EventInv

LEMMA FetchEndsStep == ASSUME EventInv, FetchLands \/ FetchFails PROVE EventInv'
<1>1. fetch' = NoFetch /\ eventCalls' = eventCalls \ Readers /\ eventRow' = eventRow
  BY DEF FetchLands, FetchFails, FetchEnds
<1>2. /\ \/ eventSeen' = fetch.row /\ fetch.row \in Rows /\ fetch.step = "read"
            /\ page' = Idle(PageAfter(screen, fetch.row, FALSE), Readers) /\ suspect' = suspect
         \/ eventSeen' = eventSeen /\ page' = Idle(page, Readers) /\ suspect' = TRUE
  <2>1. fetch.step = "read" => fetch.row \in Rows
    BY DEF EventInv, EventShape, NoFetch, Fetch
  <2> QED
    BY <2>1 DEF FetchLands, FetchFails, Overtaken
<1>3. IsPage(page') /\ eventSeen' \in Rows
  BY <1>2, PageAfterIsPage, IdleIsPage DEF EventInv, EventShape
<1>4. EventShape' /\ AloneIsAlone'
  BY <1>1, <1>3 DEF EventInv, EventShape, AloneIsAlone
<1>5. ReadIsCurrent' /\ AnswerIsCurrent'
  BY <1>1 DEF EventInv, ReadIsCurrent, AnswerIsCurrent, WillSet, NoFetch, Fetch
<1>6. WillBeCurrent'
  BY <1>1, <1>2 DEF EventInv, ReadIsCurrent, WillBeCurrent
<1>7. SettledBodies' /\ LogoIsRead'
  BY <1>1 DEF EventInv, SettledBodies, LogoIsRead
<1> QED
  BY <1>4, <1>5, <1>6, <1>7 DEF EventInv

LEMMA EnterStep == ASSUME EventInv, NEW field, NEW v \in Values, Enter(field, v) PROVE EventInv'
<1>1. /\ page' = [page EXCEPT ![field] = v] /\ field \in {"name", "coordinator", "roadbook", "backup"}
      /\ UNCHANGED <<eventRow, eventSeen, eventCalls, fetch, suspect>>
  BY DEF Enter
<1>2. IsPage(page')
  BY <1>1 DEF EventInv, EventShape, IsPage
<1> QED
  BY <1>1, <1>2 DEF EventInv, EventShape, AloneIsAlone, ReadIsCurrent, AnswerIsCurrent, WillSet,
                    WillBeCurrent, WillRead, SettledBodies, LogoIsRead

(* Another page: nobody waits for the requests any more, they go on.         *)
LEMMA EventFollowsStep == ASSUME EventInv, EventFollows PROVE EventInv'
<1> DEFINE Left(c) == IF page'.tab = page.tab THEN c ELSE [c EXCEPT !.live = FALSE]
<1>1. /\ UNCHANGED <<eventRow, eventSeen, fetch, suspect>>
      /\ eventCalls' = {Left(c) : c \in eventCalls} /\ IsPage(page')
  <2>1. CASE screen' = screen
    BY <2>1 DEF EventFollows, eventVars, EventInv, EventShape
  <2>2. CASE screen' # screen
    <3>1. /\ UNCHANGED <<eventRow, eventSeen, fetch, suspect>>
          /\ page' = PageAfter(screen', eventSeen, FALSE)
          /\ eventCalls' = IF page'.tab = page.tab THEN eventCalls
                           ELSE {[c EXCEPT !.live = FALSE] : c \in eventCalls}
      BY <2>2 DEF EventFollows
    <3>2. eventCalls' = {Left(c) : c \in eventCalls}
      <4>1. CASE page'.tab = page.tab
        BY <3>1, <4>1
      <4>2. CASE page'.tab # page.tab
        BY <3>1, <4>2
      <4> QED
        BY <4>1, <4>2
    <3>3. IsPage(page')
      BY <3>1, PageAfterIsPage DEF EventInv, EventShape
    <3> QED
      BY <3>1, <3>2, <3>3
  <2> QED
    BY <2>1, <2>2
<1>2. ASSUME NEW c \in eventCalls
      PROVE  /\ IsRequest(Left(c)) /\ Left(c).alone = c.alone /\ Left(c).op = c.op
             /\ Left(c).tab = c.tab /\ Left(c).step = c.step /\ Left(c).body = c.body
             /\ Left(c).settled = c.settled /\ Left(c).logo = c.logo /\ Left(c).blind = c.blind
  BY DEF EventInv, EventShape, IsRequest
<1> HIDE DEF Left
<1>3. EventShape' /\ AloneIsAlone' /\ ReadIsCurrent'
  BY <1>1, <1>2 DEF EventInv, EventShape, AloneIsAlone, ReadIsCurrent
<1>4. AnswerIsCurrent'
  BY <1>1, <1>2 DEF EventInv, AnswerIsCurrent, WillSet
<1>5. WillBeCurrent'
  <2>1. ASSUME NEW c \in eventCalls, WillSet(c) \/ WillRead(c)
        PROVE  \E d \in eventCalls' : WillSet(d) \/ WillRead(d)
    BY <1>1, <1>2, <2>1 DEF WillSet, WillRead
  <2> QED
    BY <1>1, <2>1 DEF EventInv, WillBeCurrent
<1>6. SettledBodies' /\ LogoIsRead'
  BY <1>1, <1>2 DEF EventInv, SettledBodies, LogoIsRead
<1> QED
  BY <1>3, <1>4, <1>5, <1>6 DEF EventInv

LEMMA EventStep == EventInv /\ [Next]_vars => EventInv'
<1> SUFFICES ASSUME EventInv, [Next]_vars PROVE EventInv'
  OBVIOUS
<1>1. CASE EventNext
  <2>1. CASE save \/ onLogoChange
    BY <2>1, SendEventStep DEF save, onLogoChange
  <2>2. CASE \E field \in {"name", "coordinator", "roadbook", "backup"}, v \in Values : Enter(field, v)
    BY <2>2, EnterStep
  <2> QED
    BY <1>1, <2>1, <2>2, ReadsStep, WritesStep, FailsStep, SetCopyStep, ReadAnewStep, LeaveCopyStep,
       FetchBeginsStep, FetchEndsStep DEF EventNext
<1>2. CASE UNCHANGED vars
  BY <1>2 DEF vars, eventVars, EventInv, EventShape, AloneIsAlone, ReadIsCurrent, AnswerIsCurrent,
              WillSet, WillBeCurrent, WillRead, SettledBodies, LogoIsRead
<1>3. [Next]_vars => EventFollows \/ EventNext \/ UNCHANGED vars
  BY DEF Next, Browse, EditStations, EditTrips, EditEvent, ImportCsv
<1> QED
  BY <1>1, <1>2, <1>3, EventFollowsStep

LEMMA InitEventInv == Init => EventInv
<1> SUFFICES ASSUME Init PROVE EventInv
  OBVIOUS
<1>1. /\ eventRow \in Rows /\ eventSeen = eventRow /\ eventCalls = {} /\ fetch = NoFetch
      /\ page = Fresh(TabOf(screen, eventSeen), eventSeen)
  BY EventAssumption DEF Init, EventInit
<1>2. TabOf(screen, eventSeen) \in Tabs
  BY DEF TabOf, readTab, Tabs
<1>3. IsPage(page)
  BY <1>1, <1>2, FreshIsPage
<1> QED
  BY <1>1, <1>3 DEF EventInv, EventShape, AloneIsAlone, ReadIsCurrent, AnswerIsCurrent,
                    WillBeCurrent, SettledBodies, LogoIsRead, NoFetch, Fetch

(* Whatever pages are opened, left and saved, whatever answers and reads     *)
(* fail or overtake each other: with nothing on its way and nothing known    *)
(* against it, the copy the settings pages write from is the row (the query  *)
(* ["event"], EventSettingsPage, DonneesTab, RoadbookSettings).              *)
THEOREM CopyIsCurrent == Spec => []SettledCopyIsCurrent
<1>1. EventInv => SettledCopyIsCurrent
  BY DEF EventInv, WillBeCurrent, SettledCopyIsCurrent, NoFetch, Fetch
<1> QED
  BY <1>1, InitEventInv, EventStep, PTL DEF Spec

(* A save writes what its settled request carries.                           *)
LEMMA WrittenRow ==
  ASSUME EventInv, NEW c \in eventCalls, PutWrites(c), c.settled, c.alone,
         NEW field \in DOMAIN eventRow \ Owned(c.tab), field = "logo" => ~c.blind
  PROVE  eventRow'[field] = eventRow[field]
<1>1. c.op = "put" /\ c.step = "read" /\ eventRow' = [c.body EXCEPT !.logo = c.logo]
  BY DEF PutWrites
<1>2. /\ c.body \in Rows
      /\ DOMAIN eventRow = {"name", "coordinator", "roadbook", "backup", "logo", "region"}
  BY DEF EventInv, EventShape, IsRequest, Rows
<1>3. CASE field = "logo"
  <2>1. c.logo = eventRow.logo
    BY <1>1, <1>3 DEF EventInv, LogoIsRead
  <2> QED
    BY <1>1, <1>2, <1>3, <2>1 DEF Rows
<1>4. CASE field # "logo"
  <2>1. c.body[field] = eventRow[field]
    BY <1>1, <1>4 DEF EventInv, SettledBodies
  <2>2. eventRow'[field] = c.body[field]
    BY <1>1, <1>2, <1>4 DEF Rows
  <2> QED
    BY <2>1, <2>2
<1> QED
  BY <1>3, <1>4

(* A save from such a copy keeps what the other pages have stored, although  *)
(* every page PUTs the whole row (event.Handler.put, writeBackup), and the   *)
(* logo, which no page sends, unless the handler failed to read it.          *)
THEOREM SavesKeepTheRest == Spec => SettledSavesKeepTheRest
<1> DEFINE Keeps ==
      \A c \in eventCalls : PutWrites(c) /\ c.settled /\ c.alone =>
        \A field \in DOMAIN eventRow \ Owned(c.tab) :
          (field = "logo" => ~c.blind) => eventRow'[field] = eventRow[field]
<1>1. EventInv /\ [Next]_vars => [Keeps]_eventVars
  BY WrittenRow
<1>2. SettledSavesKeepTheRest <=> [][Keeps]_eventVars
  BY DEF SettledSavesKeepTheRest
<1> HIDE DEF Keeps
<1> QED
  BY <1>1, <1>2, InitEventInv, EventStep, PTL DEF Spec
-----------------------------------------------------------------------------
(* The algorithms of the trip editor, for stops of any number.  The times    *)
(* are computed forward: the equation of applyAutoFill has a solution.       *)
LEMMA LegIsNumber ==
  ASSUME NEW stops, IsStops(stops), NEW i \in 2..Len(stops), NEW mode \in Modes, NEW known \in BOOLEAN
  PROVE  LegTo(stops, i, mode, known) \in Int
<1>1. /\ i \in 1..Len(stops) /\ i - 1 \in 1..Len(stops)
      /\ stops \in [1..Len(stops) -> Stop]
  BY DEF IsStops
<1>2. stops[i] \in Stop /\ stops[i - 1] \in Stop
  BY <1>1
<1>3. stops[i].vs_id \in StopStations \cup {0} /\ stops[i - 1].vs_id \in StopStations \cup {0}
  BY <1>2 DEF Stop
<1>4. ASSUME NEW a \in StopStations, NEW b \in StopStations PROVE Legs[mode][<<a, b>>] \in Int
  <2>1. Legs[mode] \in [StopStations \X StopStations -> Int]
    BY TripAssumption
  <2>2. <<a, b>> \in StopStations \X StopStations
    OBVIOUS
  <2> QED
    BY <2>1, <2>2
<1> QED
  BY <1>3, <1>4 DEF LegTo, matrixSec

LEMMA addSecondsIsTime ==
  ASSUME NEW time \in Times \cup {NoTime}, NEW minutes \in Int
  PROVE  addSeconds(time, minutes) \in Times \cup {NoTime}
<1>1. MinutesPerDay \in Nat /\ MinutesPerDay > 0
  BY TripAssumption
<1>2. CASE time = NoTime
  BY <1>2 DEF addSeconds
<1>3. CASE time # NoTime
  <2>1. time \in Int
    BY <1>1, <1>3 DEF Times
  <2>2. (time + minutes) % MinutesPerDay \in 0..(MinutesPerDay - 1)
    BY <1>1, <2>1
  <2> QED
    BY <1>3, <2>2 DEF addSeconds, Times
<1> QED
  BY <1>2, <1>3

LEMMA AutoFill ==
  ASSUME NEW stops, IsStops(stops), NEW mode \in Modes, NEW known \in BOOLEAN
  PROVE  LET out == applyAutoFill(stops, mode, known) IN
         /\ IsStops(out) /\ Len(out) = Len(stops)
         /\ \A i \in 2..Len(out) :
              (out[i].source = "auto" /\ LegTo(out, i, mode, known) # -1) =>
                out[i].time = addSeconds(out[i - 1].time, LegTo(out, i, mode, known))
<1> DEFINE n == Len(stops)
           T == Times \cup {NoTime}
           Kept(i) == i = 1 \/ stops[i].source = "manual"
           leg(i) == LegTo(stops, i, mode, known)
           Fills(f) == f = [i \in 1..Len(stops) |->
                              IF i = 1 \/ stops[i].source = "manual" THEN stops[i].time
                              ELSE IF LegTo(stops, i, mode, known) = -1 THEN stops[i].time
                              ELSE addSeconds(f[i - 1], LegTo(stops, i, mode, known))]
           next == [p \in (1..n) \X T |->
                      IF Kept(p[1]) \/ leg(p[1]) = -1 THEN stops[p[1]].time
                      ELSE addSeconds(p[2], leg(p[1]))]
           time == CHOOSE f : Fills(f)
           out == [i \in 1..Len(stops) |-> [stops[i] EXCEPT !.time = time[i]]]
<1>1. n \in Nat /\ stops \in [1..n -> Stop] /\ n <= MaxStops
  BY DEF IsStops
<1>2. \A i \in 1..n : stops[i].time \in T /\ (i = 1 \/ leg(i) \in Int)
  <2>1. \A i \in 1..n : stops[i].time \in T
    BY <1>1 DEF Stop
  <2>2. \A i \in 1..n : i = 1 \/ i \in 2..n
    BY <1>1
  <2> QED
    BY <2>1, <2>2, LegIsNumber
<1>3. next \in [(1..n) \X T -> T]
  <2> SUFFICES ASSUME NEW i \in 1..n, NEW t \in T
               PROVE  (IF Kept(i) \/ leg(i) = -1 THEN stops[i].time ELSE addSeconds(t, leg(i))) \in T
    OBVIOUS
  <2> QED
    BY <1>2, addSecondsIsTime
<1>4. PICK f \in [0..n -> T] : f[0] = NoTime /\ \A i \in 1..n : f[i] = next[<<i, f[i - 1]>>]
  <2>1. NoTime \in T
    OBVIOUS
  <2>2. n \in Nat
    BY <1>1
  <2> HIDE DEF n, T, next
  <2>3. Computable(n, T, NoTime, next)
    BY <1>3, <2>1, <2>2, RecursiveFunction
  <2> QED
    BY <2>3 DEF Computable
<1>5. Fills([i \in 1..n |-> f[i]])
  <2>1. ASSUME NEW i \in 1..n
        PROVE  f[i] = IF Kept(i) \/ leg(i) = -1 THEN stops[i].time ELSE addSeconds(f[i - 1], leg(i))
    <3>1. i - 1 \in 0..n
      BY <1>1
    <3>2. f[i - 1] \in T
      <4> HIDE DEF T, n, next
      <4> QED
        BY <1>4, <3>1
    <3>3. f[i] = next[<<i, f[i - 1]>>]
      BY <1>4
    <3> QED
      BY <3>2, <3>3
  <2>2. ASSUME NEW i \in 1..n, i # 1 PROVE i - 1 \in 1..n
    BY <1>1, <2>2
  <2> DEFINE g == [i \in 1..n |-> f[i]]
  <2>3. ASSUME NEW i \in 1..n
        PROVE  g[i] = IF Kept(i) THEN stops[i].time
                      ELSE IF leg(i) = -1 THEN stops[i].time ELSE addSeconds(g[i - 1], leg(i))
    <3>1. CASE i = 1
      BY <2>1, <3>1
    <3>2. CASE i # 1
      <4>1. g[i - 1] = f[i - 1] /\ g[i] = f[i]
        BY <2>2, <3>2
      <4> HIDE DEF g
      <4> QED
        BY <2>1, <4>1
    <3> QED
      BY <3>1, <3>2
  <2> QED
    BY <2>3
<1>6. Fills(time)
  <2> HIDE DEF Fills
  <2> QED
    BY <1>5
<1>7. applyAutoFill(stops, mode, known) = out
  BY DEF applyAutoFill
<1> HIDE DEF time
<1> HIDE DEF next
<1>8. ASSUME NEW i \in 1..n
      PROVE  time[i] = IF Kept(i) THEN stops[i].time
                       ELSE IF leg(i) = -1 THEN stops[i].time ELSE addSeconds(time[i - 1], leg(i))
  <2> HIDE DEF leg
  <2>1. Fills(time) <=> time = [j \in 1..n |-> IF Kept(j) THEN stops[j].time
                       ELSE IF leg(j) = -1 THEN stops[j].time ELSE addSeconds(time[j - 1], leg(j))]
    BY DEF leg
  <2> HIDE DEF Fills, Kept
  <2> QED
    BY <1>6, <2>1
<1> HIDE DEF Fills, Kept, leg
<1>9. \A i \in 1..n : time[i] \in T
  <2> DEFINE S == {m \in Nat : m \in 1..n => time[m] \in T}
  <2>1. 0 \in S
    BY <1>1
  <2>2. ASSUME NEW m \in S PROVE m + 1 \in S
    <3> SUFFICES ASSUME m + 1 \in 1..n PROVE time[m + 1] \in T
      OBVIOUS
    <3>1. (m + 1) - 1 = m /\ (m + 1 = 1 \/ m \in 1..n)
      BY <1>1
    <3>2. m + 1 = 1 => Kept(m + 1)
      BY DEF Kept
    <3>3. ~Kept(m + 1) => time[m] \in T /\ leg(m + 1) \in Int
      BY <1>2, <3>1, <3>2
    <3>4. ~Kept(m + 1) => addSeconds(time[m], leg(m + 1)) \in T
      BY <3>3, addSecondsIsTime
    <3> QED
      BY <1>2, <1>8, <3>1, <3>4
  <2>3. S = Nat
    <3>1. S \in SUBSET Nat
      OBVIOUS
    <3> HIDE DEF S
    <3> QED
      BY <2>1, <2>2, <3>1, SetInduction
  <2> QED
    BY <1>1, <2>3
<1>10. ASSUME NEW i \in 1..n
       PROVE  /\ out[i] = [stops[i] EXCEPT !.time = time[i]]
              /\ out[i] \in Stop /\ out[i].vs_id = stops[i].vs_id /\ out[i].time = time[i]
              /\ out[i].source = stops[i].source
  <2>1. stops[i] \in Stop /\ time[i] \in T
    BY <1>1, <1>9
  <2> QED
    BY <2>1 DEF Stop
<1>11. Len(out) = n /\ out \in [1..n -> Stop]
  BY <1>1, <1>10
<1>12. IsStops(out)
  BY <1>1, <1>11 DEF IsStops
<1> HIDE DEF out
<1>13. ASSUME NEW i \in 2..n, out[i].source = "auto", LegTo(out, i, mode, known) # -1
       PROVE  out[i].time = addSeconds(out[i - 1].time, LegTo(out, i, mode, known))
  <2>1. i \in 1..n /\ i - 1 \in 1..n /\ i # 1
    BY <1>1
  <2>2. LegTo(out, i, mode, known) = leg(i)
    BY <1>10, <2>1 DEF leg, LegTo
  <2>3. ~Kept(i) /\ leg(i) # -1
    BY <1>10, <1>13, <2>1, <2>2 DEF Kept
  <2>4. out[i].time = time[i] /\ out[i - 1].time = time[i - 1]
    BY <1>10, <2>1
  <2> QED
    BY <1>8, <2>1, <2>2, <2>3, <2>4
<1> QED
  BY <1>7, <1>11, <1>12, <1>13

-----------------------------------------------------------------------------
(* The addresses.  Every page that is navigated to is one of Paths, and the  *)
(* screen it leads to is a known one.                                        *)
IsScreen(to) ==
  /\ to.kind = "map" => to.tool \in Tools
  /\ to.kind = "map" /\ to.sub = "detail" /\ to.tool = "vs" => to.id \in Stations
  /\ IsEditing(to) => to.id \in Trips \cup {0}

LEMMA ScreensAreScreens == ASSUME NEW to \in Screens PROVE IsScreen(to)
<1>0. PICK at \in (Paths \cup {Home}) \X Tools : to = classify(at[1], at[2])
  BY DEF Screens
<1>1. PICK path \in Paths \cup {Home}, tool \in Tools : to = classify(path, tool)
  BY <1>0
<1>2. path.id \in Int
  <2>1. CASE path \in Paths
    BY <2>1, PathsAssumption
  <2>2. CASE path = Home
    <3>1. Home.id = 0
      BY Zenon DEF Path, Home
    <3> QED
      BY <2>2, <3>1
  <2> QED
    BY <2>1, <2>2
<1>3. path.id > 0 => (path.page = "vs" => path.id \in Stations) /\ (path.page = "trajets" => path.id \in Trips)
  <2>1. CASE path \in Paths
    BY <2>1, PathsAssumption
  <2>2. CASE path = Home
    BY <2>2, Zenon DEF Path, Home
  <2> QED
    BY <2>1, <2>2
<1> QED
  BY <1>1, <1>2, <1>3 DEF IsScreen, IsEditing, classify, Header, Map, Tools, HeaderPages

LEMMA navigateStep ==
  ASSUME ShellTypeOK, NEW path \in Paths, navigate(path)
  PROVE  ShellTypeOK'
<1>1. recallTool(lastTool, storageWorks) \in Tools
  BY DEF recallTool, Tools
<1>2. classify(path, recallTool(lastTool, storageWorks)) \in Screens
  <2>1. <<path, recallTool(lastTool, storageWorks)>> \in (Paths \cup {Home}) \X Tools
    BY <1>1
  <2>2. \E at \in (Paths \cup {Home}) \X Tools :
          classify(path, recallTool(lastTool, storageWorks)) = classify(at[1], at[2])
    BY <2>1, Zenon
  <2> QED
    BY <2>2 DEF Screens
<1>3. screen' \in Screens
  BY <1>2 DEF navigate, ShellTypeOK
<1>4. screen'.kind = "map" => screen'.tool \in Tools
  BY <1>3, ScreensAreScreens DEF IsScreen
<1> QED
  BY <1>3, <1>4 DEF navigate, ShellTypeOK, rememberTool

LEMMA ShellInitial == ShellInit => ShellTypeOK
<1> SUFFICES ASSUME ShellInit PROVE ShellTypeOK
  OBVIOUS
<1>1. "courses" \in Tools
  BY DEF Tools
<1>2. classify(Home, "courses") = Map("courses", "none", 0)
  BY Zenon DEF classify, Path, Home, HeaderPages
<1>3. screen \in Screens
  <2>1. <<Home, "courses">> \in (Paths \cup {Home}) \X Tools
    BY <1>1
  <2>2. \E at \in (Paths \cup {Home}) \X Tools : classify(Home, "courses") = classify(at[1], at[2])
    BY <2>1, Zenon
  <2> QED
    BY <1>2, <2>2 DEF Screens, ShellInit
<1>4. storageWorks \in BOOLEAN
  BY ShellAssumption DEF ShellInit
<1> QED
  BY <1>1, <1>3, <1>4 DEF ShellInit, ShellTypeOK
-----------------------------------------------------------------------------
(* The trips, the editor and its requests.                                   *)
EditorFields ==
  {"on", "id", "origin", "reused", "loaded", "mode", "crew", "stops", "clickKnows", "filled"}
IsEditor(e) ==
  /\ DOMAIN e = EditorFields
  /\ IsStops(e.stops) /\ e.mode \in Modes /\ e.crew \in BOOLEAN /\ e.clickKnows \in BOOLEAN
  /\ e.id \in Trips \cup {0} /\ e.origin \in Trips \cup {0}
IsTripCall(c) ==
  /\ DOMAIN c = {"op", "id", "got", "body", "origin", "loaded", "reused", "live", "answer"}
  /\ IsTrip(c.body) /\ c.id \in Trips \cup {0} /\ c.got \in Trips \cup {0}
  /\ c.op = "create" /\ c.answer = "ok" => c.got \in Trips
  /\ c.op \in {"put", "delete"} => c.id \in Trips
ReadOnly(e) == e.on /\ e.loaded /\ e.origin # e.id => e.reused
TimesFollow(e, known) ==
  e.filled => \A i \in 2..Len(e.stops) :
    (e.stops[i].source = "auto" /\ LegTo(e.stops, i, e.mode, known) # -1) =>
      e.stops[i].time = addSeconds(e.stops[i - 1].time, LegTo(e.stops, i, e.mode, known))
GoodEditor(e, known) == IsEditor(e) /\ ReadOnly(e) /\ TimesFollow(e, known)

TripInv ==
  /\ DOMAIN trips = Trips /\ DOMAIN tripSeen = Trips
  /\ \A t \in Trips : IsTrip(trips[t]) /\ IsTrip(tripSeen[t])
  /\ legsKnown \in BOOLEAN
  /\ GoodEditor(editor, legsKnown)
  /\ \A c \in tripCalls : IsTripCall(c)
  /\ FreshEditorsSaveTheirTrip

LEMMA NoStops == IsStops(<<>>) /\ IsTrip(NoTrip)
<1>1. <<>> \in Seq(Stop) /\ Len(<<>>) = 0
  OBVIOUS
<1>2. IsStops(<<>>)
  BY <1>1, TripAssumption DEF IsStops
<1> QED
  BY <1>1, <1>2 DEF IsTrip, NoTrip, Modes

LEMMA NoEditorIsGood == ASSUME NEW known \in BOOLEAN PROVE GoodEditor(NoEditor, known)
  BY NoStops DEF GoodEditor, IsEditor, ReadOnly, TimesFollow, NoEditor, EditorFields, Modes

LEMMA NewStopsAreStops == ASSUME NEW need PROVE IsStops(NewStops(need))
<1>1. ASSUME NEW a \in Stop, NEW b \in Stop PROVE IsStops(<<a, b>>)
  BY TripAssumption DEF IsStops
<1>2. CASE need \in DOMAIN Needs
  <2>1. /\ Needs[need].from \in StopStations /\ Needs[need].to \in StopStations
        /\ Needs[need].vol \in Volunteers
        /\ Needs[need].from_time \in Times /\ Needs[need].to_time \in Times
    BY <1>2, TripAssumption
  <2>2. /\ EditorStop(Needs[need].from, Needs[need].from_time, "auto", {Needs[need].vol}, {}) \in Stop
        /\ EditorStop(Needs[need].to, Needs[need].to_time, "auto", {}, {Needs[need].vol}) \in Stop
    BY <2>1 DEF EditorStop, Stop
  <2> QED
    BY <1>1, <1>2, <2>2 DEF NewStops
<1>3. CASE need \notin DOMAIN Needs
  <2>1. /\ EditorStop(0, FromTime, "auto", {}, {}) \in Stop
        /\ EditorStop(0, ToTime, "auto", {}, {}) \in Stop
    BY TripAssumption DEF EditorStop, Stop
  <2> QED
    BY <1>1, <1>3, <2>1 DEF NewStops
<1> QED
  BY <1>2, <1>3

LEMMA SeededIsGood ==
  ASSUME NEW e, NEW known \in BOOLEAN, GoodEditor(e, known), NEW need,
         NEW seen, \A t \in Trips : IsTrip(seen[t])
  PROVE  GoodEditor(Seeded(e, seen, need), known) /\ Seeded(e, seen, need).on = e.on
<1> DEFINE f == Seeded(e, seen, need)
<1>1. CASE e.loaded \/ (e.id # 0 /\ seen[e.id] = NoTrip)
  BY <1>1 DEF Seeded
<1>2. CASE ~e.loaded /\ e.id = 0
  <2>1. PICK stops : stops = NewStops(need) /\ IsStops(stops)
    BY NewStopsAreStops
  <2>2. f = [e EXCEPT !.stops = stops, !.origin = 0, !.loaded = TRUE, !.filled = FALSE]
    BY <1>2, <2>1 DEF Seeded
  <2> HIDE DEF f
  <2>3. /\ DOMAIN f = EditorFields
        /\ f.stops = stops /\ f.origin = 0 /\ f.id = e.id /\ ~f.filled /\ f.mode = e.mode
        /\ f.crew = e.crew /\ f.clickKnows = e.clickKnows /\ f.on = e.on
    BY <2>2 DEF GoodEditor, IsEditor, EditorFields
  <2> QED
    BY <1>2, <2>1, <2>3 DEF GoodEditor, IsEditor, ReadOnly, TimesFollow, f
<1>3. CASE ~e.loaded /\ e.id # 0 /\ seen[e.id] # NoTrip
  <2>1. PICK trip : trip = seen[e.id] /\ IsTrip(trip)
    BY <1>3 DEF GoodEditor, IsEditor
  <2>2. IsStops(trip.stops) /\ trip.mode \in Modes /\ trip.crew \in BOOLEAN
    BY <2>1 DEF IsTrip
  <2>3. f = [e EXCEPT !.stops = trip.stops, !.mode = trip.mode, !.crew = trip.crew,
                      !.origin = e.id, !.loaded = TRUE, !.filled = FALSE]
    BY <1>3, <2>1 DEF Seeded
  <2> HIDE DEF f
  <2>4. /\ DOMAIN f = EditorFields
        /\ f.stops = trip.stops /\ f.origin = e.id /\ f.id = e.id /\ ~f.filled /\ f.mode = trip.mode
        /\ f.crew = trip.crew /\ f.clickKnows = e.clickKnows /\ f.on = e.on
    BY <2>3 DEF GoodEditor, IsEditor, EditorFields
  <2> QED
    BY <1>3, <2>2, <2>4 DEF GoodEditor, IsEditor, ReadOnly, TimesFollow, f
<1> QED
  BY <1>1, <1>2, <1>3

LEMMA EditorOnIsGood ==
  ASSUME TripInv, NEW to, IsScreen(to)
  PROVE  GoodEditor(EditorOn(to), legsKnown)
<1>1. CASE ~IsEditing(to)
  BY <1>1, NoEditorIsGood DEF EditorOn, TripInv
<1>2. CASE IsEditing(to) /\ ~editor.on
  <2> DEFINE e == [NoEditor EXCEPT !.on = TRUE, !.id = to.id, !.clickKnows = legsKnown]
  <2>1. GoodEditor(e, legsKnown)
    <3>1. IsStops(<<>>) /\ to.id \in Trips \cup {0} /\ legsKnown \in BOOLEAN
      BY <1>2, NoStops DEF IsScreen, TripInv
    <3> QED
      BY <3>1 DEF GoodEditor, IsEditor, ReadOnly, TimesFollow, NoEditor, EditorFields, Modes
  <2>2. EditorOn(to) = Seeded(e, tripSeen, hash'.id)
    BY <1>2 DEF EditorOn, Mounted
  <2> HIDE DEF e
  <2> QED
    BY <2>1, <2>2, SeededIsGood DEF TripInv
<1>3. CASE IsEditing(to) /\ editor.on
  <2> DEFINE e == [editor EXCEPT !.id = to.id,
                                 !.reused = @ \/ (editor.loaded /\ to.id # editor.id)]
  <2>1. GoodEditor(e, legsKnown)
    <3>1. to.id \in Trips \cup {0} /\ GoodEditor(editor, legsKnown)
      BY <1>3 DEF IsScreen, TripInv
    <3>2. /\ DOMAIN e = EditorFields /\ e.id = to.id
          /\ e.reused <=> (editor.reused \/ (editor.loaded /\ to.id # editor.id))
          /\ e.stops = editor.stops /\ e.mode = editor.mode /\ e.crew = editor.crew
          /\ e.clickKnows = editor.clickKnows /\ e.origin = editor.origin /\ e.on = editor.on
          /\ e.loaded = editor.loaded /\ e.filled = editor.filled
      BY <3>1 DEF GoodEditor, IsEditor, EditorFields
    <3> HIDE DEF e
    <3> QED
      BY <1>3, <3>1, <3>2 DEF GoodEditor, IsEditor, ReadOnly, TimesFollow
  <2>2. EditorOn(to) = Seeded(e, tripSeen, 0)
    BY <1>3 DEF EditorOn
  <2> HIDE DEF e
  <2> QED
    BY <2>1, <2>2, SeededIsGood DEF TripInv
<1> QED
  BY <1>1, <1>2, <1>3

LEMMA OrphanedTripCalls ==
  ASSUME NEW c, IsTripCall(c)
  PROVE  LET d == [c EXCEPT !.live = FALSE] IN
         /\ IsTripCall(d) /\ d.op = c.op /\ d.origin = c.origin /\ d.id = c.id
         /\ d.reused = c.reused /\ d.loaded = c.loaded
  BY DEF IsTripCall

LEMMA TripsFollowStep == ASSUME TripInv, IsScreen(screen'), TripsFollow PROVE TripInv'
<1>1. CASE screen' = screen
  BY <1>1 DEF TripsFollow, tripVars, TripInv, FreshEditorsSaveTheirTrip
<1>2. CASE screen' # screen
  <2>1. /\ editor' = EditorOn(screen') /\ UNCHANGED <<trips, tripSeen, legsKnown>>
        /\ tripCalls' = tripCalls \/ tripCalls' = {[c EXCEPT !.live = FALSE] : c \in tripCalls}
    BY <1>2 DEF TripsFollow
  <2>2. GoodEditor(editor', legsKnown)
    BY <2>1, EditorOnIsGood
  <2>3. \A c \in tripCalls' :
          IsTripCall(c) /\ ((c.op \in {"create", "put"} /\ c.origin # c.id) => c.reused \/ ~c.loaded)
    <3>1. CASE tripCalls' = tripCalls
      BY <3>1 DEF TripInv, FreshEditorsSaveTheirTrip
    <3>2. CASE tripCalls' = {[c EXCEPT !.live = FALSE] : c \in tripCalls}
      <4> SUFFICES ASSUME NEW c \in tripCalls
                   PROVE LET d == [c EXCEPT !.live = FALSE] IN
                     IsTripCall(d) /\ ((d.op \in {"create", "put"} /\ d.origin # d.id) => d.reused \/ ~d.loaded)
        BY <3>2
      <4>1. IsTripCall(c) /\ ((c.op \in {"create", "put"} /\ c.origin # c.id) => c.reused \/ ~c.loaded)
        BY DEF TripInv, FreshEditorsSaveTheirTrip
      <4> QED
        BY <4>1, OrphanedTripCalls
    <3> QED
      BY <2>1, <3>1, <3>2
  <2> QED
    BY <2>1, <2>2, <2>3 DEF TripInv, FreshEditorsSaveTheirTrip
<1> QED
  BY <1>1, <1>2

(* An edit leaves everything but the editor alone.                           *)
LEMMA EditStep == ASSUME TripInv, NEW e, Edit(e), GoodEditor(e, legsKnown) PROVE TripInv'
  BY DEF Edit, TripInv, FreshEditorsSaveTheirTrip

LEMMA FilledIsGood ==
  ASSUME TripInv, NEW stops, IsStops(stops), NEW mode \in Modes, NEW known \in BOOLEAN,
         NEW filled \in BOOLEAN, filled => mode = editor.mode /\ known = legsKnown
  PROVE  GoodEditor([editor EXCEPT !.stops = applyAutoFill(stops, mode, known), !.filled = filled], legsKnown)
<1>1. PICK out : /\ out = applyAutoFill(stops, mode, known) /\ IsStops(out)
                 /\ \A i \in 2..Len(out) :
                      (out[i].source = "auto" /\ LegTo(out, i, mode, known) # -1) =>
                         out[i].time = addSeconds(out[i - 1].time, LegTo(out, i, mode, known))
  BY AutoFill
<1> DEFINE e == [editor EXCEPT !.stops = applyAutoFill(stops, mode, known), !.filled = filled]
<1>2. /\ DOMAIN e = EditorFields /\ e.stops = out /\ e.filled = filled
      /\ e.id = editor.id /\ e.reused = editor.reused /\ e.mode = editor.mode /\ e.crew = editor.crew
      /\ e.clickKnows = editor.clickKnows /\ e.origin = editor.origin /\ e.on = editor.on
      /\ e.loaded = editor.loaded
  BY <1>1 DEF TripInv, GoodEditor, IsEditor, EditorFields
<1> HIDE DEF e
<1>3. TimesFollow(e, legsKnown)
  <2>1. CASE ~filled
    BY <1>2, <2>1 DEF TimesFollow
  <2>2. CASE filled
    BY <1>1, <1>2, <2>2 DEF TimesFollow
  <2> QED
    BY <2>1, <2>2
<1>4. GoodEditor(e, legsKnown)
  BY <1>1, <1>2, <1>3 DEF TripInv, GoodEditor, IsEditor, ReadOnly
<1> QED
  BY <1>4 DEF e

LEMMA FillStep == ASSUME TripInv, NEW stops, IsStops(stops), Fill(stops) PROVE TripInv'
<1>1. editor.mode \in Modes /\ legsKnown \in BOOLEAN
  BY DEF TripInv, GoodEditor, IsEditor
<1>2. GoodEditor([editor EXCEPT !.stops = applyAutoFill(stops, editor.mode, legsKnown), !.filled = TRUE], legsKnown)
  BY <1>1, FilledIsGood
<1> QED
  BY <1>2, EditStep DEF Fill

LEMMA ChangedStop ==
  ASSUME NEW stops, IsStops(stops), NEW i \in 1..Len(stops), NEW s \in Stop
  PROVE  /\ IsStops([stops EXCEPT ![i] = s]) /\ Len([stops EXCEPT ![i] = s]) = Len(stops)
         /\ \A j \in 1..Len(stops) : [stops EXCEPT ![i] = s][j] = IF j = i THEN s ELSE stops[j]
  BY ExceptSeq DEF IsStops

LEMMA AppendedStop ==
  ASSUME NEW stops, IsStops(stops), Len(stops) < MaxStops, NEW s \in Stop
  PROVE  /\ IsStops(Append(stops, s)) /\ Len(Append(stops, s)) = Len(stops) + 1
         /\ \A j \in 1..Len(stops) : Append(stops, s)[j] = stops[j]
         /\ Append(stops, s)[Len(stops) + 1] = s
<1>1. Len(stops) \in Nat /\ Len(stops) + 1 <= MaxStops
  BY TripAssumption DEF IsStops
<1> QED
  BY <1>1, AppendProperties DEF IsStops

LEMMA RemovedStop ==
  ASSUME NEW stops, IsStops(stops), NEW i \in 1..Len(stops)
  PROVE  IsStops(SubSeq(stops, 1, i - 1) \o SubSeq(stops, i + 1, Len(stops)))
<1> DEFINE a == SubSeq(stops, 1, i - 1)
           b == SubSeq(stops, i + 1, Len(stops))
<1>1. /\ Len(stops) \in Nat /\ i \in Int /\ 1 <= i /\ i <= Len(stops)
      /\ \A j \in 1..Len(stops) : stops[j] \in Stop
  BY DEF IsStops
<1>2. a \in Seq(Stop) /\ Len(a) = i - 1
  <2>1. \A j \in 1..(i - 1) : stops[j] \in Stop
    BY <1>1
  <2>2. i - 1 \in Int /\ (1 <= i - 1 => (i - 1) - 1 + 1 = i - 1) /\ (~(1 <= i - 1) => i - 1 = 0)
    BY <1>1
  <2> QED
    BY <2>1, <2>2, SubSeqProperties
<1>3. b \in Seq(Stop) /\ Len(b) = Len(stops) - i
  <2>1. \A j \in (i + 1)..Len(stops) : stops[j] \in Stop
    BY <1>1
  <2>2. /\ i + 1 \in Int /\ (i + 1 <= Len(stops) => Len(stops) - (i + 1) + 1 = Len(stops) - i)
        /\ (~(i + 1 <= Len(stops)) => Len(stops) - i = 0)
    BY <1>1
  <2> QED
    BY <1>1, <2>1, <2>2, SubSeqProperties
<1> HIDE DEF a, b
<1>4. a \o b \in Seq(Stop) /\ Len(a \o b) = (i - 1) + (Len(stops) - i)
  <2>1. /\ a \o b \in Seq(Stop) /\ Len(a \o b) = Len(a) + Len(b)
    BY <1>2, <1>3, ConcatProperties
  <2> QED
    BY <1>2, <1>3, <2>1
<1>5. Len(a \o b) <= MaxStops
  <2>1. Len(stops) <= MaxStops /\ (i - 1) + (Len(stops) - i) = Len(stops) - 1
    BY <1>1 DEF IsStops
  <2> QED
    BY <1>1, <1>4, <2>1, TripAssumption
<1> QED
  BY <1>4, <1>5 DEF IsStops, a, b

(* Every change of a stop: its fields are those of the stop before.          *)
LEMMA StopFields ==
  ASSUME TripInv, NEW i \in Positions
  PROVE  /\ editor.stops[i] \in Stop /\ DOMAIN editor.stops = 1..Len(editor.stops)
         /\ IsStops(editor.stops)
  BY DEF TripInv, GoodEditor, IsEditor, IsStops, Positions

LEMMA StopSteps ==
  ASSUME TripInv, NEW i \in Positions,
         \/ \E vs \in StopStations \cup {0} : setStopVS(i, vs)
         \/ \E time \in Times \cup {NoTime} : setStopTime(i, time)
         \/ revertStopTime(i) \/ removeStop(i)
  PROVE  TripInv'
<1>1. /\ editor.stops[i] \in Stop /\ DOMAIN editor.stops = 1..Len(editor.stops)
      /\ IsStops(editor.stops) /\ i \in 1..Len(editor.stops)
  BY StopFields DEF Positions
<1>2. ASSUME NEW vs \in StopStations \cup {0}, setStopVS(i, vs) PROVE TripInv'
  <2>1. [editor.stops[i] EXCEPT !.vs_id = vs] \in Stop
    BY <1>1 DEF Stop
  <2>2. [editor.stops EXCEPT ![i].vs_id = vs] = [editor.stops EXCEPT ![i] = [editor.stops[i] EXCEPT !.vs_id = vs]]
    BY <1>1
  <2>3. IsStops([editor.stops EXCEPT ![i].vs_id = vs])
    BY <1>1, <2>1, <2>2, ChangedStop
  <2> QED
    BY <1>2, <2>3, FillStep DEF setStopVS
<1>3. ASSUME NEW time \in Times \cup {NoTime}, setStopTime(i, time) PROVE TripInv'
  <2>1. [editor.stops[i] EXCEPT !.time = time, !.source = "manual"] \in Stop
    BY <1>1 DEF Stop
  <2>2. [editor.stops EXCEPT ![i].time = time, ![i].source = "manual"]
          = [editor.stops EXCEPT ![i] = [editor.stops[i] EXCEPT !.time = time, !.source = "manual"]]
    BY <1>1
  <2>3. IsStops([editor.stops EXCEPT ![i].time = time, ![i].source = "manual"])
    BY <1>1, <2>1, <2>2, ChangedStop
  <2> QED
    BY <1>3, <2>3, FillStep DEF setStopTime
<1>4. CASE revertStopTime(i)
  <2>1. [editor.stops[i] EXCEPT !.source = "auto"] \in Stop
    BY <1>1 DEF Stop
  <2>2. [editor.stops EXCEPT ![i].source = "auto"]
          = [editor.stops EXCEPT ![i] = [editor.stops[i] EXCEPT !.source = "auto"]]
    BY <1>1
  <2>3. IsStops([editor.stops EXCEPT ![i].source = "auto"])
    BY <1>1, <2>1, <2>2, ChangedStop
  <2> QED
    BY <1>4, <2>3, FillStep DEF revertStopTime
<1>5. CASE removeStop(i)
  <2>1. IsStops(SubSeq(editor.stops, 1, i - 1) \o SubSeq(editor.stops, i + 1, Len(editor.stops)))
    BY <1>1, RemovedStop
  <2> QED
    BY <1>5, <2>1, FillStep DEF removeStop
<1> QED
  BY <1>2, <1>3, <1>4, <1>5

(* A change that keeps the stations, times and sources of the stops.         *)
LEMMA KeptTimes ==
  ASSUME NEW old, NEW new, NEW mode, NEW known, IsStops(old), IsStops(new), Len(new) = Len(old),
         \A j \in 1..Len(old) : /\ new[j].vs_id = old[j].vs_id /\ new[j].time = old[j].time
                                /\ new[j].source = old[j].source
  PROVE  \A i \in 2..Len(old) : /\ LegTo(new, i, mode, known) = LegTo(old, i, mode, known)
                                /\ new[i].source = old[i].source /\ new[i].time = old[i].time
                                /\ new[i - 1].time = old[i - 1].time
<1> SUFFICES ASSUME NEW i \in 2..Len(old)
             PROVE  /\ LegTo(new, i, mode, known) = LegTo(old, i, mode, known)
                    /\ new[i].source = old[i].source /\ new[i].time = old[i].time
                    /\ new[i - 1].time = old[i - 1].time
  OBVIOUS
<1>1. i \in 1..Len(old) /\ i - 1 \in 1..Len(old)
  BY DEF IsStops
<1> QED
  BY <1>1 DEF LegTo

LEMMA ToggleSteps ==
  ASSUME TripInv, NEW i \in Positions, NEW v \in Volunteers, toggleBoard(i, v) \/ toggleAlight(i, v)
  PROVE  TripInv'
<1> DEFINE s == editor.stops[i]
           board == [s EXCEPT !.board = Toggled(@, v)]
           alight == [s EXCEPT !.alight = Toggled(@, v)]
<1>1. /\ s \in Stop /\ DOMAIN editor.stops = 1..Len(editor.stops)
      /\ IsStops(editor.stops) /\ i \in 1..Len(editor.stops)
  BY StopFields DEF Positions
<1>2. /\ board \in Stop /\ board.vs_id = s.vs_id /\ board.time = s.time /\ board.source = s.source
      /\ alight \in Stop /\ alight.vs_id = s.vs_id /\ alight.time = s.time /\ alight.source = s.source
  <2>1. s.board \in SUBSET Volunteers /\ s.alight \in SUBSET Volunteers
    BY <1>1 DEF Stop
  <2>2. Toggled(s.board, v) \in SUBSET Volunteers /\ Toggled(s.alight, v) \in SUBSET Volunteers
    BY <2>1 DEF Toggled
  <2> QED
    BY <1>1, <2>2 DEF Stop
<1>3. PICK new : /\ new \in {board, alight}
                 /\ Edit([editor EXCEPT !.stops = [editor.stops EXCEPT ![i] = new]])
  <2>1. CASE toggleBoard(i, v)
    <3>1. [editor EXCEPT !.stops[i].board = Toggled(@, v)] = [editor EXCEPT !.stops = [editor.stops EXCEPT ![i] = board]]
      BY <1>1 DEF TripInv, GoodEditor, IsEditor, EditorFields
    <3> QED
      BY <2>1, <3>1 DEF toggleBoard
  <2>2. CASE toggleAlight(i, v)
    <3>1. [editor EXCEPT !.stops[i].alight = Toggled(@, v)] = [editor EXCEPT !.stops = [editor.stops EXCEPT ![i] = alight]]
      BY <1>1 DEF TripInv, GoodEditor, IsEditor, EditorFields
    <3> QED
      BY <2>2, <3>1 DEF toggleAlight
  <2> QED
    BY <2>1, <2>2
<1> DEFINE stops == [editor.stops EXCEPT ![i] = new]
           e == [editor EXCEPT !.stops = stops]
<1>4. /\ IsStops(stops) /\ Len(stops) = Len(editor.stops)
      /\ \A j \in 1..Len(editor.stops) : /\ stops[j].vs_id = editor.stops[j].vs_id
                                         /\ stops[j].time = editor.stops[j].time
                                         /\ stops[j].source = editor.stops[j].source
  <2>1. /\ new \in Stop /\ new.vs_id = s.vs_id /\ new.time = s.time /\ new.source = s.source
    BY <1>2, <1>3
  <2> HIDE DEF s, board, alight
  <2>2. /\ IsStops(stops) /\ Len(stops) = Len(editor.stops)
        /\ \A j \in 1..Len(editor.stops) : stops[j] = IF j = i THEN new ELSE editor.stops[j]
    BY <1>1, <2>1, ChangedStop
  <2> QED
    BY <2>1, <2>2 DEF s
<1>5. \A j \in 2..Len(editor.stops) :
        /\ LegTo(stops, j, editor.mode, legsKnown) = LegTo(editor.stops, j, editor.mode, legsKnown)
        /\ stops[j].source = editor.stops[j].source /\ stops[j].time = editor.stops[j].time
        /\ stops[j - 1].time = editor.stops[j - 1].time
  <2> HIDE DEF stops
  <2> QED
    BY <1>1, <1>4, KeptTimes
<1>6. /\ DOMAIN e = EditorFields /\ e.stops = stops /\ e.filled = editor.filled
      /\ e.id = editor.id /\ e.reused = editor.reused /\ e.mode = editor.mode /\ e.crew = editor.crew
      /\ e.clickKnows = editor.clickKnows /\ e.origin = editor.origin /\ e.on = editor.on
      /\ e.loaded = editor.loaded
  BY DEF TripInv, GoodEditor, IsEditor, EditorFields
<1>7. GoodEditor(e, legsKnown)
  <2> HIDE DEF e, stops
  <2> QED
    BY <1>4, <1>5, <1>6 DEF TripInv, GoodEditor, IsEditor, ReadOnly, TimesFollow
<1> QED
  BY <1>3, <1>7, EditStep

LEMMA addStopStep == ASSUME TripInv, addStop PROVE TripInv'
<1> DEFINE n == Len(editor.stops)
           stops == Append(editor.stops, NewStop(0))
           e == [editor EXCEPT !.stops = stops]
<1>1. IsStops(editor.stops) /\ n \in Nat /\ n < MaxStops
  BY DEF TripInv, GoodEditor, IsEditor, IsStops, addStop
<1>2. PICK new \in Stop : new = NewStop(0) /\ new.vs_id = 0
  <2>1. NewStop(0) \in Stop /\ NewStop(0).vs_id = 0
    BY DEF NewStop, EditorStop, Stop
  <2> QED
    BY <2>1
<1>3. /\ IsStops(stops) /\ Len(stops) = n + 1 /\ stops[n + 1] = new
      /\ \A j \in 1..n : stops[j] = editor.stops[j]
  BY <1>1, <1>2, AppendedStop
<1> HIDE DEF stops
<1>4. /\ DOMAIN e = EditorFields /\ e.stops = stops /\ e.filled = editor.filled
      /\ e.id = editor.id /\ e.reused = editor.reused /\ e.mode = editor.mode /\ e.crew = editor.crew
      /\ e.clickKnows = editor.clickKnows /\ e.origin = editor.origin /\ e.on = editor.on
      /\ e.loaded = editor.loaded
  BY DEF TripInv, GoodEditor, IsEditor, EditorFields
<1>5. TimesFollow(e, legsKnown)
  <2> SUFFICES ASSUME e.filled, NEW i \in 2..Len(stops), stops[i].source = "auto",
                      LegTo(stops, i, editor.mode, legsKnown) # -1
               PROVE  stops[i].time = addSeconds(stops[i - 1].time, LegTo(stops, i, editor.mode, legsKnown))
    BY <1>4 DEF TimesFollow
  <2>1. CASE i = n + 1
    BY <1>2, <1>3, <2>1 DEF LegTo, matrixSec
  <2>2. CASE i # n + 1
    <3>1. i \in 2..n /\ i \in 1..n /\ i - 1 \in 1..n
      BY <1>1, <1>3, <2>2
    <3>2. stops[i] = editor.stops[i] /\ stops[i - 1] = editor.stops[i - 1]
      BY <1>3, <3>1
    <3>3. LegTo(stops, i, editor.mode, legsKnown) = LegTo(editor.stops, i, editor.mode, legsKnown)
      BY <3>2 DEF LegTo
    <3> QED
      BY <1>4, <3>1, <3>2, <3>3 DEF TripInv, GoodEditor, TimesFollow
  <2> QED
    BY <2>1, <2>2
<1>6. Edit(e)
  BY DEF addStop, stops
<1> HIDE DEF e
<1>7. GoodEditor(e, legsKnown)
  BY <1>3, <1>4, <1>5 DEF TripInv, GoodEditor, IsEditor, ReadOnly
<1> QED
  BY <1>6, <1>7, EditStep

(* The listener of the first render uses its own matrix and mode: the times  *)
(* follow when they are still the editor's.                                  *)
LEMMA appendStopStep ==
  ASSUME TripInv, NEW vs \in StopStations, appendStopForVS(vs)
  PROVE  TripInv'
<1> DEFINE stops == Append(editor.stops, NewStop(vs))
           filled == editor.mode = "drive" /\ editor.clickKnows = legsKnown
<1>1. IsStops(stops)
  <2>1. IsStops(editor.stops) /\ Len(editor.stops) < MaxStops
    BY DEF TripInv, GoodEditor, IsEditor, appendStopForVS
  <2>2. NewStop(vs) \in Stop
    BY DEF NewStop, EditorStop, Stop
  <2> QED
    BY <2>1, <2>2, AppendedStop
<1>2. "drive" \in Modes /\ editor.clickKnows \in BOOLEAN
  BY DEF TripInv, GoodEditor, IsEditor, Modes
<1> HIDE DEF stops
<1>3. GoodEditor([editor EXCEPT !.stops = applyAutoFill(stops, "drive", editor.clickKnows), !.filled = filled], legsKnown)
  <2>1. filled \in BOOLEAN /\ (filled => "drive" = editor.mode /\ editor.clickKnows = legsKnown)
    OBVIOUS
  <2> HIDE DEF filled
  <2> QED
    BY <1>1, <1>2, <2>1, FilledIsGood
<1>4. [editor EXCEPT !.stops = applyAutoFill(Append(@, NewStop(vs)), "drive", editor.clickKnows),
                     !.filled = editor.mode = "drive" /\ editor.clickKnows = legsKnown]
        = [editor EXCEPT !.stops = applyAutoFill(stops, "drive", editor.clickKnows), !.filled = filled]
  BY DEF stops
<1> HIDE DEF filled
<1> QED
  BY <1>3, <1>4, EditStep DEF appendStopForVS

LEMMA FlagSteps ==
  ASSUME TripInv, setCrew \/ \E mode \in Modes : setMode(mode)
  PROVE  TripInv'
<1>1. ASSUME setCrew PROVE TripInv'
  <2>1. GoodEditor([editor EXCEPT !.crew = ~@], legsKnown)
    BY DEF TripInv, GoodEditor, IsEditor, EditorFields, ReadOnly, TimesFollow
  <2> QED
    BY <1>1, <2>1, EditStep DEF setCrew
<1>2. ASSUME NEW mode \in Modes, setMode(mode) PROVE TripInv'
  <2>1. GoodEditor([editor EXCEPT !.mode = mode, !.filled = FALSE], legsKnown)
    BY DEF TripInv, GoodEditor, IsEditor, EditorFields, ReadOnly, TimesFollow
  <2> QED
    BY <1>2, <2>1, EditStep DEF setMode
<1> QED
  BY <1>1, <1>2

LEMMA ArrivalSteps == ASSUME TripInv, LegsArrive \/ TripArrives PROVE TripInv'
<1>1. CASE LegsArrive
  <2>1. legsKnown' = TRUE /\ editor' = [editor EXCEPT !.filled = FALSE]
    BY <1>1 DEF LegsArrive
  <2>2. GoodEditor(editor', legsKnown')
    BY <2>1 DEF TripInv, GoodEditor, IsEditor, EditorFields, ReadOnly, TimesFollow
  <2> QED
    BY <1>1, <2>1, <2>2 DEF LegsArrive, TripInv, FreshEditorsSaveTheirTrip
<1>2. CASE TripArrives
  <2>1. DOMAIN tripSeen' = Trips /\ \A t \in Trips : IsTrip(tripSeen'[t])
    BY <1>2 DEF TripArrives, TripInv
  <2>2. GoodEditor(editor', legsKnown)
    BY <1>2, <2>1, SeededIsGood DEF TripArrives, TripInv
  <2> QED
    BY <1>2, <2>1, <2>2 DEF TripArrives, TripInv, FreshEditorsSaveTheirTrip
<1> QED
  BY <1>1, <1>2

(* What onSave keeps of the stops are stops, and no more of them.            *)
LEMMA CleanIsStops == ASSUME NEW stops, IsStops(stops) PROVE IsStops(Clean(stops))
<1> DEFINE n == Len(stops)
           T == Seq(Stop)
           Keeps(i) == stops[i].vs_id # 0 /\ stops[i].time # NoTime
           Cleans(f) == f = [i \in 0..Len(stops) |->
                               IF i = 0 THEN <<>>
                               ELSE IF stops[i].vs_id # 0 /\ stops[i].time # NoTime
                                    THEN Append(f[i - 1], stops[i])
                                    ELSE f[i - 1]]
           next == [p \in (1..n) \X T |-> IF Keeps(p[1]) THEN Append(p[2], stops[p[1]]) ELSE p[2]]
           clean == CHOOSE f : Cleans(f)
<1>1. n \in Nat /\ n <= MaxStops /\ MaxStops \in Nat /\ \A i \in 1..n : stops[i] \in Stop
  BY TripAssumption DEF IsStops
<1>2. next \in [(1..n) \X T -> T]
  <2> SUFFICES ASSUME NEW i \in 1..n, NEW t \in T
               PROVE  (IF Keeps(i) THEN Append(t, stops[i]) ELSE t) \in T
    OBVIOUS
  <2> HIDE DEF Keeps
  <2> QED
    BY <1>1, AppendProperties
<1>3. PICK f \in [0..n -> T] : f[0] = <<>> /\ \A i \in 1..n : f[i] = next[<<i, f[i - 1]>>]
  <2>1. <<>> \in T /\ n \in Nat
    BY <1>1
  <2> HIDE DEF n, T, next
  <2>2. Computable(n, T, <<>>, next)
    BY <1>2, <2>1, RecursiveFunction
  <2> QED
    BY <2>2 DEF Computable
<1>4. \A i \in 1..n : i \in 0..n /\ i - 1 \in 0..n /\ i # 0
  BY <1>1
<1>5. Cleans(f)
  <2>1. ASSUME NEW i \in 1..n PROVE f[i] = IF Keeps(i) THEN Append(f[i - 1], stops[i]) ELSE f[i - 1]
    <3>1. <<i, f[i - 1]>> \in (1..n) \X T
      BY <1>3, <1>4
    <3> QED
      BY <1>3, <3>1
  <2>2. \A i \in 0..n : i = 0 \/ i \in 1..n
    BY <1>1
  <2>3. DOMAIN f = 0..n /\ f = [i \in 0..n |-> f[i]]
    BY <1>3
  <2> HIDE DEF next, T
  <2> QED
    BY <1>3, <2>1, <2>2, <2>3
<1>6. Cleans(clean)
  <2> HIDE DEF Cleans
  <2> QED
    BY <1>5
<1>7. Clean(stops) = clean[n]
  BY DEF Clean
<1> HIDE DEF next, clean
<1>8. /\ clean[0] = <<>>
      /\ \A i \in 1..n : clean[i] = IF Keeps(i) THEN Append(clean[i - 1], stops[i]) ELSE clean[i - 1]
  <2>1. clean = [i \in 0..n |-> IF i = 0 THEN <<>>
                                ELSE IF Keeps(i) THEN Append(clean[i - 1], stops[i]) ELSE clean[i - 1]]
    BY <1>6
  <2>2. 0 \in 0..n
    BY <1>1
  <2> HIDE DEF Cleans, Keeps
  <2> QED
    BY <1>4, <2>1, <2>2
<1> HIDE DEF Cleans, Keeps
<1>9. clean[n] \in Seq(Stop) /\ Len(clean[n]) <= n
  <2> DEFINE S == {m \in Nat : m <= n => clean[m] \in Seq(Stop) /\ Len(clean[m]) <= m}
  <2>1. 0 \in S
    <3>1. <<>> \in Seq(Stop) /\ Len(<<>>) = 0
      OBVIOUS
    <3>2. clean[0] = <<>>
      BY <1>8
    <3>3. clean[0] \in Seq(Stop) /\ Len(clean[0]) = 0
      BY <3>1, <3>2, Zenon
    <3> QED
      BY <3>3
  <2>2. ASSUME NEW m \in S PROVE m + 1 \in S
    <3> SUFFICES ASSUME m + 1 <= n
                 PROVE  clean[m + 1] \in Seq(Stop) /\ Len(clean[m + 1]) <= m + 1
      OBVIOUS
    <3>1. m \in Nat /\ m <= n /\ m + 1 \in 1..n /\ (m + 1) - 1 = m
      BY <1>1
    <3>2. clean[m] \in Seq(Stop) /\ Len(clean[m]) <= m /\ Len(clean[m]) \in Nat
      BY <3>1
    <3>3. clean[m + 1] = IF Keeps(m + 1) THEN Append(clean[m], stops[m + 1]) ELSE clean[m]
      BY <1>8, <3>1
    <3>4. stops[m + 1] \in Stop
      BY <1>1, <3>1
    <3>5. /\ Append(clean[m], stops[m + 1]) \in Seq(Stop)
          /\ Len(Append(clean[m], stops[m + 1])) = Len(clean[m]) + 1
      BY <3>2, <3>4, AppendProperties
    <3> QED
      BY <3>1, <3>2, <3>3, <3>5
  <2>3. S = Nat
    <3>1. S \in SUBSET Nat
      OBVIOUS
    <3> HIDE DEF S
    <3> QED
      BY <2>1, <2>2, <3>1, SetInduction
  <2> QED
    BY <1>1, <2>3
<1> QED
  BY <1>1, <1>7, <1>9 DEF IsStops

LEMMA SendTripStep ==
  ASSUME TripInv, NEW op \in {"create", "put", "delete"}, NEW body, SendTrip(op, body),
         IsTrip(body), op = "create" \/ editor.id # 0
  PROVE  TripInv'
<1>1. /\ editor.on /\ editor.id \in Trips \cup {0} /\ editor.origin \in Trips \cup {0}
      /\ editor.loaded /\ editor.origin # editor.id => editor.reused
  BY DEF SendTrip, TripInv, GoodEditor, IsEditor, ReadOnly
<1>2. PICK c : c = TripCall(op, body) /\ tripCalls' = tripCalls \cup {c}
  BY DEF SendTrip
<1>3. IsTripCall(c) /\ ((c.op \in {"create", "put"} /\ c.origin # c.id) => c.reused \/ ~c.loaded)
  BY <1>1, <1>2 DEF TripCall, IsTripCall
<1> QED
  BY <1>2, <1>3 DEF SendTrip, TripInv, FreshEditorsSaveTheirTrip

LEMMA RequestSteps == ASSUME TripInv, onSave \/ onDelete PROVE TripInv'
<1>1. CASE onSave
  <2> DEFINE body == [mode |-> editor.mode, crew |-> TRUE, stops |-> Clean(editor.stops)]
             op == IF editor.id = 0 THEN "create" ELSE "put"
  <2>1. IsStops(Clean(editor.stops)) /\ editor.mode \in Modes
    BY CleanIsStops DEF TripInv, GoodEditor, IsEditor
  <2>2. IsTrip(body)
    BY <2>1 DEF IsTrip, IsStops
  <2>3. SendTrip(op, body)
    BY <1>1 DEF onSave
  <2>4. op \in {"create", "put", "delete"} /\ (op = "create" \/ editor.id # 0)
    OBVIOUS
  <2> HIDE DEF body, op
  <2> QED
    BY <2>2, <2>3, <2>4, SendTripStep
<1>2. CASE onDelete
  BY <1>2, NoStops, SendTripStep DEF onDelete
<1> QED
  BY <1>1, <1>2

LEMMA TripAnsweredStep ==
  ASSUME TripInv, NEW c \in tripCalls, NEW answer \in {"ok", "error"}, NEW id \in Trips \cup {0},
         answer = "ok" /\ c.op = "create" => id \in Trips,
         TripAnswered(c, answer, id), UNCHANGED <<tripSeen, legsKnown, editor>>,
         DOMAIN trips' = Trips, \A t \in Trips : IsTrip(trips'[t])
  PROVE  TripInv'
<1>1. PICK d : d = [c EXCEPT !.answer = answer, !.got = id] /\ tripCalls' = (tripCalls \ {c}) \cup {d}
  BY DEF TripAnswered
<1>2. IsTripCall(c) /\ ((c.op \in {"create", "put"} /\ c.origin # c.id) => c.reused \/ ~c.loaded)
  BY DEF TripInv, FreshEditorsSaveTheirTrip
<1>3. IsTripCall(d) /\ ((d.op \in {"create", "put"} /\ d.origin # d.id) => d.reused \/ ~d.loaded)
  BY <1>1, <1>2 DEF IsTripCall
<1> QED
  BY <1>1, <1>3 DEF TripInv, FreshEditorsSaveTheirTrip

LEMMA ServeTripStep == ASSUME TripInv, NEW c \in tripCalls, ServeTrip(c) PROVE TripInv'
<1>1. IsTripCall(c)
  BY DEF TripInv
<1>2. DOMAIN trips = Trips /\ \A t \in Trips : IsTrip(trips[t])
  BY DEF TripInv
<1>3. ASSUME NEW t \in Trips, trips' = [trips EXCEPT ![t] = c.body]
      PROVE  DOMAIN trips' = Trips /\ \A u \in Trips : IsTrip(trips'[u])
  BY <1>1, <1>2, <1>3 DEF IsTripCall
<1>4. ASSUME c.op = "create",
             NEW t \in Trips, trips' = [trips EXCEPT ![t] = c.body], TripAnswered(c, "ok", t)
      PROVE  TripInv'
  BY <1>3, <1>4, TripAnsweredStep DEF ServeTrip
<1>5. CASE /\ c.op \in {"put", "delete"}
           /\ trips' = [trips EXCEPT ![c.id] = c.body] /\ TripAnswered(c, "ok", c.id)
  <2>1. c.id \in Trips
    BY <1>1, <1>5 DEF IsTripCall
  <2>2. DOMAIN trips' = Trips /\ \A u \in Trips : IsTrip(trips'[u])
    BY <1>3, <1>5, <2>1
  <2> QED
    BY <1>5, <2>1, <2>2, TripAnsweredStep DEF ServeTrip
<1>6. CASE TripAnswered(c, "error", c.id) /\ UNCHANGED trips
  BY <1>1, <1>2, <1>6, TripAnsweredStep DEF ServeTrip, IsTripCall
<1> QED
  BY <1>4, <1>5, <1>6 DEF ServeTrip

(* The addresses that an answer opens are addresses of the application.      *)
LEMMA ReceiveTripScreen ==
  ASSUME TripInv, ShellTypeOK, NEW c \in tripCalls, ReceiveTrip(c)
  PROVE  ShellTypeOK'
<1>1. IsTripCall(c)
  BY DEF TripInv
<1>2. CASE UNCHANGED shellVars
  BY <1>2 DEF shellVars, ShellTypeOK, Screens
<1>3. CASE c.answer = "ok" /\ c.op = "create" /\ navigate(Path("trajets", c.got))
  <2>1. c.got \in Trips
    BY <1>1, <1>3 DEF IsTripCall
  <2>2. Path("trajets", c.got) \in Paths
    BY <2>1, PathsAssumption
  <2> QED
    BY <1>3, <2>2, navigateStep
<1>4. CASE navigate(Path("trajets", 0))
  BY <1>4, PathsAssumption, navigateStep
<1> QED
  BY <1>2, <1>3, <1>4 DEF ReceiveTrip

LEMMA ReceiveTripStep ==
  ASSUME TripInv, IsScreen(screen'), NEW c \in tripCalls, ReceiveTrip(c)
  PROVE  TripInv'
<1>1. PICK next : next = IF screen' = screen THEN editor ELSE EditorOn(screen')
  OBVIOUS
<1>2. GoodEditor(next, legsKnown)
  BY <1>1, EditorOnIsGood DEF TripInv
<1>3. /\ editor' = IF c.op = "create" /\ c.live /\ editor.id = 0 /\ next.id = c.got /\ ~editor.reused
                   THEN [next EXCEPT !.origin = c.got, !.reused = FALSE] ELSE next
      /\ UNCHANGED <<trips, tripSeen, legsKnown>>
  BY <1>1 DEF ReceiveTrip
<1>4. GoodEditor(editor', legsKnown)
  <2>1. CASE editor' = next
    BY <1>2, <2>1
  <2>2. CASE editor' = [next EXCEPT !.origin = c.got, !.reused = FALSE] /\ next.id = c.got
    <3>1. c.got \in Trips \cup {0}
      BY DEF TripInv, IsTripCall
    <3>2. /\ DOMAIN editor' = EditorFields /\ editor'.stops = next.stops /\ editor'.mode = next.mode
          /\ editor'.crew = next.crew /\ editor'.clickKnows = next.clickKnows /\ editor'.id = c.got
          /\ editor'.origin = c.got /\ editor'.filled = next.filled
      BY <1>2, <2>2 DEF GoodEditor, IsEditor, EditorFields
    <3> QED
      BY <1>2, <3>1, <3>2 DEF GoodEditor, IsEditor, ReadOnly, TimesFollow
  <2> QED
    BY <1>3, <2>1, <2>2
<1>5. \A d \in tripCalls : IsTripCall(d) /\ ((d.op \in {"create", "put"} /\ d.origin # d.id) => d.reused \/ ~d.loaded)
  BY DEF TripInv, FreshEditorsSaveTheirTrip
<1>6. \A d \in tripCalls' : IsTripCall(d) /\ ((d.op \in {"create", "put"} /\ d.origin # d.id) => d.reused \/ ~d.loaded)
  <2>1. CASE tripCalls' = tripCalls \ {c}
    BY <1>5, <2>1
  <2>2. CASE tripCalls' = {[d EXCEPT !.live = FALSE] : d \in tripCalls \ {c}}
    <3> SUFFICES ASSUME NEW b \in tripCalls
                 PROVE LET d == [b EXCEPT !.live = FALSE] IN
                   IsTripCall(d) /\ ((d.op \in {"create", "put"} /\ d.origin # d.id) => d.reused \/ ~d.loaded)
      BY <2>2
    <3>1. IsTripCall(b) /\ ((b.op \in {"create", "put"} /\ b.origin # b.id) => b.reused \/ ~b.loaded)
      BY <1>5
    <3> QED
      BY <3>1, OrphanedTripCalls
  <2> QED
    BY <2>1, <2>2 DEF ReceiveTrip
<1> QED
  BY <1>3, <1>4, <1>6 DEF TripInv, FreshEditorsSaveTheirTrip

LEMMA InitTripInv == Init => TripInv
<1> SUFFICES ASSUME Init PROVE TripInv
  OBVIOUS
<1>1. /\ trips \in {StoredTrips, [t \in Trips |-> NoTrip]} /\ tripSeen = [t \in Trips |-> NoTrip]
      /\ legsKnown = FALSE /\ editor = NoEditor /\ tripCalls = {}
  BY DEF Init, TripInit
<1>2. DOMAIN StoredTrips = Trips /\ \A t \in Trips : IsTrip(StoredTrips[t])
  <2>1. StoredTrips = [t \in Trips |-> StoredTrips[t]]
    BY TripAssumption
  <2> QED
    BY <2>1, TripAssumption
<1> QED
  BY <1>1, <1>2, NoStops, NoEditorIsGood DEF TripInv, FreshEditorsSaveTheirTrip

-----------------------------------------------------------------------------
(* The station panel: its frames, its form and its requests.                 *)
Frames ==
  {frame \in [kind : {"list", "detail", "missions", "draft"}, id : Stations \cup 0..MaxFrames] :
     frame.kind = "detail" => frame.id \in Stations}
Lists == [Stations -> Names \cup {NoName}]
Forms ==
  [kind : {"none", "draft", "detail"}, id : Stations \cup {0},
   name : Names \cup {NoName}, typed : BOOLEAN, file : Stations \cup {-1, 0},
   dependents : Stations \cup {0}, reused : BOOLEAN]

(* The form is the one of the frame on top, with a name that was typed for   *)
(* it or is its own; a photo or a dialog that is not about its station has   *)
(* been carried along from another.                                          *)
GoodForm(f, top, list) ==
  /\ f \in Forms
  /\ f.kind = makeDraft(top, list).kind
  /\ f.kind = "detail" => f.id = top.id /\ (~f.typed => f.name = list[f.id])
  /\ f.kind = "draft" => f.id = 0
  /\ f.kind = "none" => f.dependents = 0
  /\ f.file \in Stations /\ f.file # f.id => f.reused
  /\ f.dependents # 0 /\ f.dependents # f.id => f.reused

IsStationCall(c) ==
  /\ DOMAIN c = {"op", "id", "name", "of", "file", "reused", "live", "answer"}
  /\ c.op \in {"create", "patch", "delete", "force", "photo"}
  /\ c.id \in Stations \cup {0} /\ (c.op # "create" \/ c.answer = "ok" => c.id \in Stations)
  /\ c.answer = "dependents" => c.op = "delete"
  /\ c.op \in {"create", "patch"} => c.name \in Names \cup {NoName}
  /\ c.op \in {"photo", "force"} /\ c.of # c.id => c.reused

(* A request that may still set the form's state belongs to the form: to its *)
(* station, or to one that the form has been taken along from.               *)
Fits(c, f) ==
  /\ c.live /\ c.op \in {"patch", "delete"} => f.kind = "detail" /\ (c.id = f.id \/ f.reused)
  /\ c.live /\ c.op = "create" => f.kind = "draft"

StationInv ==
  /\ stations \in Lists /\ listed \in Lists
  /\ stack \in Seq(Frames)
  /\ GoodForm(form, TopOf(stack), listed)
  /\ \A c \in stationCalls : IsStationCall(c) /\ Fits(c, form)

LEMMA TopIsFrame == ASSUME NEW frames \in Seq(Frames) PROVE TopOf(frames) \in Frames
<1>1. ListFrame \in Frames
  BY StationAssumption DEF ListFrame, Frame, Frames
<1>2. ASSUME frames # <<>> PROVE Len(frames) \in 1..Len(frames)
  BY <1>2
<1> QED
  BY <1>1, <1>2, ElementOfSeq DEF TopOf

LEMMA NoFormIsForm == NoForm \in Forms
  BY DEF NoForm, Forms

LEMMA makeDraftIsForm ==
  ASSUME NEW frame \in Frames, NEW list \in Lists
  PROVE  LET f == makeDraft(frame, list) IN
         /\ f \in Forms /\ f.file = -1 /\ f.dependents = 0 /\ ~f.reused
         /\ f.kind = "detail" => f.id = frame.id /\ f.name = list[f.id] /\ frame.kind = "detail"
         /\ f.kind = "draft" => f.id = 0 /\ frame.kind = "draft"
         /\ f.kind = "none" => f = NoForm
<1>1. CASE frame.kind = "draft"
  <2>1. makeDraft(frame, list) = [NoForm EXCEPT !.kind = "draft"]
    BY <1>1 DEF makeDraft
  <2> QED
    BY <1>1, <2>1 DEF NoForm, Forms
<1>2. CASE frame.kind = "detail" /\ list[frame.id] # NoName
  <2>1. frame.id \in Stations /\ list[frame.id] \in Names \cup {NoName}
    BY <1>2 DEF Frames, Lists
  <2>2. makeDraft(frame, list)
          = [kind |-> "detail", id |-> frame.id, name |-> list[frame.id], typed |-> FALSE,
             file |-> -1, dependents |-> 0, reused |-> FALSE]
    BY <1>2 DEF makeDraft, NoForm
  <2>3. makeDraft(frame, list) \in Forms
    BY <2>1, <2>2 DEF Forms
  <2> QED
    BY <1>2, <2>2, <2>3
<1>3. CASE frame.kind # "draft" /\ ~(frame.kind = "detail" /\ list[frame.id] # NoName)
  <2>1. makeDraft(frame, list) = NoForm
    BY <1>3 DEF makeDraft
  <2> QED
    BY <2>1, NoFormIsForm DEF NoForm
<1> QED
  BY <1>1, <1>2, <1>3

(* A render keeps the form good, and what was taken along is marked.         *)
LEMMA RenderedIsGood ==
  ASSUME NEW from \in Frames, NEW to \in Frames, NEW old \in Lists, NEW list \in Lists,
         GoodForm(form, from, old)
  PROVE  LET f == Rendered(from, to, list) IN
         /\ GoodForm(f, to, list)
         /\ (f.kind = "detail" /\ form.kind = "detail") =>
              (f.id = form.id \/ f.reused) /\ (form.reused => f.reused)
<1> DEFINE f == Rendered(from, to, list)
<1>1. PICK fresh : fresh = makeDraft(to, list)
  OBVIOUS
<1>2. /\ fresh \in Forms /\ fresh.file = -1 /\ fresh.dependents = 0 /\ ~fresh.reused
      /\ fresh.kind = "detail" => fresh.id = to.id /\ fresh.name = list[fresh.id] /\ to.kind = "detail"
      /\ fresh.kind = "draft" => fresh.id = 0 /\ to.kind = "draft"
  BY <1>1, makeDraftIsForm
<1>3. CASE fresh.kind = "none" \/ fresh.kind # form.kind
  <2>1. f = fresh
    BY <1>1, <1>3 DEF Rendered
  <2>2. -1 \notin Stations
    BY StationAssumption
  <2> QED
    BY <1>1, <1>2, <1>3, <2>1, <2>2 DEF GoodForm
<1>4. CASE ~(fresh.kind = "none" \/ fresh.kind # form.kind) /\ to.kind = "draft" /\ to = from
  <2>1. f = form /\ fresh.kind = "draft"
    BY <1>1, <1>2, <1>4 DEF Rendered, makeDraft, NoForm
  <2> QED
    BY <1>1, <1>4, <2>1 DEF GoodForm
<1>5. CASE ~(fresh.kind = "none" \/ fresh.kind # form.kind) /\ ~(to.kind = "draft" /\ to = from)
  <2>1. f = [fresh EXCEPT !.file = form.file, !.dependents = form.dependents,
                          !.reused = form.reused \/ to # from]
    BY <1>1, <1>5 DEF Rendered
  <2>2. /\ f \in Forms /\ f.kind = fresh.kind /\ f.id = fresh.id /\ f.name = fresh.name /\ f.file = form.file
        /\ f.dependents = form.dependents /\ (f.reused <=> form.reused \/ to # from)
    BY <1>2, <2>1 DEF Forms, GoodForm
  <2> HIDE DEF f
  <2>3. fresh.kind \in {"draft", "detail"} /\ form.kind = fresh.kind
    BY <1>2, <1>5 DEF Forms
  <2>4. f.id = form.id \/ to # from
    BY <1>2, <2>2, <2>3 DEF GoodForm
  <2>5. (f.file \in Stations /\ f.file # f.id => f.reused) /\ (f.dependents # 0 /\ f.dependents # f.id => f.reused)
    BY <2>2, <2>4 DEF GoodForm
  <2>6. GoodForm(f, to, list)
    BY <1>1, <1>2, <2>2, <2>3, <2>5 DEF GoodForm
  <2>7. (f.id = form.id \/ f.reused) /\ (form.reused => f.reused)
    BY <2>2, <2>4
  <2> QED
    BY <2>6, <2>7 DEF f
<1> QED
  BY <1>3, <1>4, <1>5

(* form' goes on from form where it is the same form.                        *)
GoesOn ==
  (form'.kind = "detail" /\ form.kind = "detail") =>
    (form'.id = form.id \/ form'.reused) /\ (form.reused => form'.reused)

LEMMA RenderStep ==
  ASSUME StationInv, stack' \in Seq(Frames), listed' \in Lists, Render
  PROVE  GoodForm(form', TopOf(stack'), listed') /\ GoesOn
<1>1. TopOf(stack) \in Frames /\ TopOf(stack') \in Frames
  BY TopIsFrame DEF StationInv
<1> QED
  BY <1>1, RenderedIsGood DEF StationInv, Render, GoesOn

LEMMA OrphanedFit ==
  ASSUME NEW calls, \A c \in calls : IsStationCall(c) /\ Fits(c, form), GoesOn
  PROVE  \A c \in Orphaned(calls) : IsStationCall(c) /\ Fits(c, form')
<1>1. CASE form'.kind = form.kind
  <2>1. Orphaned(calls) = calls
    BY <1>1 DEF Orphaned
  <2> QED
    BY <1>1, <2>1 DEF Fits, GoesOn
<1>2. CASE form'.kind # form.kind
  <2>1. Orphaned(calls) = {[c EXCEPT !.live = FALSE] : c \in calls}
    BY <1>2 DEF Orphaned
  <2>2. ASSUME NEW c \in calls
        PROVE  LET d == [c EXCEPT !.live = FALSE] IN IsStationCall(d) /\ Fits(d, form')
    BY DEF IsStationCall, Fits
  <2> QED
    BY <2>1, <2>2
<1> QED
  BY <1>1, <1>2

LEMMA RerouteStack ==
  ASSUME StationInv, IsScreen(screen'), Reroute
  PROVE  stack' \in Seq(Frames)
<1>1. ListFrame \in Frames
  BY StationAssumption DEF ListFrame, Frame, Frames
<1>2. CASE stack' = <<>>
  BY <1>2
<1>3. CASE stack' = stack
  BY <1>3 DEF StationInv
<1>4. CASE screen'.kind = "map" /\ screen'.tool = "vs" /\ stack' = <<BaseFrame(screen')>>
  <2>1. BaseFrame(screen') \in Frames
    BY <1>1, <1>4 DEF BaseFrame, Frame, Frames, IsScreen
  <2> QED
    BY <1>4, <2>1
<1> QED
  BY <1>2, <1>3, <1>4 DEF Reroute

LEMMA StationsFollowStep ==
  ASSUME StationInv, IsScreen(screen'), StationsFollow
  PROVE  StationInv'
<1>1. CASE screen' = screen
  BY <1>1 DEF StationsFollow, stationVars, StationInv
<1>2. CASE screen' # screen
  <2>1. UNCHANGED <<stations, listed>> /\ Reroute /\ stationCalls' = Orphaned(stationCalls)
    BY <1>2 DEF StationsFollow
  <2>2. stack' \in Seq(Frames)
    BY <2>1, RerouteStack
  <2>3. GoodForm(form', TopOf(stack'), listed') /\ GoesOn
    BY <2>1, <2>2, RenderStep DEF Reroute, StationInv
  <2>4. \A c \in stationCalls' : IsStationCall(c) /\ Fits(c, form')
    BY <2>1, <2>3, OrphanedFit DEF StationInv
  <2> QED
    BY <2>1, <2>2, <2>3, <2>4 DEF StationInv
<1> QED
  BY <1>1, <1>2

(* The buttons of the panel.                                                 *)
LEMMA PushStep ==
  ASSUME StationInv, NEW frame \in Frames, Push(frame)
  PROVE  StationInv'
<1>1. stack' \in Seq(Frames) /\ listed' \in Lists
  BY AppendProperties DEF Push, StationInv
<1>2. GoodForm(form', TopOf(stack'), listed') /\ GoesOn
  BY <1>1, RenderStep DEF Push
<1>3. \A c \in stationCalls' : IsStationCall(c) /\ Fits(c, form')
  BY <1>2, OrphanedFit DEF StationInv, Push
<1> QED
  BY <1>1, <1>2, <1>3 DEF StationInv, Push

LEMMA FrameSteps ==
  ASSUME StationInv, ClickEmpty \/ OpenMissions \/ Pop
  PROVE  StationInv'
<1>1. Len(stack) \in Nat /\ MaxFrames \in Nat
  BY StationAssumption DEF StationInv
<1>2. CASE ClickEmpty
  <2>1. Len(stack) + 1 \in 0..MaxFrames
    BY <1>1, <1>2 DEF ClickEmpty
  <2>2. Frame("draft", Len(stack) + 1) \in Frames
    BY <2>1 DEF Frame, Frames
  <2> QED
    BY <1>2, <2>2, PushStep DEF ClickEmpty
<1>3. CASE OpenMissions
  <2>1. TopOf(stack) \in Frames
    BY TopIsFrame DEF StationInv
  <2>2. Frame("missions", TopOf(stack).id) \in Frames
    BY <2>1 DEF Frame, Frames
  <2> QED
    BY <1>3, <2>2, PushStep DEF OpenMissions
<1>4. CASE Pop
  <2>1. stack # <<>>
    BY <1>4 DEF Pop, TopOf, ListFrame, Frame
  <2>2. stack' \in Seq(Frames) /\ listed' \in Lists
    <3>1. \A i \in 1..(Len(stack) - 1) : stack[i] \in Frames
      BY DEF StationInv
    <3>2. Len(stack) - 1 \in Int
      BY <1>1
    <3> QED
      BY <1>4, <3>1, <3>2, SubSeqProperties DEF Pop, StationInv
  <2>3. GoodForm(form', TopOf(stack'), listed') /\ GoesOn
    BY <1>4, <2>2, RenderStep DEF Pop
  <2>4. \A c \in stationCalls' : IsStationCall(c) /\ Fits(c, form')
    BY <1>4, <2>3, OrphanedFit DEF StationInv, Pop
  <2> QED
    BY <1>4, <2>2, <2>3, <2>4 DEF StationInv, Pop
<1> QED
  BY <1>2, <1>3, <1>4

(* Rendered again with the same list and frames, the form is of the kind it  *)
(* was.                                                                      *)
LEMMA SameKind ==
  ASSUME StationInv, listed' \in Lists, Render, stack' = stack, stationCalls' = stationCalls, stations' \in Lists,
         makeDraft(TopOf(stack), listed').kind = form.kind
  PROVE  StationInv'
<1>1. GoodForm(form', TopOf(stack'), listed') /\ GoesOn
  BY RenderStep DEF StationInv
<1>2. form'.kind = form.kind
  BY <1>1 DEF GoodForm
<1>3. Orphaned(stationCalls) = stationCalls
  BY <1>2 DEF Orphaned
<1>4. \A c \in stationCalls' : IsStationCall(c) /\ Fits(c, form')
  BY <1>1, <1>3, OrphanedFit DEF StationInv
<1> QED
  BY <1>1, <1>4 DEF StationInv

(* What is typed, chosen or closed changes the form alone.                   *)
LEMMA FormSteps ==
  ASSUME StationInv, (\E name \in Names : Type(name)) \/ ChooseFile \/ CloseDialog
  PROVE  StationInv'
<1>1. /\ form \in Forms /\ UNCHANGED <<stations, listed, stack, stationCalls>>
      /\ \/ \E name \in Names : form.kind # "none" /\ form' = [form EXCEPT !.name = name, !.typed = TRUE]
         \/ form.kind # "none" /\ form' = [form EXCEPT !.file = form.id]
         \/ form' = [form EXCEPT !.dependents = 0]
  BY DEF Type, ChooseFile, CloseDialog, StationInv, GoodForm
<1>2. /\ form' \in Forms /\ form'.kind = form.kind /\ form'.id = form.id
      /\ (~form'.typed => ~form.typed /\ form'.name = form.name)
      /\ form'.reused = form.reused /\ form'.file \in {form.file, form.id}
      /\ form'.dependents \in {form.dependents, 0}
  BY <1>1 DEF Forms
<1>3. GoodForm(form', TopOf(stack'), listed')
  BY <1>1, <1>2 DEF GoodForm, StationInv
<1> QED
  BY <1>1, <1>2, <1>3 DEF StationInv, Fits

LEMMA CallIsCall ==
  ASSUME StationInv, NEW op \in {"create", "patch", "delete", "force"}, NEW name, NEW of,
         op = "create" => form.kind = "draft",
         op # "create" => form.kind = "detail",
         op \in {"create", "patch"} => name = form.name,
         op = "force" => of = form.dependents /\ form.dependents # 0
  PROVE  IsStationCall(Call(op, form.id, name, of)) /\ Fits(Call(op, form.id, name, of), form)
<1>1. /\ form.id \in Stations \cup {0} /\ form.name \in Names \cup {NoName}
      /\ form.kind = "detail" => form.id = TopOf(stack).id
      /\ form.dependents # 0 /\ form.dependents # form.id => form.reused
  BY DEF StationInv, GoodForm, Forms
<1>2. form.kind = "detail" => form.id \in Stations
  <2>1. TopOf(stack) \in Frames
    BY TopIsFrame DEF StationInv
  <2>2. form.kind = "detail" => TopOf(stack).kind = "detail"
    BY DEF StationInv, GoodForm, makeDraft, NoForm
  <2> QED
    BY <1>1, <2>1, <2>2 DEF Frames
<1> QED
  BY <1>1, <1>2 DEF Call, IsStationCall, Fits

LEMMA onSubmitStep == ASSUME StationInv, onSubmit PROVE StationInv'
<1> DEFINE op == IF form.kind = "draft" THEN "create" ELSE "patch"
           c == Call(op, form.id, form.name, form.id)
<1>1. /\ form.kind # "none" /\ form.name # NoName
      /\ stationCalls' = stationCalls \cup {c}
      /\ listed' = IF op = "patch" /\ listed[form.id] # NoName
                   THEN [listed EXCEPT ![form.id] = form.name] ELSE listed
      /\ stack' = stack /\ UNCHANGED stations
      /\ (listed' # listed => Render) /\ (listed' = listed => form' = form)
  BY DEF onSubmit
<1>2. form.kind \in {"draft", "detail"} /\ form.name \in Names \cup {NoName}
  BY <1>1 DEF StationInv, GoodForm, Forms
<1>3. IsStationCall(c) /\ Fits(c, form)
  BY <1>2, CallIsCall
<1> HIDE DEF c
<1>4. listed' \in Lists
  BY <1>1, <1>2 DEF StationInv, Lists
<1>5. \A d \in stationCalls' : IsStationCall(d) /\ Fits(d, form)
  BY <1>1, <1>3 DEF StationInv
<1>6. CASE listed' = listed
  BY <1>1, <1>5, <1>6 DEF StationInv
<1>7. CASE listed' # listed
  <2>1. GoodForm(form', TopOf(stack'), listed') /\ GoesOn
    BY <1>1, <1>4, <1>7, RenderStep DEF StationInv
  <2>2. form.kind = "detail" /\ listed' = [listed EXCEPT ![form.id] = form.name] /\ listed[form.id] # NoName
    BY <1>1, <1>2, <1>7
  <2>3. TopOf(stack) \in Frames /\ TopOf(stack).id = form.id /\ TopOf(stack).kind = "detail"
    BY <2>2, TopIsFrame DEF StationInv, GoodForm, makeDraft, NoForm
  <2>4. listed'[form.id] = form.name
    BY <2>2, <2>3 DEF StationInv, Lists, Frames
  <2>5. makeDraft(TopOf(stack), listed').kind = "detail"
    BY <1>1, <2>3, <2>4 DEF makeDraft, NoForm
  <2>6. form'.kind = form.kind
    BY <1>1, <2>1, <2>2, <2>5 DEF GoodForm
  <2>7. Orphaned(stationCalls') = stationCalls'
    BY <2>6 DEF Orphaned
  <2>8. \A d \in stationCalls' : IsStationCall(d) /\ Fits(d, form')
    BY <1>5, <2>1, <2>7, OrphanedFit
  <2> QED
    BY <1>1, <1>4, <2>1, <2>8 DEF StationInv
<1> QED
  BY <1>6, <1>7

LEMMA attemptDeleteStep == ASSUME StationInv, NEW force \in BOOLEAN, attemptDelete(force) PROVE StationInv'
<1> DEFINE op == IF force THEN "force" ELSE "delete"
           of == IF force THEN form.dependents ELSE form.id
           c == Call(op, form.id, NoName, of)
<1>1. /\ form.kind = "detail" /\ (force => form.dependents # 0)
      /\ stationCalls' = stationCalls \cup {c} /\ UNCHANGED <<stations, listed, stack, form>>
  BY DEF attemptDelete
<1>2. /\ op \in {"create", "patch", "delete", "force"} /\ op \notin {"create", "patch"}
      /\ op = "force" => of = form.dependents /\ form.dependents # 0
  BY <1>1
<1>3. IsStationCall(c) /\ Fits(c, form)
  <2> HIDE DEF op, of
  <2> QED
    BY <1>1, <1>2, CallIsCall
<1> HIDE DEF c
<1> QED
  BY <1>1, <1>3 DEF StationInv

LEMMA RenderAgainStep == ASSUME StationInv, RenderAgain PROVE StationInv'
<1>1. makeDraft(TopOf(stack), listed').kind = form.kind
  BY DEF RenderAgain, StationInv, GoodForm
<1> QED
  BY <1>1, SameKind DEF RenderAgain, StationInv

LEMMA RefetchSteps ==
  ASSUME StationInv, Refetch \/ \E s \in Stations, name \in Names : Rename(s, name)
  PROVE  StationInv'
<1>1. CASE Refetch
  <2>1. listed' \in Lists /\ stack' \in Seq(Frames)
    BY <1>1 DEF Refetch, StationInv
  <2>2. GoodForm(form', TopOf(stack'), listed') /\ GoesOn
    BY <1>1, <2>1, RenderStep DEF Refetch
  <2>3. \A c \in stationCalls' : IsStationCall(c) /\ Fits(c, form')
    BY <1>1, <2>2, OrphanedFit DEF Refetch, StationInv
  <2> QED
    BY <1>1, <2>1, <2>2, <2>3 DEF Refetch, StationInv
<1>2. ASSUME NEW s \in Stations, NEW name \in Names, Rename(s, name) PROVE StationInv'
  <2>1. stations' \in Lists
    BY <1>2 DEF Rename, StationInv, Lists
  <2> QED
    BY <1>2, <2>1 DEF Rename, StationInv
<1> QED
  BY <1>1, <1>2

LEMMA AnsweredStep ==
  ASSUME StationInv, NEW c \in stationCalls, NEW answer \in {"ok", "dependents", "error"}, NEW n,
         c.op = "create" => (answer = "ok" => n \in Stations) /\ n \in Stations \cup {0},
         c.op # "create" => n = c.id, answer = "dependents" => c.op = "delete",
         Answered(c, answer, n), stations' \in Lists, UNCHANGED <<listed, stack, form>>
  PROVE  StationInv'
<1>1. PICK d : d = [c EXCEPT !.answer = answer, !.id = n] /\ stationCalls' = (stationCalls \ {c}) \cup {d}
  BY DEF Answered
<1>2. IsStationCall(c) /\ Fits(c, form)
  BY DEF StationInv
<1>3. /\ DOMAIN d = DOMAIN c /\ d.op = c.op /\ d.id = n /\ d.name = c.name /\ d.of = c.of
      /\ d.reused = c.reused /\ d.live = c.live /\ d.answer = answer
  BY <1>1, <1>2 DEF IsStationCall
<1>4. IsStationCall(d)
  BY <1>2, <1>3 DEF IsStationCall
<1>5. Fits(d, form)
  BY <1>2, <1>3 DEF Fits
<1> QED
  BY <1>1, <1>4, <1>5 DEF StationInv

LEMMA ServeSteps == ASSUME StationInv, NEW c \in stationCalls, Serve(c) \/ LoseAnswer(c) PROVE StationInv'
<1>1. IsStationCall(c)
  BY DEF StationInv
<1>2. UNCHANGED <<listed, stack, form>>
  BY DEF Serve, LoseAnswer
<1>3. ASSUME NEW s \in Stations, NEW name \in Names \cup {NoName}, stations' = [stations EXCEPT ![s] = name]
      PROVE  stations' \in Lists
  BY <1>3 DEF StationInv, Lists
<1>4. stations \in Lists
  BY DEF StationInv
<1>5. ASSUME c.op = "create", NEW s \in Stations, stations' = [stations EXCEPT ![s] = c.name], Answered(c, "ok", s)
      PROVE  StationInv'
  <2>1. stations' \in Lists
    BY <1>1, <1>3, <1>5 DEF IsStationCall
  <2> QED
    BY <1>2, <1>5, <2>1, AnsweredStep
<1>6. CASE c.op = "patch" /\ stations' = [stations EXCEPT ![c.id] = c.name] /\ Answered(c, "ok", c.id)
  <2>1. stations' \in Lists
    BY <1>1, <1>3, <1>6 DEF IsStationCall
  <2> QED
    BY <1>2, <1>6, <2>1, AnsweredStep
<1>7. CASE c.op \in {"delete", "force"} /\ stations' = [stations EXCEPT ![c.id] = NoName] /\ Answered(c, "ok", c.id)
  <2>1. stations' \in Lists
    BY <1>1, <1>3, <1>7 DEF IsStationCall
  <2> QED
    BY <1>2, <1>7, <2>1, AnsweredStep
<1>8. CASE c.op = "photo" /\ Answered(c, "ok", c.id) /\ UNCHANGED stations
  BY <1>2, <1>4, <1>8, AnsweredStep
<1>9. CASE c.op = "delete" /\ Answered(c, "dependents", c.id) /\ UNCHANGED stations
  BY <1>2, <1>4, <1>9, AnsweredStep
<1>10. CASE Answered(c, "error", c.id) /\ UNCHANGED stations
  <2>1. c.id \in Stations \cup {0}
    BY <1>1 DEF IsStationCall
  <2> QED
    BY <1>2, <1>4, <1>10, <2>1, AnsweredStep
<1> QED
  BY <1>5, <1>6, <1>7, <1>8, <1>9, <1>10 DEF Serve, LoseAnswer

LEMMA ReceiveScreen ==
  ASSUME StationInv, ShellTypeOK, NEW c \in stationCalls, Receive(c)
  PROVE  ShellTypeOK'
<1>1. IsStationCall(c)
  BY DEF StationInv
<1>2. CASE UNCHANGED shellVars
  BY <1>2 DEF shellVars, ShellTypeOK, Screens
<1>3. CASE c.answer = "ok" /\ navigate(Path("vs", c.id))
  <2>1. Path("vs", c.id) \in Paths
    BY <1>1, <1>3, PathsAssumption DEF IsStationCall
  <2> QED
    BY <1>3, <2>1, navigateStep
<1>4. CASE navigate(Path("vs", 0))
  BY <1>4, PathsAssumption, navigateStep
<1> QED
  BY <1>2, <1>3, <1>4 DEF Receive, AfterAnswer, Saved

LEMMA PhotoOfIsCall ==
  ASSUME StationInv, NEW c \in stationCalls, WantsPhoto(c)
  PROVE  IsStationCall(PhotoOf(c)) /\ Fits(PhotoOf(c), form)
<1>1. /\ IsStationCall(c) /\ Fits(c, form) /\ c.op \in {"create", "patch"} /\ c.answer = "ok" /\ c.live
      /\ form.file # -1
  BY DEF StationInv, WantsPhoto
<1>2. /\ form.file \in Stations \cup {0} /\ (form.file \in Stations /\ form.file # form.id => form.reused)
      /\ form.kind = "draft" => form.id = 0
  BY <1>1 DEF StationInv, GoodForm, Forms
<1>3. c.id \in Stations
  BY <1>1 DEF IsStationCall
<1>4. form.file # 0 /\ form.file # c.id => form.reused
  <2>1. CASE c.op = "patch"
    BY <1>1, <1>2, <2>1 DEF Fits
  <2>2. CASE c.op = "create"
    BY <1>1, <1>2, <2>2 DEF Fits
  <2> QED
    BY <1>1, <2>1, <2>2
<1>5. PICK of : of = IF form.file = 0 THEN c.id ELSE form.file
  OBVIOUS
<1>6. PICK d : d = [c EXCEPT !.op = "photo", !.answer = "none", !.name = c.op,
                             !.file = form.file, !.reused = form.reused, !.of = of]
  OBVIOUS
<1>7. /\ DOMAIN d = DOMAIN c /\ d.op = "photo" /\ d.id = c.id /\ d.of = of
      /\ (d.reused <=> form.reused) /\ d.answer = "none"
  BY <1>1, <1>6 DEF IsStationCall
<1>8. d = PhotoOf(c)
  BY <1>5, <1>6 DEF PhotoOf
<1>9. IsStationCall(d) /\ Fits(d, form)
  BY <1>1, <1>3, <1>4, <1>5, <1>7 DEF IsStationCall, Fits
<1> QED
  BY <1>8, <1>9

LEMMA ReceiveStationStep == ASSUME StationInv, IsScreen(screen'), NEW c \in stationCalls, Receive(c) PROVE StationInv'
<1> DEFINE calls == (stationCalls \ {c}) \cup (IF WantsPhoto(c) THEN {PhotoOf(c)} ELSE {})
<1>1. IsStationCall(c) /\ Fits(c, form)
  BY DEF StationInv
<1>2. \A d \in calls : IsStationCall(d) /\ Fits(d, form)
  BY PhotoOfIsCall DEF StationInv
<1> HIDE DEF calls
<1>3. /\ stationCalls' = Orphaned(calls) /\ UNCHANGED stations
      /\ listed' = IF c.op = "patch" \/ c.answer = "ok" THEN stations ELSE listed
  BY DEF Receive, AfterAnswer, calls
<1>4. listed' \in Lists
  BY <1>3 DEF StationInv
<1>5. ASSUME stack' \in Seq(Frames), GoodForm(form', TopOf(stack'), listed'), GoesOn PROVE StationInv'
  <2>1. \A d \in stationCalls' : IsStationCall(d) /\ Fits(d, form')
    BY <1>2, <1>3, <1>5, OrphanedFit
  <2> QED
    BY <1>3, <1>4, <1>5, <2>1 DEF StationInv
<1>6. CASE Reroute
  <2>1. stack' \in Seq(Frames)
    BY <1>6, RerouteStack
  <2> QED
    BY <1>4, <1>5, <1>6, <2>1, RenderStep DEF Reroute
<1>7. CASE stack' = stack /\ c.answer = "dependents" /\ c.live /\ form' = [form EXCEPT !.dependents = c.id]
  <2>1. c.op = "delete" /\ listed' = listed /\ c.id \in Stations /\ form.kind = "detail"
        /\ (c.id = form.id \/ form.reused)
    BY <1>1, <1>3, <1>7 DEF IsStationCall, Fits
  <2>2. form \in Forms
    BY DEF StationInv, GoodForm
  <2>3. /\ form' \in Forms /\ form'.kind = form.kind /\ form'.id = form.id
        /\ form'.name = form.name /\ form'.typed = form.typed
        /\ form'.file = form.file /\ (form'.reused <=> form.reused) /\ form'.dependents = c.id
    BY <1>7, <2>1, <2>2 DEF Forms
  <2>4. GoodForm(form', TopOf(stack'), listed')
    BY <1>7, <2>1, <2>3 DEF StationInv, GoodForm
  <2>5. GoesOn
    BY <2>3 DEF GoesOn
  <2> QED
    BY <1>5, <1>7, <2>4, <2>5 DEF StationInv
<1>8. CASE stack' = stack /\ form' = [Rendered(TopOf(stack), TopOf(stack), listed') EXCEPT !.dependents = 0]
  <2>1. TopOf(stack) \in Frames
    BY TopIsFrame DEF StationInv
  <2>2. PICK f : /\ f = Rendered(TopOf(stack), TopOf(stack), listed')
                 /\ GoodForm(f, TopOf(stack), listed')
                 /\ (f.kind = "detail" /\ form.kind = "detail") =>
                      (f.id = form.id \/ f.reused) /\ (form.reused => f.reused)
    BY <1>4, <2>1, RenderedIsGood DEF StationInv
  <2>3. form' = [f EXCEPT !.dependents = 0]
    BY <1>8, <2>2
  <2>4. f \in Forms
    BY <2>2 DEF GoodForm
  <2>5. /\ form' \in Forms /\ form'.kind = f.kind /\ form'.id = f.id
        /\ form'.name = f.name /\ form'.typed = f.typed
        /\ form'.file = f.file /\ (form'.reused <=> f.reused) /\ form'.dependents = 0
    BY <2>3, <2>4 DEF Forms
  <2>6. GoodForm(form', TopOf(stack'), listed')
    BY <1>8, <2>2, <2>5 DEF GoodForm
  <2>7. GoesOn
    BY <2>2, <2>5 DEF GoesOn
  <2> QED
    BY <1>5, <1>8, <2>6, <2>7 DEF StationInv
<1>9. CASE stack' = stack /\ Render
  <2>1. stack' \in Seq(Frames)
    BY <1>9 DEF StationInv
  <2> QED
    BY <1>4, <1>5, <1>9, <2>1, RenderStep
<1>10. CASE stack' = stack /\ form' = form /\ listed' = listed
  BY <1>5, <1>10 DEF StationInv, GoesOn
<1> QED
  BY <1>6, <1>7, <1>8, <1>9, <1>10 DEF Receive, AfterAnswer

LEMMA InitStationInv == Init => StationInv
<1> SUFFICES ASSUME Init PROVE StationInv
  OBVIOUS
<1>1. /\ stations \in Lists /\ listed = stations /\ stack = <<>> /\ form = NoForm /\ stationCalls = {}
  BY DEF Init, StationInit, Lists
<1>2. makeDraft(TopOf(stack), listed) = NoForm
  BY <1>1 DEF TopOf, ListFrame, Frame, makeDraft
<1>3. -1 \notin Stations
  BY StationAssumption
<1>4. GoodForm(form, TopOf(stack), listed)
  BY <1>1, <1>2, <1>3, NoFormIsForm DEF GoodForm, NoForm
<1>5. stack \in Seq(Frames)
  BY <1>1
<1> QED
  BY <1>1, <1>4, <1>5 DEF StationInv

(* The sidebar and the router: a details frame is that of the station in the *)
(* address, also when drafts and missions were pushed over it.               *)
StackFollows ==
  \A i \in 1..Len(stack) : stack[i].kind = "detail" => screen.sub = "detail" /\ stack[i].id = screen.id

LEMMA RerouteFollows == ASSUME StackFollows, Reroute PROVE StackFollows'
<1>1. CASE stack' = <<>>
  BY <1>1 DEF StackFollows
<1>2. CASE stack' = stack /\ StackKey(screen') = StackKey(screen)
  BY <1>2 DEF StackFollows, StackKey
<1>3. CASE stack' = <<BaseFrame(screen')>>
  BY <1>3 DEF StackFollows, BaseFrame, ListFrame, Frame
<1> QED
  BY <1>1, <1>2, <1>3 DEF Reroute

LEMMA StackStationStep == ASSUME StationInv, StackFollows, StationNext PROVE StackFollows'
<1>1. CASE UNCHANGED <<screen, stack>>
  BY <1>1 DEF StackFollows
<1>2. CASE Reroute
  BY <1>2, RerouteFollows
<1>3. ASSUME NEW frame \in Frames, frame.kind # "detail", Push(frame) PROVE StackFollows'
  <2>1. stack' = Append(stack, frame) /\ screen' = screen /\ stack \in Seq(Frames)
    BY <1>3 DEF Push, shellVars, StationInv
  <2>2. ASSUME NEW i \in 1..Len(stack') 
        PROVE  (i \in 1..Len(stack) /\ stack'[i] = stack[i]) \/ stack'[i] = frame
    BY <2>1
  <2> QED
    BY <1>3, <2>1, <2>2 DEF StackFollows
<1>4. CASE ClickEmpty \/ OpenMissions
  <2>1. Len(stack) \in Nat /\ MaxFrames \in Nat /\ TopOf(stack) \in Frames
    BY StationAssumption, TopIsFrame DEF StationInv
  <2>2. ClickEmpty => Frame("draft", Len(stack) + 1) \in Frames
    BY <2>1 DEF ClickEmpty, Frame, Frames
  <2>3. Frame("missions", TopOf(stack).id) \in Frames
    BY <2>1 DEF Frame, Frames
  <2> QED
    BY <1>3, <1>4, <2>2, <2>3 DEF ClickEmpty, OpenMissions, Frame
<1>5. CASE Pop
  <2>1. stack' = SubSeq(stack, 1, Len(stack) - 1) /\ screen' = screen /\ stack \in Seq(Frames) /\ stack # <<>>
    BY <1>5 DEF Pop, TopOf, ListFrame, Frame, shellVars, StationInv
  <2>2. Len(stack') = Len(stack) - 1 /\ \A i \in 1..Len(stack') : stack'[i] = stack[i]
    <3>1. Len(stack) \in Nat /\ Len(stack) > 0 /\ \A i \in 1..(Len(stack) - 1) : stack[i] \in Frames
      BY <2>1
    <3>2. Len(stack) - 1 \in Int /\ Len(stack) \in Int
      BY <3>1
    <3>3. /\ Len(stack') = IF 1 <= Len(stack) - 1 THEN (Len(stack) - 1) - 1 + 1 ELSE 0
          /\ \A i \in 1..((Len(stack) - 1) - 1 + 1) : stack'[i] = stack[1 + i - 1]
      BY <2>1, <3>1, <3>2, SubSeqProperties
    <3>4. Len(stack') = Len(stack) - 1
      <4>1. ASSUME NEW n \in Nat, n > 0, NEW m, m = IF 1 <= n - 1 THEN (n - 1) - 1 + 1 ELSE 0
            PROVE  m = n - 1
        BY <4>1
      <4> QED
        BY <3>1, <3>3, <4>1
    <3>5. ASSUME NEW i \in 1..Len(stack') PROVE stack'[i] = stack[i]
      <4>1. i \in 1..((Len(stack) - 1) - 1 + 1) /\ 1 + i - 1 = i
        BY <3>2, <3>4, <3>5
      <4> QED
        BY <3>3, <4>1
    <3> QED
      BY <3>4, <3>5
  <2>3. \A i \in 1..Len(stack') : i \in 1..Len(stack)
    BY <2>1, <2>2
  <2> QED
    BY <2>1, <2>2, <2>3 DEF StackFollows
<1>6. CASE BackToList
  BY <1>1, <1>2, <1>6 DEF BackToList, StationsFollow, stationVars
<1>7. ASSUME NEW c \in stationCalls, Receive(c) PROVE StackFollows'
  BY <1>1, <1>2, <1>7 DEF Receive, AfterAnswer
<1>8. CASE UNCHANGED shellVars /\ stack' = stack
  BY <1>1, <1>8 DEF shellVars
<1> QED
  BY <1>4, <1>5, <1>6, <1>7, <1>8
     DEF StationNext, RenderAgain, Type, ChooseFile, onSubmit, CloseDialog, attemptDelete, Serve,
         LoseAnswer, Rename, Refetch

-----------------------------------------------------------------------------
(* Every step of the browser.                                                *)
PagesInv == subject \in DOMAIN Tours /\ ShellTypeOK /\ StationInv /\ StackFollows /\ TripInv

LEMMA SameScreen == ASSUME ShellTypeOK, UNCHANGED shellVars PROVE ShellTypeOK'
  BY DEF shellVars, ShellTypeOK, Screens

LEMMA ShellStep == ASSUME PagesInv, [Next]_vars PROVE ShellTypeOK'
<1>1. ASSUME NEW path \in Tours[subject], Browse(path) PROVE ShellTypeOK'
  <2>1. path \in Paths
    BY PathsAssumption DEF PagesInv
  <2> QED
    BY <1>1, <2>1, navigateStep DEF Browse, PagesInv
<1>2. ASSUME StationNext PROVE ShellTypeOK'
  <2>1. CASE BackToList
    BY <2>1, PathsAssumption, navigateStep DEF BackToList, PagesInv
  <2>2. CASE \E c \in stationCalls : Receive(c)
    BY <2>2, ReceiveScreen DEF PagesInv
  <2>3. CASE UNCHANGED shellVars
    BY <2>3, SameScreen DEF PagesInv
  <2> QED
    BY <1>2, <2>1, <2>2, <2>3
       DEF StationNext, ClickEmpty, OpenMissions, Push, Pop, RenderAgain, Type, ChooseFile, onSubmit,
           CloseDialog, attemptDelete, Serve, LoseAnswer, Rename, Refetch
<1>3. ASSUME TripNext PROVE ShellTypeOK'
  <2>1. CASE \E c \in tripCalls : ReceiveTrip(c)
    BY <2>1, ReceiveTripScreen DEF PagesInv
  <2>2. CASE UNCHANGED shellVars
    BY <2>2, SameScreen DEF PagesInv
  <2> QED
    BY <1>3, <2>1, <2>2
       DEF TripNext, setStopVS, setStopTime, revertStopTime, removeStop, toggleBoard, toggleAlight, addStop,
           setCrew, appendStopForVS, setMode, Fill, Edit, LegsArrive, TripArrives, onSave, onDelete, SendTrip,
           ServeTrip
<1>4. ASSUME EventNext PROVE ShellTypeOK'
  <2>1. UNCHANGED shellVars
    BY <1>4 DEF EventNext, Enter, save, onLogoChange, SendEvent, PutReads, PutWrites, SetLogoPath,
                startTileDownload, FailEvent, SetCopy, Done, ReadAnew, LeaveCopy, AskFetch, FetchReads,
                FetchLands, FetchEnds, FetchFails
  <2> QED
    BY <2>1, SameScreen DEF PagesInv
<1>5. ASSUME CsvNext PROVE ShellTypeOK'
  <2>1. CASE handleCancel
    BY <2>1, PathsAssumption, navigateStep DEF handleCancel, PagesInv
  <2>2. CASE UNCHANGED shellVars
    BY <2>2, SameScreen DEF PagesInv
  <2> QED
    BY <1>5, <2>1, <2>2
       DEF CsvNext, onFile, submitMapping, commit, SendCsv, ChangeKey, EditMapping, Adjusted, resolveRow,
           ServeUpload, GetSession, UpdateSession, CommitRows, DeleteSession, CsvStep, ReceiveCsv, GiveUpCsv, GC
<1>6. CASE UNCHANGED vars
  BY <1>6, SameScreen DEF vars, PagesInv
<1> QED
  BY <1>1, <1>2, <1>3, <1>4, <1>5, <1>6 DEF Next, EditStations, EditTrips, EditEvent, ImportCsv

LEMMA StationStep == ASSUME PagesInv, IsScreen(screen'), [Next]_vars PROVE StationInv'
<1>1. CASE StationNext
  BY <1>1, FrameSteps, StationsFollowStep, RenderAgainStep, FormSteps, onSubmitStep, attemptDeleteStep,
     ServeSteps, ReceiveStationStep, RefetchSteps DEF StationNext, BackToList, PagesInv
<1>2. CASE StationsFollow
  BY <1>2, StationsFollowStep DEF PagesInv
<1>3. CASE UNCHANGED vars
  BY <1>3 DEF vars, stationVars, StationInv, PagesInv
<1> QED
  BY <1>1, <1>2, <1>3 DEF Next, Browse, EditStations, EditTrips, EditEvent, ImportCsv

LEMMA StackStep == ASSUME PagesInv, [Next]_vars PROVE StackFollows'
<1>1. CASE StationNext
  BY <1>1, StackStationStep DEF PagesInv
<1>2. CASE StationsFollow
  BY <1>2, RerouteFollows DEF StationsFollow, stationVars, StackFollows, PagesInv
<1>3. CASE UNCHANGED vars
  BY <1>3 DEF vars, shellVars, stationVars, StackFollows, PagesInv
<1> QED
  BY <1>1, <1>2, <1>3 DEF Next, Browse, EditStations, EditTrips, EditEvent, ImportCsv

LEMMA TripStep == ASSUME PagesInv, IsScreen(screen'), [Next]_vars PROVE TripInv'
<1>1. CASE TripNext
  BY <1>1, StopSteps, ToggleSteps, addStopStep, FlagSteps, appendStopStep, ArrivalSteps, RequestSteps,
     ServeTripStep, ReceiveTripStep DEF TripNext, PagesInv
<1>2. CASE TripsFollow
  BY <1>2, TripsFollowStep DEF PagesInv
<1>3. CASE UNCHANGED vars
  BY <1>3 DEF vars, tripVars, TripInv, PagesInv, FreshEditorsSaveTheirTrip
<1> QED
  BY <1>1, <1>2, <1>3 DEF Next, Browse, EditStations, EditTrips, EditEvent, ImportCsv

LEMMA InitPages == Init => PagesInv
<1> SUFFICES ASSUME Init PROVE PagesInv
  OBVIOUS
<1>1. subject \in DOMAIN Tours /\ ShellTypeOK
  BY ShellInitial DEF Init
<1>2. StackFollows
  BY DEF Init, StationInit, StackFollows
<1> QED
  BY <1>1, <1>2, InitStationInv, InitTripInv DEF PagesInv

LEMMA PagesStep == PagesInv /\ [Next]_vars => PagesInv'
<1> SUFFICES ASSUME PagesInv, [Next]_vars PROVE PagesInv'
  OBVIOUS
<1>1. ShellTypeOK'
  BY ShellStep
<1>2. IsScreen(screen')
  BY <1>1, ScreensAreScreens DEF ShellTypeOK
<1>3. UNCHANGED subject
  BY DEF Next, vars
<1> QED
  BY <1>1, <1>2, <1>3, StationStep, StackStep, TripStep DEF PagesInv

-----------------------------------------------------------------------------
(* Who is on board after stop i: whoever got on at a stop up to i and has    *)
(* not got off from there on.                                                *)
RidesAfter(stops, v, i) ==
  \E k \in 1..i : /\ v \in stops[k].board
                  /\ \A j \in k..i : v \notin stops[j].alight

LEMMA RidesOn ==
  ASSUME NEW stops, NEW v, NEW i \in Nat
  PROVE  /\ ~RidesAfter(stops, v, 0)
         /\ RidesAfter(stops, v, i + 1) <=>
              (RidesAfter(stops, v, i) \/ v \in stops[i + 1].board) /\ v \notin stops[i + 1].alight
<1>1. ~RidesAfter(stops, v, 0)
  BY DEF RidesAfter
<1>2. ASSUME RidesAfter(stops, v, i + 1)
      PROVE  (RidesAfter(stops, v, i) \/ v \in stops[i + 1].board) /\ v \notin stops[i + 1].alight
  <2>1. PICK k \in 1..(i + 1) : v \in stops[k].board /\ \A j \in k..(i + 1) : v \notin stops[j].alight
    BY <1>2 DEF RidesAfter
  <2>2. i + 1 \in k..(i + 1) /\ (k = i + 1 \/ k \in 1..i) /\ \A j \in k..i : j \in k..(i + 1)
    BY <2>1
  <2> QED
    BY <2>1, <2>2 DEF RidesAfter
<1>3. ASSUME RidesAfter(stops, v, i) \/ v \in stops[i + 1].board, v \notin stops[i + 1].alight
      PROVE  RidesAfter(stops, v, i + 1)
  <2>1. CASE RidesAfter(stops, v, i)
    <3>1. PICK k \in 1..i : v \in stops[k].board /\ \A j \in k..i : v \notin stops[j].alight
      BY <2>1 DEF RidesAfter
    <3>2. k \in 1..(i + 1) /\ \A j \in k..(i + 1) : j \in k..i \/ j = i + 1
      BY <3>1
    <3> QED
      BY <1>3, <3>1, <3>2 DEF RidesAfter
  <2>2. CASE v \in stops[i + 1].board
    <3>1. i + 1 \in 1..(i + 1) /\ \A j \in (i + 1)..(i + 1) : j = i + 1
      OBVIOUS
    <3> QED
      BY <1>3, <2>2, <3>1 DEF RidesAfter
  <2> QED
    BY <1>3, <2>1, <2>2
<1> QED
  BY <1>1, <1>2, <1>3

LEMMA OnboardRides ==
  ASSUME NEW stops, IsStops(stops)
  PROVE  \A i \in 0..Len(stops) : Onboard(stops)[i] = {v \in Volunteers : RidesAfter(stops, v, i)}
<1> DEFINE n == Len(stops)
           T == SUBSET Volunteers
           Boards(f) == f = [i \in 0..Len(stops) |->
                               IF i = 0 THEN {} ELSE (f[i - 1] \cup stops[i].board) \ stops[i].alight]
           next == [p \in (1..n) \X T |-> (p[2] \cup stops[p[1]].board) \ stops[p[1]].alight]
           on == CHOOSE f : Boards(f)
<1>1. n \in Nat /\ \A i \in 1..n : stops[i].board \in T /\ stops[i].alight \in T
  <2>1. n \in Nat /\ \A i \in 1..n : stops[i] \in Stop
    BY DEF IsStops
  <2> QED
    BY <2>1 DEF Stop
<1>2. next \in [(1..n) \X T -> T]
  <2> SUFFICES ASSUME NEW i \in 1..n, NEW t \in T
               PROVE  (t \cup stops[i].board) \ stops[i].alight \in T
    OBVIOUS
  <2> QED
    BY <1>1
<1>3. PICK f \in [0..n -> T] : f[0] = {} /\ \A i \in 1..n : f[i] = next[<<i, f[i - 1]>>]
  <2>1. {} \in T /\ n \in Nat
    BY <1>1
  <2> HIDE DEF n, T, next
  <2>2. Computable(n, T, {}, next)
    BY <1>2, <2>1, RecursiveFunction
  <2> QED
    BY <2>2 DEF Computable
<1>4. \A i \in 1..n : i \in 0..n /\ i - 1 \in 0..n /\ i # 0
  BY <1>1
<1>5. Boards(f)
  <2>1. ASSUME NEW i \in 1..n PROVE f[i] = (f[i - 1] \cup stops[i].board) \ stops[i].alight
    <3>1. <<i, f[i - 1]>> \in (1..n) \X T
      BY <1>3, <1>4
    <3> QED
      BY <1>3, <3>1
  <2>2. \A i \in 0..n : i = 0 \/ i \in 1..n
    BY <1>1
  <2>3. DOMAIN f = 0..n /\ f = [i \in 0..n |-> f[i]]
    BY <1>3
  <2> HIDE DEF next, T
  <2> QED
    BY <1>3, <2>1, <2>2, <2>3
<1>6. Boards(on)
  <2> HIDE DEF Boards
  <2> QED
    BY <1>5
<1>7. Onboard(stops) = on
  BY DEF Onboard
<1> HIDE DEF next, on
<1>8. /\ on[0] = {}
      /\ \A i \in 1..n : on[i] = (on[i - 1] \cup stops[i].board) \ stops[i].alight
  <2>1. 0 \in 0..n
    BY <1>1
  <2> QED
    BY <1>4, <1>6, <2>1
<1> HIDE DEF Boards
<1>9. \A i \in 0..n : on[i] = {v \in Volunteers : RidesAfter(stops, v, i)}
  <2> DEFINE Aboard(i) == {v \in Volunteers : RidesAfter(stops, v, i)}
             S == {m \in Nat : m <= n => on[m] = Aboard(m)}
  <2>1. 0 \in S
    <3>1. Aboard(0) = {}
      BY RidesOn
    <3> QED
      BY <1>8, <3>1
  <2>2. ASSUME NEW m \in S PROVE m + 1 \in S
    <3> SUFFICES ASSUME m + 1 <= n PROVE on[m + 1] = Aboard(m + 1)
      OBVIOUS
    <3>1. m \in Nat /\ m <= n /\ m + 1 \in 1..n /\ (m + 1) - 1 = m
      BY <1>1
    <3>2. on[m] = Aboard(m)
      BY <3>1
    <3>3. on[m + 1] = (on[m] \cup stops[m + 1].board) \ stops[m + 1].alight
      BY <1>8, <3>1
    <3>4. \A v : RidesAfter(stops, v, m + 1) <=>
                   (RidesAfter(stops, v, m) \/ v \in stops[m + 1].board) /\ v \notin stops[m + 1].alight
      BY <3>1, RidesOn
    <3>5. stops[m + 1].board \subseteq Volunteers
      BY <1>1, <3>1
    <3> QED
      BY <3>2, <3>3, <3>4, <3>5
  <2>3. S = Nat
    <3>1. S \in SUBSET Nat
      OBVIOUS
    <3> HIDE DEF S
    <3> QED
      BY <2>1, <2>2, <3>1, SetInduction
  <2> QED
    BY <1>1, <2>3
<1> QED
  BY <1>7, <1>9

LEMMA ChipsAreTrue == ASSUME TripInv PROVE ChipsTellTheTruth
<1> DEFINE stops == editor.stops
           chips == legWarnings(editor, legsKnown)
           Rides(v, i) == \E k \in 1..i : /\ v \in stops[k].board
                                          /\ \A j \in k..i : v \notin stops[j].alight
<1>1. IsStops(stops) /\ Len(stops) \in Nat
  BY DEF TripInv, GoodEditor, IsEditor, IsStops
<1>2. \A i \in 0..Len(stops) : Onboard(stops)[i] = {v \in Volunteers : Rides(v, i)}
  BY <1>1, OnboardRides DEF RidesAfter
<1>3. chips.crowded = {i \in 1..(Len(stops) - 1) : editor.crew /\ Cardinality(Onboard(stops)[i]) > Seats}
  BY Zenon DEF legWarnings
<1>4. chips.stranded = (Onboard(stops)[Len(stops)] # {})
  BY Zenon DEF legWarnings
<1>5. chips.crowded = {i \in 1..(Len(stops) - 1) :
                        editor.crew /\ Cardinality({v \in Volunteers : Rides(v, i)}) > Seats}
  <2>1. \A i \in 1..(Len(stops) - 1) : i \in 0..Len(stops)
    BY <1>1
  <2>2. \A i \in 1..(Len(stops) - 1) : Cardinality(Onboard(stops)[i]) = Cardinality({v \in Volunteers : Rides(v, i)})
    BY <1>2, <2>1, Zenon
  <2> QED
    BY <1>3, <2>2, Zenon
<1>6. (Onboard(stops)[Len(stops)] # {}) <=> \E v \in Volunteers : Rides(v, Len(stops))
  <2>1. Len(stops) \in 0..Len(stops)
    BY <1>1
  <2>2. Onboard(stops)[Len(stops)] = {v \in Volunteers : Rides(v, Len(stops))}
    BY <1>2, <2>1
  <2> QED
    BY <2>2
<1>7. chips.stranded = \E v \in Volunteers : Rides(v, Len(stops))
  BY <1>4, <1>6, Zenon
<1> QED
  BY <1>5, <1>7, Zenon DEF ChipsTellTheTruth

-----------------------------------------------------------------------------
(* The requests of the settings pages are as many as the model allows.       *)
EventTally == IsFiniteSet(eventCalls) /\ Cardinality(eventCalls) <= MaxEventCalls

LEMMA ImageOfCalls ==
  ASSUME NEW calls, IsFiniteSet(calls), NEW f, DOMAIN f = calls
  PROVE  LET image == {f[c] : c \in calls} IN
         IsFiniteSet(image) /\ Cardinality(image) \in Nat /\ Cardinality(image) <= Cardinality(calls)
<1> DEFINE image == {f[c] : c \in calls}
           g == [c \in calls |-> f[c]]
<1>1. g \in Surjection(calls, image)
  BY DEF Surjection
<1> HIDE DEF g, image
<1>2. IsFiniteSet(image) /\ Cardinality(image) <= Cardinality(calls)
  BY <1>1, FS_Surjection
<1>3. Cardinality(image) \in Nat
  BY <1>2, FS_CardinalityType
<1> QED
  BY <1>2, <1>3 DEF image

LEMMA EventTallyStep == ASSUME EventTally, [Next]_vars PROVE EventTally'
<1>1. Cardinality(eventCalls) \in Nat
  BY FS_CardinalityType DEF EventTally
<1>2. ASSUME eventCalls' \subseteq eventCalls PROVE EventTally'
  <2>1. IsFiniteSet(eventCalls') /\ Cardinality(eventCalls') <= Cardinality(eventCalls)
    BY <1>2, FS_Subset DEF EventTally
  <2>2. Cardinality(eventCalls') \in Nat
    BY <2>1, FS_CardinalityType
  <2> QED
    BY <1>1, <2>1, <2>2, EventAssumption DEF EventTally
<1>3. ASSUME NEW c \in eventCalls, NEW d, Advanced(c, d) PROVE EventTally'
  <2> DEFINE rest == eventCalls \ {c}
  <2>1. IsFiniteSet(rest) /\ Cardinality(rest) = Cardinality(eventCalls) - 1
    BY FS_RemoveElement DEF EventTally
  <2>2. eventCalls' = rest \cup {d}
    BY <1>3 DEF Advanced
  <2> HIDE DEF rest
  <2>3. /\ IsFiniteSet(rest \cup {d})
        /\ Cardinality(rest \cup {d}) = IF d \in rest THEN Cardinality(rest) ELSE Cardinality(rest) + 1
    BY <2>1, FS_AddElement
  <2>4. Cardinality(rest \cup {d}) <= Cardinality(eventCalls)
    BY <1>1, <2>1, <2>3
  <2>5. Cardinality(rest \cup {d}) \in Nat
    BY <2>3, FS_CardinalityType
  <2> QED
    BY <1>1, <2>2, <2>3, <2>4, <2>5, EventAssumption DEF EventTally
<1>4. ASSUME NEW c, SendEvent(c) PROVE EventTally'
  <2> DEFINE alone == [d \in eventCalls |-> [d EXCEPT !.alone = FALSE]]
             image == {alone[d] : d \in eventCalls}
  <2>1. eventCalls' = image \cup {c} /\ Cardinality(eventCalls) < MaxEventCalls
    BY <1>4 DEF SendEvent
  <2>2. DOMAIN alone = eventCalls
    OBVIOUS
  <2> HIDE DEF alone
  <2>3. IsFiniteSet(image) /\ Cardinality(image) \in Nat /\ Cardinality(image) <= Cardinality(eventCalls)
    BY <2>2, ImageOfCalls DEF EventTally
  <2> HIDE DEF image
  <2>4. /\ IsFiniteSet(image \cup {c})
        /\ Cardinality(image \cup {c}) = IF c \in image THEN Cardinality(image) ELSE Cardinality(image) + 1
    BY <2>3, FS_AddElement
  <2>5. Cardinality(image \cup {c}) <= MaxEventCalls
    BY <1>1, <2>1, <2>3, <2>4, EventAssumption
  <2> QED
    BY <2>1, <2>4, <2>5 DEF EventTally
<1>5. ASSUME EventFollows PROVE EventTally'
  <2>1. CASE eventCalls' = eventCalls
    BY <2>1 DEF EventTally
  <2>2. CASE eventCalls' = {[c EXCEPT !.live = FALSE] : c \in eventCalls}
    <3> DEFINE orphan == [c \in eventCalls |-> [c EXCEPT !.live = FALSE]]
    <3>1. DOMAIN orphan = eventCalls /\ eventCalls' = {orphan[c] : c \in eventCalls}
      BY <2>2
    <3> HIDE DEF orphan
    <3>2. /\ IsFiniteSet(eventCalls') /\ Cardinality(eventCalls') \in Nat
          /\ Cardinality(eventCalls') <= Cardinality(eventCalls)
      BY <3>1, ImageOfCalls DEF EventTally
    <3> QED
      BY <1>1, <3>2, EventAssumption DEF EventTally
  <2> QED
    BY <1>5, <2>1, <2>2 DEF EventFollows, eventVars
<1>6. ASSUME EventNext PROVE EventTally'
  <2>1. CASE \E field \in {"name", "coordinator", "roadbook", "backup"}, v \in Values : Enter(field, v)
    BY <1>2, <2>1 DEF Enter
  <2>2. CASE save \/ onLogoChange
    BY <1>4, <2>2 DEF save, onLogoChange
  <2>3. ASSUME NEW c \in eventCalls,
               PutReads(c) \/ PutWrites(c) \/ SetLogoPath(c) \/ startTileDownload(c) \/ FailEvent(c) \/ ReadAnew(c)
        PROVE  EventTally'
    BY <1>3, <2>3 DEF PutReads, PutWrites, SetLogoPath, startTileDownload, FailEvent, ReadAnew
  <2>4. ASSUME NEW c \in eventCalls, SetCopy(c) \/ LeaveCopy(c) PROVE EventTally'
    BY <1>2, <2>4 DEF SetCopy, LeaveCopy, Done
  <2>5. CASE AskFetch \/ FetchReads \/ FetchLands \/ FetchFails
    BY <1>2, <2>5 DEF AskFetch, FetchReads, FetchLands, FetchFails, FetchEnds
  <2> QED
    BY <1>6, <2>1, <2>2, <2>3, <2>4, <2>5 DEF EventNext
<1>7. CASE UNCHANGED vars
  BY <1>2, <1>7 DEF vars, eventVars
<1> QED
  BY <1>5, <1>6, <1>7 DEF Next, Browse, EditStations, EditTrips, EditEvent, ImportCsv

LEMMA InitEventTally == Init => EventTally
  BY FS_EmptySet, EventAssumption DEF Init, EventInit, EventTally

-----------------------------------------------------------------------------
(* The theorems about the pages.                                             *)
PagesTypes == EventInv /\ EventTally /\ CsvInv /\ PagesInv

LEMMA StationTypes == ASSUME StationInv PROVE StationTypeOK
<1>1. \A i \in 1..Len(stack) : stack[i] \in Frames
  BY ElementOfSeq DEF StationInv
<1>2. form \in Forms
  BY DEF StationInv, GoodForm
<1> QED
  BY <1>1, <1>2 DEF StationInv, StationTypeOK, Frames, Forms, Lists

LEMMA PagesTypesAreTypes == PagesTypes => TypeOK
<1> SUFFICES ASSUME PagesTypes PROVE TypeOK
  OBVIOUS
<1>1. subject \in DOMAIN Tours /\ ShellTypeOK
  BY DEF PagesTypes, PagesInv
<1>2. StationTypeOK
  BY StationTypes DEF PagesTypes, PagesInv
<1>3. TripTypeOK
  BY DEF PagesTypes, PagesInv, TripInv, GoodEditor, IsEditor, IsTripCall, TripTypeOK
<1>4. EventTypeOK
  BY DEF PagesTypes, EventInv, EventShape, IsPage, IsRequest, EventTally, EventTypeOK, Tabs
<1>5. CsvTypeOK
  BY CsvInvTypes DEF PagesTypes
<1> QED
  BY <1>1, <1>2, <1>3, <1>4, <1>5 DEF TypeOK

(* The types of all the pages: where the router is, the frames of the panel, *)
(* the stops of the editor, the fields of the settings, the rows of a file,  *)
(* and how many requests of the settings and of the import there can be.     *)
THEOREM PagesTyped == Spec => []TypeOK
<1>1. Init => PagesTypes
  BY InitEventInv, InitEventTally, InitCsvInv, InitPages DEF PagesTypes
<1>2. PagesTypes /\ [Next]_vars => PagesTypes'
  BY EventStep, EventTallyStep, TypeStep, PagesStep DEF PagesTypes
<1> QED
  BY <1>1, <1>2, PagesTypesAreTypes, PTL DEF Spec

LEMMA PagesHold == Spec => []PagesInv
  BY InitPages, PagesStep, PTL DEF Spec

(* Whatever is opened, pushed, popped, typed, renamed or answered late, for  *)
(* any number of stations and frames: VSForm shows the station in the        *)
(* address, with the name the list has for it or one typed since.            *)
THEOREM FormFollows == Spec => []FormFollowsTheAddress
<1>1. PagesInv => FormFollowsTheAddress
  <2> SUFFICES ASSUME PagesInv, form.kind = "detail"
               PROVE  /\ screen.sub = "detail" /\ form.id = screen.id
                      /\ ~form.typed => form.name = listed[form.id]
    BY DEF FormFollowsTheAddress
  <2>1. /\ GoodForm(form, TopOf(stack), listed) /\ stack \in Seq(Frames) /\ StackFollows
    BY DEF PagesInv, StationInv
  <2>2. TopOf(stack).kind = "detail" /\ form.id = TopOf(stack).id
    BY <2>1 DEF GoodForm, makeDraft, NoForm
  <2>3. stack # <<>> /\ TopOf(stack) = stack[Len(stack)]
    BY <2>2 DEF TopOf, ListFrame, Frame
  <2>4. Len(stack) \in 1..Len(stack)
    BY <2>1, <2>3
  <2> QED
    BY <2>1, <2>2, <2>3, <2>4 DEF StackFollows, GoodForm
<1> QED
  BY <1>1, PagesHold, PTL

(* onSubmit's photo and attemptDelete's second request are about the station *)
(* they were chosen for, as long as the form was not kept for another one.   *)
THEOREM StationsKept == Spec => []FreshFormsKeepTheirStation
<1>1. PagesInv => FreshFormsKeepTheirStation
  BY DEF PagesInv, StationInv, IsStationCall, FreshFormsKeepTheirStation
<1> QED
  BY <1>1, PagesHold, PTL

(* applyAutoFill leaves every automatic time a leg after the stop before it, *)
(* and no later edit that keeps the mode breaks that.                        *)
THEOREM TimesFollowed == Spec => []AutoTimesFollow
<1>1. PagesInv => AutoTimesFollow
  BY DEF PagesInv, TripInv, GoodEditor, TimesFollow, AutoTimesFollow
<1> QED
  BY <1>1, PagesHold, PTL

(* legWarnings' walk along the stops finds who is on board of each leg.      *)
THEOREM ChipsCorrect == Spec => []ChipsTellTheTruth
<1>1. PagesInv => ChipsTellTheTruth
  BY ChipsAreTrue DEF PagesInv
<1> QED
  BY <1>1, PagesHold, PTL

(* onSave sends under an id the stops read from that trip, unless the editor *)
(* was kept for another one or had not read its own yet.                     *)
THEOREM TripsKept == Spec => []FreshEditorsSaveTheirTrip
<1>1. PagesInv => FreshEditorsSaveTheirTrip
  BY DEF PagesInv, TripInv
<1> QED
  BY <1>1, PagesHold, PTL
=============================================================================
