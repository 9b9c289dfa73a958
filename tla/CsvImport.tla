----------------------------- MODULE CsvImport -----------------------------
(***************************************************************************)
(* The CSV import of volunteers: the wizard of the page                    *)
(* /ressources/benevoles/import and the session each upload opens on the   *)
(* server, a row of csv_imports that mapping, resolve and commit read and  *)
(* then write.  A row of the file is a number; what the server makes of it *)
(* is its class.                                                           *)
(***************************************************************************)
EXTENDS Shell

CONSTANTS
  Sessions,             \* sessions the server may open, 1..n
  FileRows, FaultyRows, \* rows of the file, and those that do not validate
  Matches,              \* volunteers that match each row by each key, -1 without a key
  MaxCsvCalls, MaxCsvSends

(* 0 is no session.                                                          *)
ASSUME CsvAssumption == Sessions \subseteq Nat \ {0} /\ MaxCsvSends \in Nat

VARIABLES
  sessions,             \* csv_imports: the classes of each session
  added,                \* volunteers each row has inserted
  applied,              \* times each session has been imported
  wizard,               \* the CsvImportWizard on the screen
  csvCalls, csvSends,   \* its requests, and how many so far
  crossed, excused      \* sessions two of whose requests overlapped, in two ways

csvVars == <<sessions, added, applied, wizard, csvCalls, csvSends, crossed, excused>>
-----------------------------------------------------------------------------
Classes == {"new", "update", "ambiguous", "error", "skip"}
NoRows == [r \in {} |-> "new"]
Session(state, rows) == [state |-> state, rows |-> rows]
IsOpen(s) == s # 0 /\ sessions[s].state = "open"
Ambiguous(rows) == {r \in DOMAIN rows : rows[r] = "ambiguous"}

Classify(key) ==
  [r \in FileRows |->
     LET n == Matches[key][r] + added[r] IN
     CASE r \in FaultyRows -> "error"
       [] r \notin FaultyRows /\ (Matches[key][r] = -1 \/ n = 0) -> "new"
       [] r \notin FaultyRows /\ Matches[key][r] # -1 /\ n = 1 -> "update"
       [] OTHER -> "ambiguous"]

NoWizard == [on |-> FALSE, step |-> "upload", session |-> 0, key |-> "name", rows |-> NoRows,
             busy |-> FALSE]
IsImport(to) == to.kind = "header" /\ to.tool = "import"
CsvFollows ==
  IF screen' = screen THEN UNCHANGED csvVars
  ELSE /\ wizard' = [NoWizard EXCEPT !.on = IsImport(screen')]
       /\ csvCalls' = {[c EXCEPT !.live = FALSE] : c \in csvCalls}
       /\ UNCHANGED <<sessions, added, applied, csvSends, crossed, excused>>
-----------------------------------------------------------------------------
(* A request: arg is the key or the row and the choice; rows what the server *)
(* has read and shown what the page showed when it was sent.                 *)
CsvCall(op, arg) ==
  [op |-> op, session |-> wizard.session, arg |-> arg, rows |-> NoRows, shown |-> wizard.rows,
   step |-> "sent", live |-> TRUE]
Disturbs(c) == c.op # "commit" \/ c.session # wizard.session \/ ~c.live
SendCsv(op, arg) ==
  /\ wizard.on /\ Cardinality(csvCalls) < MaxCsvCalls /\ csvSends < MaxCsvSends
  /\ csvCalls' = csvCalls \cup {CsvCall(op, arg)}
  /\ csvSends' = csvSends + 1
  /\ wizard' = [wizard EXCEPT !.busy = TRUE]
  /\ crossed' = IF csvCalls = {} THEN crossed
                ELSE crossed \cup {wizard.session} \cup {c.session : c \in csvCalls}
  /\ excused' = IF op = "commit" /\ \E c \in csvCalls : Disturbs(c)
                THEN excused \cup {wizard.session} ELSE excused
  /\ UNCHANGED <<shellVars, sessions, added, applied>>

(* The file input and the choices are never disabled; busy disables the two  *)
(* main buttons, and whichever request ends first clears it.                 *)
onFile == wizard.step = "upload" /\ SendCsv("upload", <<"file">>)
submitMapping == wizard.step = "map" /\ ~wizard.busy /\ SendCsv("mapping", <<wizard.key>>)
resolveRow(row, choice) ==
  /\ wizard.step = "preview" /\ row \in Ambiguous(wizard.rows)
  /\ SendCsv("resolve", <<row, choice>>)
(* Mutant: the button is not disabled while the import runs.                 *)
commitWhileBusy ==
  wizard.step = "preview" /\ Ambiguous(wizard.rows) = {} /\ SendCsv("commit", <<>>)
commit ==
  /\ wizard.step = "preview" /\ ~wizard.busy /\ Ambiguous(wizard.rows) = {}
  /\ SendCsv("commit", <<>>)

Adjusted(w) == wizard' = w /\ UNCHANGED <<shellVars, sessions, added, applied, csvCalls, csvSends, crossed, excused>>
ChangeKey == wizard.step = "map" /\ \E key \in {"name", "email"} \ {wizard.key} : Adjusted([wizard EXCEPT !.key = key])
EditMapping == wizard.step = "preview" /\ Adjusted([wizard EXCEPT !.step = "map"])
handleCancel == wizard.on /\ navigate(Path("benevoles", 0)) /\ CsvFollows
-----------------------------------------------------------------------------
CsvStep(c, d) == csvCalls' = (csvCalls \ {c}) \cup {d} /\ UNCHANGED <<shellVars, wizard, csvSends, crossed>>

ServeUpload(c) ==
  /\ c.op = "upload" /\ c.step = "sent"
  /\ \E s \in Sessions :
       /\ sessions[s].state = "free" /\ \A t \in Sessions : t < s => sessions[t].state # "free"
       /\ sessions' = [sessions EXCEPT ![s] = Session("open", NoRows)]
       /\ CsvStep(c, [c EXCEPT !.session = s, !.step = "ok"])
  /\ UNCHANGED <<added, applied, excused>>

(* Get, then what the handler makes of the classes it has read; a session    *)
(* that is gone, a row that is not there, a session without classes or with  *)
(* ambiguous ones are refused.                                               *)
GetSession(c) ==
  /\ c.op \in {"mapping", "resolve", "commit"} /\ c.step = "sent"
  /\ LET rows == IF IsOpen(c.session) THEN sessions[c.session].rows ELSE NoRows
         accepted == /\ IsOpen(c.session)
                     /\ c.op = "resolve" => c.arg[1] \in DOMAIN rows
                     /\ c.op = "commit" => rows # NoRows /\ Ambiguous(rows) = {}
     IN CsvStep(c, [c EXCEPT !.step = IF accepted THEN "read" ELSE "error", !.rows = rows])
  /\ UNCHANGED <<sessions, added, applied, excused>>
UpdateSession(c) ==
  /\ c.op \in {"mapping", "resolve"} /\ c.step = "read"
  /\ LET rows == IF c.op = "mapping" THEN Classify(c.arg[1])
                 ELSE [c.rows EXCEPT ![c.arg[1]] = c.arg[2]] IN
     IF IsOpen(c.session)
     THEN /\ sessions' = [sessions EXCEPT ![c.session].rows = rows]
          /\ CsvStep(c, [c EXCEPT !.step = "ok", !.rows = rows])
     ELSE UNCHANGED sessions /\ CsvStep(c, [c EXCEPT !.step = "error"])
  /\ UNCHANGED <<added, applied, excused>>

(* The import itself is one transaction, which may fail as a whole; the      *)
(* session is deleted after it, and an error of that is ignored.             *)
CommitRows(c) ==
  /\ c.op = "commit" /\ c.step = "read"
  /\ \/ /\ added' = [r \in FileRows |-> added[r] + IF c.rows[r] = "new" THEN 1 ELSE 0]
        /\ applied' = [applied EXCEPT ![c.session] = @ + 1]
        /\ CsvStep(c, [c EXCEPT !.step = "applied"])
     \/ UNCHANGED <<added, applied>> /\ CsvStep(c, [c EXCEPT !.step = "error"])
  /\ UNCHANGED <<sessions, excused>>
DeleteSession(c) ==
  /\ c.step = "applied"
  /\ \/ sessions' = [sessions EXCEPT ![c.session] = Session("gone", NoRows)] /\ UNCHANGED excused
     \/ excused' = excused \cup {c.session} /\ UNCHANGED sessions
  /\ CsvStep(c, [c EXCEPT !.step = "ok"])
  /\ UNCHANGED <<added, applied>>
GC(s) ==
  /\ sessions[s].state = "open"
  /\ sessions' = [sessions EXCEPT ![s] = Session("gone", NoRows)]
  /\ UNCHANGED <<shellVars, added, applied, wizard, csvCalls, csvSends, crossed, excused>>
-----------------------------------------------------------------------------
(* The answer, if the wizard is still there.  A request that failed, or that *)
(* the browser has given up while the server goes on, shows its error.       *)
Shown(w, c) ==
  CASE c.op = "upload" -> [w EXCEPT !.session = c.session, !.step = "map"]
    [] c.op = "mapping" -> [w EXCEPT !.rows = c.rows, !.step = "preview"]
    [] c.op = "resolve" -> [w EXCEPT !.rows = c.rows]
    [] c.op = "commit" -> [w EXCEPT !.step = "done"]

(* Mutant: a mapping that fails leads to the preview all the same.           *)
EndedAnyway(c, ok) ==
  wizard' = IF ~c.live THEN wizard
            ELSE IF c.op = "mapping" THEN [wizard EXCEPT !.busy = FALSE, !.step = "preview",
                                                          !.rows = IF ok THEN c.rows ELSE @]
            ELSE [(IF ok THEN Shown(wizard, c) ELSE wizard) EXCEPT !.busy = FALSE]
Ended(c, ok) ==
  wizard' = IF ~c.live THEN wizard
            ELSE [(IF ok THEN Shown(wizard, c) ELSE wizard) EXCEPT !.busy = FALSE]

ReceiveCsv(c) ==
  /\ c.step \in {"ok", "error"}
  /\ Ended(c, c.step = "ok")
  /\ csvCalls' = csvCalls \ {c}
  /\ UNCHANGED <<shellVars, sessions, added, applied, csvSends, crossed, excused>>
GiveUpCsv(c) ==
  /\ c.live
  /\ Ended(c, FALSE)
  /\ csvCalls' = IF c.step \in {"ok", "error"} THEN csvCalls \ {c}
                 ELSE (csvCalls \ {c}) \cup {[c EXCEPT !.live = FALSE]}
  /\ UNCHANGED <<shellVars, sessions, added, applied, csvSends, crossed, excused>>
-----------------------------------------------------------------------------
CsvInit ==
  /\ sessions = [s \in Sessions |-> Session("free", NoRows)]
  /\ added = [r \in FileRows |-> 0] /\ applied = [s \in Sessions |-> 0]
  /\ wizard = NoWizard /\ csvCalls = {} /\ csvSends = 0 /\ crossed = {} /\ excused = {}

CsvNext ==
  \/ onFile \/ submitMapping \/ commit \/ ChangeKey \/ EditMapping \/ handleCancel
  \/ \E row \in FileRows, choice \in {"new", "update", "skip"} : resolveRow(row, choice)
  \/ \E c \in csvCalls :
       \/ ServeUpload(c) \/ GetSession(c) \/ UpdateSession(c) \/ CommitRows(c) \/ DeleteSession(c)
       \/ ReceiveCsv(c) \/ GiveUpCsv(c)
  \/ \E s \in Sessions : GC(s)
-----------------------------------------------------------------------------
IsRows(rows) == rows = NoRows \/ rows \in [FileRows -> Classes]
CsvTypeOK ==
  /\ \A s \in Sessions : sessions[s].state \in {"free", "open", "gone"} /\ IsRows(sessions[s].rows)
  /\ added \in [FileRows -> 0..MaxCsvSends] /\ applied \in [Sessions -> 0..MaxCsvSends]
  /\ wizard.step \in {"upload", "map", "preview", "done"} /\ IsRows(wizard.rows)
  /\ \A c \in csvCalls : IsRows(c.rows) /\ c.session \in Sessions \cup {0}

(* A session is imported once: the button is disabled while its import runs, *)
(* and the session is gone after it.  What can break it: another request of  *)
(* the wizard that was on its way when the import was confirmed and whose    *)
(* answer clears busy; an import given up by the browser while the server    *)
(* goes on; a session whose deletion failed (CsvImportWizard's               *)
(* setBusy(false), csv.Handler.commit).                                      *)
ImportedOnce == \A s \in Sessions : applied[s] > 1 => s \in excused

(* What is imported is what the preview showed when "Confirmer et importer"  *)
(* was clicked, unless requests of the session overlapped, whose answers may *)
(* come in another order than the server wrote.                              *)
CommitAsShown ==
  \A c \in csvCalls :
    (c.op = "commit" /\ c.step \in {"read", "applied", "ok"} /\ c.session \notin crossed) =>
      c.rows = c.shown
=============================================================================
