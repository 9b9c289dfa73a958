------------------------------- MODULE Shell -------------------------------
(***************************************************************************)
(* The frame of the browser application: a router on the hash of the URL   *)
(* (lib/router.ts), the classification of a path into a screen             *)
(* (components/shell/routes.ts, App.tsx) and the map tool kept in          *)
(* localStorage.  A path is a page and a number: the id of a detail page,  *)
(* 0 where there is none; an id below 0 stands for one that is no number.  *)
(***************************************************************************)
EXTENDS Integers, Sequences, FiniteSets

CONSTANTS
  Paths,                \* the paths a session visits
  StorageModes          \* whether localStorage may be used: {TRUE}, or BOOLEAN

ASSUME ShellAssumption == StorageModes \subseteq BOOLEAN

VARIABLES
  hash,                 \* window.location.hash
  screen,               \* what AppRouter renders for it
  lastTool,             \* "vm:last-tool" of localStorage, "" when never set
  storageWorks          \* FALSE under privacy mode: reads and writes throw

shellVars == <<hash, screen, lastTool, storageWorks>>
-----------------------------------------------------------------------------
Path(page, n) == [page |-> page, id |-> n]
Tools == {"vs", "trajets", "chronologie", "courses"}
HeaderPages == {"issues", "affectations", "benevoles", "import", "vehicules",
                "roadbooks", "parametres", "parametres?tab=roadbook", "parametres?tab=donnees"}

Home == Path("", 0)
NoTool == ""
Header(page, n) == [kind |-> "header", tool |-> page, sub |-> "none", id |-> n]
Map(tool, sub, n) == [kind |-> "map", tool |-> tool, sub |-> sub, id |-> n]

recallTool(saved, works) == IF works /\ saved \in Tools THEN saved ELSE "courses"

(* A details page needs an id above 0; "/" and every path that nothing else  *)
(* matches show the map with the tool used last.                             *)
classify(path, recalled) ==
  CASE path.page \in HeaderPages -> Header(path.page, path.id)
    [] path.page = "trajets/new" -> Map("trajets", "new", 0)
    [] path.page = "chronologie" -> Map("chronologie", "none", 0)
    [] path.page \in {"vs", "trajets", "courses"} /\ path.id = 0 -> Map(path.page, "list", 0)
    [] path.page \in {"vs", "trajets", "courses"} /\ path.id > 0 -> Map(path.page, "detail", path.id)
    [] OTHER -> Map(recalled, "none", 0)

(* MapWorkspace remembers its tool once it is on the screen.                 *)
rememberTool(to, saved, works) == IF works /\ to.kind = "map" THEN to.tool ELSE saved

(* navigate() sets the hash; the same hash again raises no event, and the    *)
(* application stays as it is.                                               *)
navigate(path) ==
  /\ hash' = path
  /\ screen' = IF path = hash THEN screen ELSE classify(path, recallTool(lastTool, storageWorks))
  /\ lastTool' = rememberTool(screen', lastTool, storageWorks)
  /\ UNCHANGED storageWorks

On(tool) == screen.kind = "map" /\ screen.tool = tool

ShellInit ==
  /\ hash = Home
  /\ screen = Map("courses", "none", 0)
  /\ storageWorks \in StorageModes
  /\ lastTool = IF storageWorks THEN "courses" ELSE NoTool

Screens == {classify(at[1], at[2]) : at \in (Paths \cup {Home}) \X Tools}
ShellTypeOK ==
  /\ hash \in Paths \cup {Home}
  /\ screen \in Screens
  /\ lastTool \in Tools \cup {NoTool}
  /\ storageWorks \in BOOLEAN
=============================================================================
