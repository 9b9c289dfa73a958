---------------------------- MODULE StationPanel ----------------------------
(***************************************************************************)
(* The sidebar of the "vs" map tool: the stack of frames that              *)
(* VSSidebarController keeps in step with the URL, the form of a station   *)
(* (VSForm) and its requests.  One VSForm serves every details page and    *)
(* every draft it is rendered for without a list, a missions frame or a    *)
(* "Chargement" in between: only its text follows the station.             *)
(***************************************************************************)
EXTENDS Shell

CONSTANTS
  Stations,             \* ids the server may give, 1..n
  Names,
  Staffed,              \* stations that have missions
  MaxFrames, MaxStationCalls, MaxRenames

(* 0 is no station: the id of a draft.                                       *)
ASSUME StationAssumption == Stations \subseteq Nat \ {0} /\ MaxFrames \in Nat

VARIABLES
  stations,             \* name of each station on the server, NoName when there is none
  listed,               \* the same as the page last read it (useVSList)
  stack,                \* frames of the sidebar
  form,                 \* the VSForm on the screen
  stationCalls,         \* its requests
  renames               \* renames by a colleague so far

stationVars == <<stations, listed, stack, form, stationCalls, renames>>
-----------------------------------------------------------------------------
NoName == ""
Frame(kind, n) == [kind |-> kind, id |-> n]
ListFrame == Frame("list", 0)
TopOf(frames) == IF frames = <<>> THEN ListFrame ELSE frames[Len(frames)]

(* The URL effect: a details page or the list, whatever was pushed.          *)
BaseFrame(to) == IF to.sub = "detail" THEN Frame("detail", to.id) ELSE ListFrame
StackKey(of) == <<of.kind, of.tool, of.sub, of.id>>

(* form: typed tells that the name was typed since it was taken from the     *)
(* station, file is the station whose photo was chosen (0 a draft's, -1      *)
(* none), dependents the one whose missions the cascade dialog counts (0     *)
(* closed), reused tells that the form has shown another station before.     *)
NoForm == [kind |-> "none", id |-> 0, name |-> NoName, typed |-> FALSE, file |-> -1,
           dependents |-> 0, reused |-> FALSE]
makeDraft(frame, list) ==
  IF frame.kind = "draft" THEN [NoForm EXCEPT !.kind = "draft"]
  ELSE IF frame.kind = "detail" /\ list[frame.id] # NoName
  THEN [NoForm EXCEPT !.kind = "detail", !.id = frame.id, !.name = list[frame.id]]
  ELSE NoForm

(* Mutant: the effect on [draft] is gone, the state of the form, its id and  *)
(* its text, is still that of the station it was first shown for.            *)
RenderedWithoutSync(from, to, list) ==
  LET fresh == makeDraft(to, list) IN
  IF fresh.kind = "none" \/ fresh.kind # form.kind THEN fresh
  ELSE [form EXCEPT !.reused = @ \/ to # from]

(* The form after a render.  A details frame hands over a new draft object   *)
(* each time, so its effect on [draft] runs and what was typed is gone; a    *)
(* draft frame keeps its object for as long as it is on top.                 *)
Rendered(from, to, list) ==
  LET fresh == makeDraft(to, list)
      sameDraft == to.kind = "draft" /\ to = from IN
  IF fresh.kind = "none" \/ fresh.kind # form.kind THEN fresh
  ELSE IF sameDraft THEN form
  ELSE [fresh EXCEPT !.file = form.file, !.dependents = form.dependents,
                     !.reused = form.reused \/ to # from]

(* Mutant: the state of the form is kept by the panel, an old answer sets it.*)
OrphanedNever(calls) == calls
(* Answers to a form that has left the screen still navigate, but set no     *)
(* state.                                                                    *)
Orphaned(calls) ==
  IF form'.kind = form.kind THEN calls ELSE {[c EXCEPT !.live = FALSE] : c \in calls}

Render == form' = Rendered(TopOf(stack), TopOf(stack'), listed')

(* The stack and the form once the screen has changed.                       *)
Reroute ==
  /\ stack' = IF ~(screen'.kind = "map" /\ screen'.tool = "vs") THEN <<>>
              ELSE IF On("vs") /\ StackKey(screen') = StackKey(screen) THEN stack
              ELSE <<BaseFrame(screen')>>
  /\ Render

StationsFollow ==
  IF screen' = screen THEN UNCHANGED stationVars
  ELSE /\ UNCHANGED <<stations, listed, renames>>
       /\ Reroute
       /\ stationCalls' = Orphaned(stationCalls)
-----------------------------------------------------------------------------
Push(frame) ==
  /\ UNCHANGED <<shellVars, stations, listed, renames>>
  /\ stack' = Append(stack, frame)
  /\ Render
  /\ stationCalls' = Orphaned(stationCalls)

(* The cascade dialog covers the page.                                       *)
Reachable == On("vs") /\ form.dependents = 0

(* A click on the empty map, with the "vs" tool.                             *)
ClickEmpty == Reachable /\ Len(stack) < MaxFrames /\ Push(Frame("draft", Len(stack) + 1))

OpenMissions ==
  /\ Reachable /\ form.kind = "detail" /\ Len(stack) < MaxFrames
  /\ Push(Frame("missions", TopOf(stack).id))

(* "Retour": a details frame goes to the list by the URL, the others pop.    *)
Pop ==
  /\ Reachable /\ TopOf(stack).kind \in {"missions", "draft"}
  /\ UNCHANGED <<shellVars, stations, listed, renames>>
  /\ stack' = SubSeq(stack, 1, Len(stack) - 1)
  /\ Render
  /\ stationCalls' = Orphaned(stationCalls)
BackToList ==
  /\ Reachable /\ TopOf(stack).kind \in {"detail", "draft"}       \* Annuler of a draft
  /\ navigate(Path("vs", 0))
  /\ StationsFollow

(* The page is rendered again for a reason of its own: a layer is toggled,   *)
(* the event is read anew.                                                   *)
RenderAgain ==
  /\ On("vs")
  /\ UNCHANGED <<shellVars, stations, listed, stack, stationCalls, renames>>
  /\ Render

Type(name) ==
  /\ form.kind # "none"
  /\ form' = [form EXCEPT !.name = name, !.typed = TRUE]
  /\ UNCHANGED <<shellVars, stations, listed, stack, stationCalls, renames>>
ChooseFile ==
  /\ form.kind # "none"
  /\ form' = [form EXCEPT !.file = form.id]
  /\ UNCHANGED <<shellVars, stations, listed, stack, stationCalls, renames>>
-----------------------------------------------------------------------------
(* Requests: of is the station the photo or the consent is about.            *)
Call(op, n, name, of) ==
  [op |-> op, id |-> n, name |-> name, of |-> of, file |-> form.file, reused |-> form.reused,
   live |-> TRUE, answer |-> "none"]
Pending(ops) == \E c \in stationCalls : c.live /\ c.op \in ops

(* "Enregistrer": disabled while a create or a patch of this form is out,    *)
(* not while its photo is.  A patch shows its name at once (onMutate).       *)
onSubmit ==
  /\ form.kind # "none" /\ form.name # NoName /\ form.dependents = 0
  /\ ~Pending({"create", "patch"})
  /\ Cardinality(stationCalls) < MaxStationCalls
  /\ LET op == IF form.kind = "draft" THEN "create" ELSE "patch" IN
     /\ stationCalls' = stationCalls \cup {Call(op, form.id, form.name, form.id)}
     /\ listed' = IF op = "patch" /\ listed[form.id] # NoName
                  THEN [listed EXCEPT ![form.id] = form.name] ELSE listed
  /\ stack' = stack
  /\ IF listed' # listed THEN Render ELSE UNCHANGED form
  /\ UNCHANGED <<shellVars, stations, renames>>

(* "Supprimer", and "Tout supprimer" in the dialog.                          *)
attemptDelete(force) ==
  /\ form.kind = "detail" /\ force = (form.dependents # 0)
  /\ Cardinality(stationCalls) < MaxStationCalls
  /\ stationCalls' = stationCalls \cup
       {Call(IF force THEN "force" ELSE "delete", form.id, NoName,
             IF force THEN form.dependents ELSE form.id)}
  /\ UNCHANGED <<shellVars, stations, listed, stack, form, renames>>
CloseDialog ==
  /\ form.dependents # 0
  /\ form' = [form EXCEPT !.dependents = 0]
  /\ UNCHANGED <<shellVars, stations, listed, stack, stationCalls, renames>>

(* The server: names are unique, a station with missions is deleted by force *)
(* only.  A photo may be refused, any answer may be lost.                    *)
Answered(c, answer, id) ==
  stationCalls' = (stationCalls \ {c}) \cup {[c EXCEPT !.answer = answer, !.id = id]}
Taken(name, id) == \E s \in Stations \ {id} : stations[s] = name

Serve(c) ==
  /\ c.answer = "none"
  /\ \/ /\ c.op = "create" /\ ~Taken(c.name, 0)
        /\ \E s \in Stations :
             /\ stations[s] = NoName /\ \A t \in Stations : t < s => stations[t] # NoName
             /\ stations' = [stations EXCEPT ![s] = c.name]
             /\ Answered(c, "ok", s)
     \/ /\ c.op = "patch" /\ stations[c.id] # NoName /\ ~Taken(c.name, c.id)
        /\ stations' = [stations EXCEPT ![c.id] = c.name]
        /\ Answered(c, "ok", c.id)
     \/ /\ c.op = "photo" /\ stations[c.id] # NoName
        /\ Answered(c, "ok", c.id) /\ UNCHANGED stations
     \/ /\ c.op = "delete" /\ stations[c.id] # NoName /\ c.id \in Staffed
        /\ Answered(c, "dependents", c.id) /\ UNCHANGED stations
     \/ /\ c.op \in {"delete", "force"} /\ stations[c.id] # NoName
        /\ c.op = "delete" => c.id \notin Staffed
        /\ stations' = [stations EXCEPT ![c.id] = NoName]
        /\ Answered(c, "ok", c.id)
     \/ Answered(c, "error", c.id) /\ UNCHANGED stations   \* refused, or never arrived
  /\ UNCHANGED <<shellVars, listed, stack, form, renames>>
LoseAnswer(c) ==
  /\ c.answer = "ok" /\ Answered(c, "error", c.id)
  /\ UNCHANGED <<shellVars, stations, listed, stack, form, renames>>
-----------------------------------------------------------------------------
(* What follows an answer: the hook reads the list anew, then onSubmit sends *)
(* the photo or calls onSaved, attemptDelete calls onDeleted or opens the    *)
(* dialog.                                                                   *)
WantsPhoto(c) == c.op \in {"create", "patch"} /\ c.answer = "ok" /\ c.live /\ form.file # -1
PhotoOf(c) == [c EXCEPT !.op = "photo", !.answer = "none", !.name = c.op,
                        !.file = form.file, !.reused = form.reused,
                        !.of = IF form.file = 0 THEN c.id ELSE form.file]
Saved(c) == c.answer = "ok" /\ ~WantsPhoto(c) /\
            (c.op = "create" \/ (c.op = "photo" /\ c.name = "create"))
Deleted(c) == c.answer = "ok" /\ c.op \in {"delete", "force"}

AfterAnswer(c) ==
  /\ IF Saved(c) THEN navigate(Path("vs", c.id))
     ELSE IF Deleted(c) THEN navigate(Path("vs", 0))
     ELSE UNCHANGED shellVars
  /\ IF screen' # screen THEN Reroute
     ELSE /\ stack' = stack
          /\ IF c.answer = "dependents" /\ c.live THEN form' = [form EXCEPT !.dependents = c.id]
             ELSE IF Deleted(c) /\ c.live THEN form' = [Rendered(TopOf(stack), TopOf(stack), listed') EXCEPT !.dependents = 0]
             ELSE IF listed' # listed THEN Render
             ELSE UNCHANGED form
  /\ stationCalls' = Orphaned((stationCalls \ {c}) \cup (IF WantsPhoto(c) THEN {PhotoOf(c)} ELSE {}))

Receive(c) ==
  /\ c.answer # "none"
  /\ listed' = IF c.op = "patch" \/ c.answer = "ok" THEN stations ELSE listed
  /\ AfterAnswer(c)
  /\ UNCHANGED <<stations, renames>>

(* A colleague renames a station; a component that mounts reads the list     *)
(* again once it is old.                                                     *)
Rename(s, name) ==
  /\ renames < MaxRenames /\ stations[s] # NoName /\ ~Taken(name, s)
  /\ stations' = [stations EXCEPT ![s] = name]
  /\ renames' = renames + 1
  /\ UNCHANGED <<shellVars, listed, stack, form, stationCalls>>
Refetch ==
  /\ On("vs") /\ listed # stations
  /\ listed' = stations /\ stack' = stack
  /\ Render
  /\ stationCalls' = Orphaned(stationCalls)
  /\ UNCHANGED <<shellVars, stations, renames>>
-----------------------------------------------------------------------------
StationInit ==
  /\ stations \in [Stations -> Names \cup {NoName}]
  /\ \A s, t \in Stations : (stations[s] # NoName /\ s # t) => stations[s] # stations[t]
  /\ listed = stations
  /\ stack = <<>> /\ form = NoForm /\ stationCalls = {} /\ renames = 0

StationNext ==
  \/ ClickEmpty \/ OpenMissions \/ Pop \/ BackToList \/ RenderAgain
  \/ \E name \in Names : Type(name)
  \/ ChooseFile \/ onSubmit \/ CloseDialog
  \/ \E force \in BOOLEAN : attemptDelete(force)
  \/ \E c \in stationCalls : Serve(c) \/ LoseAnswer(c) \/ Receive(c)
  \/ \E s \in Stations, name \in Names : Rename(s, name)
  \/ Refetch
-----------------------------------------------------------------------------
StationTypeOK ==
  /\ stations \in [Stations -> Names \cup {NoName}]
  /\ listed \in [Stations -> Names \cup {NoName}]
  /\ \A i \in 1..Len(stack) : stack[i] \in
       [kind : {"list", "detail", "missions", "draft"}, id : Stations \cup 0..MaxFrames]
  /\ form \in [kind : {"none", "draft", "detail"}, id : Stations \cup {0},
               name : Names \cup {NoName}, typed : BOOLEAN, file : Stations \cup {-1, 0},
               dependents : Stations \cup {0}, reused : BOOLEAN]

(* Through jumps from station to station, drafts and missions pushed and     *)
(* popped, renders, renames and late answers: the form on the screen is that *)
(* of the station in the address, so "Enregistrer" and "Supprimer" go to it, *)
(* and a name that nobody has typed is the one the list has for it.  VSForm  *)
(* stays mounted from one station to the next and keeps both in one state,   *)
(* which only its effect on [draft] brings up to date.                       *)
FormFollowsTheAddress ==
  form.kind = "detail" =>
    /\ screen.sub = "detail" /\ form.id = screen.id
    /\ ~form.typed => form.name = listed[form.id]

(* A photo is sent to the station it was chosen for, and a station deleted   *)
(* with its missions after a dialog that counted its own, unless the form    *)
(* went from one station to another with the file or the dialog open.        *)
FreshFormsKeepTheirStation ==
  \A c \in stationCalls :
    (c.op \in {"photo", "force"} /\ c.of # c.id) => c.reused
=============================================================================
