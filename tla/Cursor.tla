------------------------------- MODULE Cursor -------------------------------
(***************************************************************************)
(* The time cursor of the timeline page: the stores useTimelineCursor and   *)
(* useTimelineWindow, which outlive the page, and the effects and handlers  *)
(* of TimelineControls and TimelineView, which run while it is mounted.     *)
(* React runs an effect after the render in which one of its dependencies   *)
(* changed: due holds the effects that have yet to run.                     *)
(***************************************************************************)
EXTENDS Integers

CONSTANTS
  Day,        \* DAY_MS
  Step,       \* what an arrow key moves the cursor by
  Horizon,    \* no frame plays past this time (bound of the model)
  Ranges,     \* the time ranges the fetched data can span
  NoSeek      \* null: no effect has moved the cursor yet

ASSUME CursorAssumption ==
  /\ Day \in Nat \ {0} /\ Step \in Nat \ {0} /\ Horizon \in Nat
  /\ Ranges \subseteq [from : Nat, to : Nat]
  /\ \A r \in Ranges : r.from <= r.to
  /\ NoSeek \notin Int

VARIABLES
  data,       \* dataStartMs and dataEndMs
  window,     \* 0 for the whole range, i for its i-th day
  cursor, playing,
  auto,       \* lastAutoSeekRef: where an effect last put the cursor
  due,        \* the effects to run: "start", "window"
  mounted,
  drifted     \* history: playing has moved the cursor since it was last placed

controls == <<data, window, cursor, playing, auto, due, mounted, drifted>>

TotalDays == IF (data.to - data.from) \div Day + 1 >= 1
             THEN (data.to - data.from) \div Day + 1 ELSE 1
Bounds == IF window = 0 THEN data
          ELSE [from |-> data.from + (window - 1) * Day,
                to |-> data.from + window * Day - 1]
Within(t) == Bounds.from <= t /\ t <= Bounds.to

(* What a render with a new cursor, window or range schedules.              *)
Schedule ==
  due' = due
    \cup (IF cursor' # cursor \/ Bounds'.from # Bounds.from THEN {"start"} ELSE {})
    \cup (IF data' # data THEN {"window"} ELSE {})

CursorInit ==
  /\ data \in Ranges /\ window = 0 /\ cursor = 0 /\ playing = FALSE
  /\ auto = NoSeek /\ due = {} /\ mounted = FALSE /\ drifted = FALSE

(* The page comes and goes; its refs go with it, the stores stay.           *)
Mount ==
  /\ ~mounted /\ mounted' = TRUE
  /\ auto' = NoSeek /\ due' = {"start", "window"}
  /\ UNCHANGED <<data, window, cursor, playing, drifted>>
Unmount ==
  /\ mounted /\ mounted' = FALSE
  /\ auto' = NoSeek /\ due' = {}
  /\ UNCHANGED <<data, window, cursor, playing, drifted>>

(* Both effects see the cursor of the render they follow.                   *)
StartSeeks == /\ "start" \in due /\ Bounds.from > 0
              /\ (cursor \in {0, auto} \/ cursor < Bounds.from)
              /\ cursor # Bounds.from
WindowSeeks == "window" \in due /\ data.from > 0 /\ ~Within(cursor)
(* Mutant: the window effect looks at the range of the data, not the window. *)
CommitIgnoringWindow ==
  /\ mounted /\ due # {}
  /\ IF StartSeeks \/ (WindowSeeks /\ (cursor < data.from \/ cursor > data.to))
     THEN cursor' = Bounds.from /\ auto' = Bounds.from /\ drifted' = FALSE
     ELSE UNCHANGED <<cursor, auto, drifted>>
  /\ due' = IF cursor' # cursor THEN {"start"} ELSE {}
  /\ UNCHANGED <<data, window, playing, mounted>>
Commit ==
  /\ mounted /\ due # {}
  /\ IF StartSeeks \/ WindowSeeks
     THEN cursor' = Bounds.from /\ auto' = Bounds.from /\ drifted' = FALSE
     ELSE UNCHANGED <<cursor, auto, drifted>>
  /\ due' = IF cursor' # cursor THEN {"start"} ELSE {}
  /\ UNCHANGED <<data, window, playing, mounted>>

(* One frame of the animation loop.                                         *)
Tick ==
  /\ mounted /\ playing /\ cursor < Horizon
  /\ cursor' = cursor + 1
  /\ drifted' = TRUE
  /\ UNCHANGED <<data, window, playing, auto, mounted>>
  /\ Schedule
Toggle ==
  /\ mounted /\ playing' = ~playing
  /\ UNCHANGED <<data, window, cursor, auto, due, mounted, drifted>>

(* The arrow keys step within the window; a drag or a click on the canvas   *)
(* takes the cursor to a time on its axis.                                  *)
(* Mutant: the arrow key does not stop at the start of the window.          *)
ArrowLeftPastStart ==
  /\ mounted
  /\ cursor' = cursor - Step
  /\ UNCHANGED <<data, window, playing, auto, mounted, drifted>>
  /\ Schedule
ArrowLeft ==
  /\ mounted
  /\ cursor' = IF cursor - Step >= Bounds.from THEN cursor - Step ELSE Bounds.from
  /\ UNCHANGED <<data, window, playing, auto, mounted, drifted>>
  /\ Schedule
(* Mutant: the arrow key does not stop at the end of the window.            *)
ArrowRightPastEnd ==
  /\ mounted
  /\ cursor + Step <= Horizon
  /\ cursor' = cursor + Step
  /\ drifted' = FALSE
  /\ UNCHANGED <<data, window, playing, auto, mounted>>
  /\ Schedule
ArrowRight ==
  /\ mounted
  /\ cursor' = IF cursor + Step <= Bounds.to THEN cursor + Step ELSE Bounds.to
  /\ drifted' = FALSE
  /\ UNCHANGED <<data, window, playing, auto, mounted>>
  /\ Schedule
Seek(t) ==
  /\ mounted /\ Within(t)
  /\ cursor' = t /\ drifted' = FALSE
  /\ UNCHANGED <<data, window, playing, auto, mounted>>
  /\ Schedule

(* Mutant: the effects do not depend on the window.                         *)
SetWindowQuietly(w) ==
  /\ mounted /\ window' = w
  /\ UNCHANGED <<data, cursor, playing, auto, due, mounted, drifted>>
SetWindow(w) ==
  /\ mounted /\ w \in 0 .. TotalDays
  /\ window' = w
  /\ UNCHANGED <<data, cursor, playing, auto, mounted, drifted>>
  /\ due' = due \cup {"window"}
      \cup (IF Bounds'.from # Bounds.from THEN {"start"} ELSE {})

(* A fetch changes the range; the chosen window is kept.                    *)
NewData(d) ==
  /\ data' = d
  /\ UNCHANGED <<window, cursor, playing, auto, mounted, drifted>>
  /\ IF mounted THEN Schedule ELSE due' = due

UserStep ==
  \/ Mount \/ Unmount \/ Toggle \/ ArrowLeft \/ ArrowRight
  \/ \E w \in 0 .. TotalDays : SetWindow(w)
  \/ \E t \in Bounds.from .. Bounds.to : Seek(t)
CursorNext == UserStep \/ Commit \/ Tick \/ \E d \in Ranges : NewData(d)

(* React always runs the effects of a render.                               *)
CursorSpec == CursorInit /\ [][CursorNext]_controls /\ WF_controls(Commit)
================================================================================
