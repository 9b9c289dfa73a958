--------------------------- MODULE ReadYourWrites ---------------------------
(***************************************************************************)
(* What a cached query promises the page that shows it.  The page has a view *)
(* of the writes; the view is settled when nothing says it may be out of     *)
(* date.  A settled view shows every write that was acknowledged, and it      *)
(* only changes by being unsettled first or together with an acknowledgement. *)
(***************************************************************************)
CONSTANTS Write, NoView

VARIABLES
  acknowledged,  \* the writes whose success the user has been told
  view,          \* the writes the page shows
  settled

promise == <<acknowledged, view, settled>>

Init == acknowledged = {} /\ view = NoView /\ settled = FALSE

Shown == view # NoView /\ acknowledged \subseteq view

Acknowledge == /\ \E w \in Write \ acknowledged : acknowledged' = acknowledged \cup {w}
               /\ settled' \in BOOLEAN
               /\ settled' => Shown'
Doubt == /\ settled' = FALSE
         /\ UNCHANGED acknowledged
Settle == /\ ~settled /\ settled' = TRUE /\ Shown'
          /\ UNCHANGED acknowledged

Next == Acknowledge \/ Doubt \/ Settle
Spec == Init /\ [][Next]_promise
=============================================================================
