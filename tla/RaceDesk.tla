------------------------------ MODULE RaceDesk ------------------------------
(***************************************************************************)
(* Race timing as a whole, in three kinds of behaviours: requests that     *)
(* overlap on the server (timing), one page beside other browsers, where   *)
(* the trials are put in order, their forms filled in, their tracks and    *)
(* chips or the list worked on (order, forms, tracks, list), and the tags  *)
(* of missions while races are deleted (tags).                             *)
(***************************************************************************)
EXTENDS RaceTiming, RacePages, RaceTags

CONSTANT Databases0   \* for each kind of behaviour, the tables at its start

Subjects == {"timing", "order", "forms", "tracks", "list", "tags"}
(* A page shows a race that exists, its trials numbered as pages number them.*)
ASSUME DatabasesAssumption ==
  \A kind \in DOMAIN Databases0 :
    /\ kind \in Subjects
    /\ \A d \in Databases0[kind] :
         /\ d \in Databases /\ Consistent(d)
         /\ kind # "timing" => d.race /\ \A t \in Live(d) : d.trials[t].seq < Temporary

VARIABLE subject

vars == <<timingVars, pageVars, tagVars, subject>>
-----------------------------------------------------------------------------
Init ==
  /\ subject \in DOMAIN Databases0
  /\ db \in Databases0[subject]
  /\ TimingInit /\ PageInit /\ TagsInit
  /\ subject # "tags" => \A m \in Missions : tags[m] = {}

Timing == subject = "timing" /\ TimingNext
          /\ UNCHANGED <<shownTrials, shownList, card, calls, sent, elsewhere>>
Page == /\ \/ Traffic
           \/ subject = "order" /\ OrderNext
           \/ subject = "forms" /\ FormNext
           \/ subject = "tracks" /\ TrackNext
           \/ subject = "list" /\ ListNext
        /\ spoiled' = TRUE /\ UNCHANGED <<reading, waiting, served, current>>
Tags == subject = "tags" /\ TagsNext /\ UNCHANGED <<timingVars, pageVars>>

Next == /\ \/ Timing /\ UNCHANGED tagVars
           \/ Page /\ UNCHANGED tagVars
           \/ Tags
        /\ UNCHANGED subject

Spec == Init /\ [][Next]_vars
-----------------------------------------------------------------------------
TypeOK == TimingTypeOK /\ PageTypeOK /\ TagsTypeOK
=============================================================================
