------------------------------ MODULE RaceTags ------------------------------
(***************************************************************************)
(* Missions carry the ids of races in a JSON list, no foreign key.  After a *)
(* race is deleted ScrubRaceTag takes its id out of every list: it reads   *)
(* all missions, then writes back the lists it read, one mission at a      *)
(* time, while missions are patched by others.                             *)
(***************************************************************************)
EXTENDS Naturals

CONSTANTS
  Missions, Races,
  MaxTaggings    \* bound: PATCHes of tagged_race_ids

VARIABLES
  races,         \* the races that exist
  tags,          \* missions.tagged_race_ids
  scrub,         \* the race of a scrub under way, none otherwise
  pending,       \* the updates it has read and not yet written
  kept,          \* the lists of those updates
  taggings,
  wanted,        \* history: the tags users gave, the races deleted since left out
  crossed        \* history: missions patched between the scrub's read and its write

tagVars == <<races, tags, scrub, pending, kept, taggings, wanted, crossed>>

CONSTANT NoRace
ASSUME RaceTagsAssumption == NoRace \notin Races /\ MaxTaggings \in Nat
-----------------------------------------------------------------------------
TagsInit ==
  /\ races = Races
  /\ tags \in [Missions -> SUBSET Races]
  /\ scrub = NoRace /\ pending = {} /\ kept = [m \in Missions |-> {}]
  /\ taggings = 0 /\ wanted = tags /\ crossed = {}

(* PATCH of a mission with its tags: nothing checks that the races exist, a  *)
(* form opened before the deletion sends the old id again.                   *)
Tag(m, set) ==
  /\ taggings < MaxTaggings
  /\ tags' = [tags EXCEPT ![m] = set]
  /\ wanted' = [wanted EXCEPT ![m] = set]
  /\ crossed' = IF m \in pending THEN crossed \cup {m} ELSE crossed \ {m}
  /\ taggings' = taggings + 1
  /\ UNCHANGED <<races, scrub, pending, kept>>

(* DELETE of a race, and the scrub reads.  One scrub at a time.              *)
(* Mutant: what is written back is an empty list.                            *)
DeleteKeepingNothing(r) ==
  /\ r \in races /\ scrub = NoRace
  /\ races' = races \ {r} /\ scrub' = r
  /\ pending' = {m \in Missions : r \in tags[m]}
  /\ kept' = [m \in Missions |-> {}]
  /\ wanted' = [m \in Missions |-> wanted[m] \ {r}]
  /\ UNCHANGED <<tags, taggings, crossed>>
DeleteAndScrub(r) ==
  /\ r \in races /\ scrub = NoRace
  /\ races' = races \ {r} /\ scrub' = r
  /\ pending' = {m \in Missions : r \in tags[m]}
  /\ kept' = [m \in Missions |-> tags[m] \ {r}]
  /\ wanted' = [m \in Missions |-> wanted[m] \ {r}]
  /\ UNCHANGED <<tags, taggings, crossed>>

WriteBack(m) ==
  /\ m \in pending
  /\ tags' = [tags EXCEPT ![m] = kept[m]]
  /\ pending' = pending \ {m}
  /\ UNCHANGED <<races, scrub, kept, taggings, wanted, crossed>>

(* The request ends when all is written; an error ends it before, and is     *)
(* only logged: "orphan IDs are non-fatal".                                  *)
EndScrub ==
  /\ scrub # NoRace
  /\ scrub' = NoRace /\ pending' = {} /\ kept' = [m \in Missions |-> {}]
  /\ UNCHANGED <<races, tags, taggings, wanted, crossed>>

TagsNext ==
  \/ \E m \in Missions, set \in SUBSET Races : Tag(m, set)
  \/ \E r \in Races : DeleteAndScrub(r)
  \/ \E m \in Missions : WriteBack(m)
  \/ EndScrub

TagsSpec == TagsInit /\ [][TagsNext]_tagVars
-----------------------------------------------------------------------------
TagsTypeOK ==
  /\ races \subseteq Races /\ tags \in [Missions -> SUBSET Races]
  /\ scrub \in Races \cup {NoRace} /\ pending \subseteq Missions
  /\ kept \in [Missions -> SUBSET Races] /\ taggings \in Nat
  /\ wanted \in [Missions -> SUBSET Races] /\ crossed \subseteq Missions

(* No scrub, finished, failed or under way, costs a mission a tag of a race  *)
(* that exists, or gives it one back: only a mission patched between the     *)
(* scrub's read and its write can lose that patch.                           *)
LiveTagsSurvive ==
  \A m \in Missions \ crossed : tags[m] \cap races = wanted[m] \cap races
=============================================================================
