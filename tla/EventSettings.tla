--------------------------- MODULE EventSettings ---------------------------
(***************************************************************************)
(* The one event row, its cached copy (useEvent) and the pages that write  *)
(* it: the wizard of the first start, and the three tabs of /parametres.   *)
(* Every page PUTs the whole row: its own fields from its form, the others *)
(* from the cached copy.  The settings column is a JSON object with a      *)
(* block per tab; a field here is a number, 0 for null or the default.     *)
(***************************************************************************)
EXTENDS Shell

CONSTANTS Values, StoredEvents, MaxEventCalls, MaxEventSaves

VARIABLES
  eventRow,             \* the row of table events
  eventSeen,            \* the cached copy
  page,                 \* the page on the screen and the state of its form
  eventCalls,           \* requests
  fetch,                \* the read of the row in flight
  eventSaves,           \* requests sent so far
  suspect               \* something is known to have left the cached copy behind

eventVars == <<eventRow, eventSeen, page, eventCalls, fetch, eventSaves, suspect>>
-----------------------------------------------------------------------------
NoEvent == [name |-> 0, coordinator |-> 0, roadbook |-> 0, backup |-> 0, logo |-> 0, region |-> 0]
NoPage == [tab |-> "none", name |-> 0, coordinator |-> 0, roadbook |-> 0, backup |-> 0, busy |-> FALSE]
Exists(row) == row.name # 0
Fetch(step, row) == [step |-> step, row |-> row]
NoFetch == Fetch("none", NoEvent)

readTab(to) ==
  CASE to.tool = "parametres" -> "evenement"
    [] to.tool = "parametres?tab=roadbook" -> "roadbook"
    [] to.tool = "parametres?tab=donnees" -> "donnees"
    [] OTHER -> "none"
TabOf(to, seen) == IF Exists(seen) THEN readTab(to) ELSE "wizard"

(* What each form takes from the cached copy: when it mounts, and when what  *)
(* its effects depend on has changed.  Every PUT dates the row, so an answer *)
(* set as the copy is new to EventSettingsPage even with equal fields.       *)
Fresh(tab, seen) ==
  CASE tab = "evenement" -> [NoPage EXCEPT !.tab = tab, !.name = seen.name, !.coordinator = seen.coordinator]
    [] tab = "roadbook" -> [NoPage EXCEPT !.tab = tab, !.coordinator = seen.coordinator, !.roadbook = seen.roadbook]
    [] tab = "donnees" -> [NoPage EXCEPT !.tab = tab, !.backup = seen.backup]
    [] OTHER -> [NoPage EXCEPT !.tab = tab]
Settings(row) == <<row.roadbook, row.backup, row.region>>
Reseeded(p, old, new, answered) ==
  CASE p.tab = "evenement" -> IF answered \/ old # new THEN Fresh(p.tab, new) ELSE p
    [] p.tab = "roadbook" ->
         [p EXCEPT !.roadbook = IF Settings(old) # Settings(new) THEN new.roadbook ELSE @,
                   !.coordinator = IF old.coordinator # new.coordinator THEN new.coordinator ELSE @]
    [] p.tab = "donnees" -> [p EXCEPT !.backup = IF old.backup # new.backup THEN new.backup ELSE @]
    [] OTHER -> p
PageAfter(to, seen, answered) ==
  IF TabOf(to, seen) = page.tab
  THEN [Reseeded(page, eventSeen, seen, answered) EXCEPT !.busy = page.busy]
  ELSE Fresh(TabOf(to, seen), seen)

EventFollows ==
  IF screen' = screen THEN UNCHANGED eventVars
  ELSE /\ UNCHANGED <<eventRow, eventSeen, fetch, eventSaves, suspect>>
       /\ page' = PageAfter(screen', eventSeen, FALSE)
       /\ eventCalls' = IF page'.tab = page.tab THEN eventCalls
                        ELSE {[c EXCEPT !.live = FALSE] : c \in eventCalls}

Enter(field, v) ==
  /\ page.tab # "none" /\ field \in
       (CASE page.tab = "evenement" -> {"name", "coordinator"}
          [] page.tab = "roadbook" -> {"roadbook", "coordinator"}
          [] page.tab = "donnees" -> {"backup"}
          [] OTHER -> {"name"})
  /\ page' = [page EXCEPT ![field] = v]
  /\ UNCHANGED <<shellVars, eventRow, eventSeen, eventCalls, fetch, eventSaves, suspect>>
-----------------------------------------------------------------------------
(* The fields a page owns, and the row it sends.  `name.trim() || event.name`*)
(* and `patch.coordinator_name ?? event.coordinator_name`: an empty field of *)
(* the first tab keeps its old value.                                        *)
Owned(tab) ==
  CASE tab = "evenement" -> {"name", "coordinator"}
    [] tab = "roadbook" -> {"roadbook", "coordinator"}
    [] tab = "donnees" -> {"backup"}
    [] OTHER -> {"name", "coordinator", "roadbook", "backup", "region"}
Typed(old, v) == IF v = 0 THEN old ELSE v

(* Mutant: writeBackup starts from an empty object.                          *)
BodyForgetting(tab) ==
  CASE tab = "evenement" -> [eventSeen EXCEPT !.name = Typed(@, page.name), !.coordinator = Typed(@, page.coordinator)]
    [] tab = "roadbook" -> [eventSeen EXCEPT !.roadbook = page.roadbook, !.coordinator = page.coordinator]
    [] tab = "donnees" -> [eventSeen EXCEPT !.backup = page.backup, !.roadbook = 0, !.region = 0]
    [] OTHER -> [NoEvent EXCEPT !.name = page.name, !.region = 1]
Body(tab) ==
  CASE tab = "evenement" -> [eventSeen EXCEPT !.name = Typed(@, page.name), !.coordinator = Typed(@, page.coordinator)]
    [] tab = "roadbook" -> [eventSeen EXCEPT !.roadbook = page.roadbook, !.coordinator = page.coordinator]
    [] tab = "donnees" -> [eventSeen EXCEPT !.backup = page.backup]
    [] OTHER -> [NoEvent EXCEPT !.name = page.name, !.region = 1]

(* A request; settled tells that nothing was known or on its way that could  *)
(* make the copy it is built from an old one, alone that no other has been   *)
(* sent since.  The save button is disabled while busy (isPending), the file *)
(* inputs of the logo and the sponsor are not, and the request that ends     *)
(* first clears busy.                                                        *)
EventCall(op, tab) ==
  [op |-> op, tab |-> tab, body |-> IF op = "put" THEN Body(tab) ELSE NoEvent, logo |-> 0, blind |-> FALSE, step |-> "sent", live |-> TRUE,
   settled |-> ~suspect /\ fetch = NoFetch /\ eventCalls = {}, alone |-> eventCalls = {}]
SendEvent(c) ==
  /\ Cardinality(eventCalls) < MaxEventCalls /\ eventSaves < MaxEventSaves
  /\ eventCalls' = {[d EXCEPT !.alone = FALSE] : d \in eventCalls} \cup {c}
  /\ eventSaves' = eventSaves + 1
  /\ page' = [page EXCEPT !.busy = TRUE]
  /\ UNCHANGED <<shellVars, eventRow, eventSeen, fetch, suspect>>

save == page.tab # "none" /\ ~page.busy /\ Body(page.tab).name # 0 /\ SendEvent(EventCall("put", page.tab))
onLogoChange == page.tab = "roadbook" /\ SendEvent(EventCall("logo", page.tab))
-----------------------------------------------------------------------------
Advanced(c, d) == eventCalls' = (eventCalls \ {c}) \cup {d}
(* A request whose row nobody will look at any more.                         *)
Spent(c) == [c EXCEPT !.body = NoEvent, !.logo = 0, !.blind = FALSE, !.settled = FALSE]

(* The PUT handler reads the row for its logo, then writes it all.  It drops *)
(* the error of the read: one that fails gives an event with no logo, and    *)
(* the request goes on.                                                      *)
PutReads(c) ==
  /\ c.op = "put" /\ c.step = "sent"
  /\ \E logo \in {eventRow.logo, 0} :
       Advanced(c, [c EXCEPT !.step = "read", !.logo = logo, !.blind = logo # eventRow.logo])
  /\ UNCHANGED <<shellVars, eventRow, eventSeen, page, fetch, eventSaves, suspect>>

(* A fetch that has read the row before this write will bring an old copy,   *)
(* and so does an answer that was overtaken by another.                      *)
Overtaken == fetch.step = "read"
PutWrites(c) ==
  /\ c.op = "put" /\ c.step = "read"
  /\ eventRow' = [c.body EXCEPT !.logo = c.logo]
  /\ IF c.tab \in {"evenement", "wizard"}
     THEN Advanced(c, [Spent(c) EXCEPT !.step = IF c.tab = "wizard" THEN "tiles" ELSE "ok",
                                       !.body = eventRow'])
     ELSE Advanced(c, [Spent(c) EXCEPT !.step = "ok"])
  /\ suspect' = (suspect \/ Overtaken \/ c.tab = "roadbook")
  /\ UNCHANGED <<shellVars, eventSeen, page, fetch, eventSaves>>
SetLogoPath(c) ==
  /\ c.op = "logo" /\ c.step = "sent"
  /\ eventRow' = [eventRow EXCEPT !.logo = 1]
  /\ Advanced(c, [c EXCEPT !.step = "ok"])
  /\ suspect' = (suspect \/ Overtaken)
  /\ UNCHANGED <<shellVars, eventSeen, page, fetch, eventSaves>>

(* A request fails before or after its effect; the wizard's also when the    *)
(* map tiles cannot be fetched for the row it has just written.              *)
FailEvent(c) ==
  /\ c.step \in {"sent", "read", "tiles", "ok"}
  /\ Advanced(c, [Spent(c) EXCEPT !.step = "error"])
  /\ suspect' = (suspect \/ c.step \in {"tiles", "ok"})
  /\ UNCHANGED <<shellVars, eventRow, eventSeen, page, fetch, eventSaves>>
startTileDownload(c) ==
  /\ c.step = "tiles" /\ Advanced(c, [c EXCEPT !.step = "ok"])
  /\ UNCHANGED <<shellVars, eventRow, eventSeen, page, fetch, eventSaves, suspect>>
-----------------------------------------------------------------------------
(* The answers.  The first tab and the wizard set the copy to the row they   *)
(* get back, the backup tab and the uploads read it anew, the roadbook tab   *)
(* does neither.                                                             *)
Done(c) ==
  /\ c.step \in {"ok", "error"} /\ eventCalls' = eventCalls \ {c}
  /\ UNCHANGED <<shellVars, eventRow, eventSaves>>
Idle(p, calls) == IF \E c \in calls : c.live THEN [p EXCEPT !.busy = FALSE] ELSE p
SetsCopy(c) == c.step = "ok" /\ c.op = "put" /\ c.tab \in {"evenement", "wizard"}
ReadsAnew(c) == c.step = "ok" /\ (c.tab = "donnees" \/ c.op = "logo")

SetCopy(c) ==
  /\ SetsCopy(c) /\ Done(c)
  /\ eventSeen' = c.body
  /\ page' = Idle(PageAfter(screen, c.body, TRUE), {c})
  /\ suspect' = (suspect \/ ~c.alone \/ fetch # NoFetch)
  /\ UNCHANGED fetch
(* Mutant: the backup tab saves like the roadbook tab, with no read.         *)
ReadAnewNever(c) ==
  /\ ReadsAnew(c) /\ Done(c)
  /\ page' = Idle(page, {c})
  /\ UNCHANGED <<eventSeen, suspect, fetch>>
(* The request ends with the read it waits for.                              *)
ReadAnew(c) ==
  /\ ReadsAnew(c)
  /\ Advanced(c, [c EXCEPT !.step = "reading"])
  /\ fetch' = Fetch("asked", NoEvent)
  /\ UNCHANGED <<shellVars, eventRow, eventSeen, page, eventSaves, suspect>>
LeaveCopy(c) ==
  /\ ~SetsCopy(c) /\ ~ReadsAnew(c) /\ Done(c)
  /\ page' = Idle(page, {c})
  /\ UNCHANGED <<eventSeen, suspect, fetch>>

(* A read: asked by an answer, or by a page that mounts over an old copy.    *)
AskFetch ==
  /\ fetch = NoFetch /\ eventSeen # eventRow /\ fetch' = Fetch("asked", NoEvent)
  /\ UNCHANGED <<shellVars, eventRow, eventSeen, page, eventCalls, eventSaves, suspect>>
FetchReads ==
  /\ fetch.step = "asked" /\ fetch' = Fetch("read", eventRow)
  /\ suspect' = \E c \in eventCalls : c.step \in {"tiles", "ok"} /\ ~c.alone
  /\ UNCHANGED <<shellVars, eventRow, eventSeen, page, eventCalls, eventSaves>>
Readers == {c \in eventCalls : c.step = "reading"}
FetchEnds ==
  /\ fetch' = NoFetch /\ eventCalls' = eventCalls \ Readers
  /\ UNCHANGED <<shellVars, eventRow, eventSaves>>
FetchLands ==
  /\ Overtaken /\ FetchEnds
  /\ eventSeen' = fetch.row
  /\ page' = Idle(PageAfter(screen, fetch.row, FALSE), Readers)
  /\ UNCHANGED suspect
FetchFails ==
  /\ fetch # NoFetch /\ FetchEnds
  /\ page' = Idle(page, Readers)
  /\ suspect' = TRUE
  /\ UNCHANGED eventSeen
-----------------------------------------------------------------------------
EventInit ==
  /\ eventRow \in StoredEvents /\ eventSeen = eventRow
  /\ page = Fresh(TabOf(screen, eventSeen), eventSeen)
  /\ eventCalls = {} /\ fetch = NoFetch /\ eventSaves = 0 /\ suspect = FALSE

EventNext ==
  \/ \E field \in {"name", "coordinator", "roadbook", "backup"}, v \in Values : Enter(field, v)
  \/ save \/ onLogoChange
  \/ \E c \in eventCalls :
       \/ PutReads(c) \/ PutWrites(c) \/ SetLogoPath(c) \/ startTileDownload(c) \/ FailEvent(c)
       \/ SetCopy(c) \/ ReadAnew(c) \/ LeaveCopy(c)
  \/ AskFetch \/ FetchReads \/ FetchLands \/ FetchFails
-----------------------------------------------------------------------------
Rows == [name : Values, coordinator : Values, roadbook : Values, backup : Values,
         logo : {0, 1}, region : {0, 1}]

(* 0 is null or the default of every field, and what is stored at first is   *)
(* a row, or no event yet.                                                   *)
ASSUME EventAssumption == 0 \in Values /\ StoredEvents \subseteq Rows /\ MaxEventCalls \in Nat

EventTypeOK ==
  /\ eventRow \in Rows /\ eventSeen \in Rows
  /\ page.tab \in {"none", "wizard", "evenement", "roadbook", "donnees"}
  /\ \A c \in eventCalls : c.body \in Rows
  /\ Cardinality(eventCalls) <= MaxEventCalls

(* With nothing on its way and nothing known against it, the cached copy is  *)
(* the row.  What is known against it: a save of the roadbook tab, which     *)
(* does not read the row anew, an answer or a read lost or overtaken.        *)
SettledCopyIsCurrent ==
  (~suspect /\ fetch = NoFetch /\ eventCalls = {}) => eventSeen = eventRow

(* A save from such a copy, with no other beside it, changes the fields of   *)
(* its own page only: the settings blocks of the other tabs, the name and    *)
(* the logo, which no page sends, stay as they are.  One save loses the      *)
(* logo: that of a handler whose read of the row failed, which goes on and   *)
(* answers 200 (blind).                                                      *)
SettledSavesKeepTheRest ==
  [][\A c \in eventCalls : PutWrites(c) /\ c.settled /\ c.alone =>
       \A field \in DOMAIN eventRow \ Owned(c.tab) :
         (field = "logo" => ~c.blind) => eventRow'[field] = eventRow[field]]_eventVars
=============================================================================
