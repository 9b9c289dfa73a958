# VolunteersManager: a TLA+ verification project

VolunteersManager plans the volunteers of a trail running event: stations (VS),
volunteers, cars, missions, assignments, trips, races. One Go process serves a
REST API over one SQLite file and an embedded React frontend. There is no login
and mostly one user, but nothing serialises requests: net/http gives each a
goroutine, `database/sql` hands statements to a pool of connections, and a
browser sends several mutations at once, keeps copies of what it read, and
computes what it sends from these copies.

This directory models the parts whose correctness depends on order,
interleaving or bookkeeping, checks them with TLC and proves the main results
with TLAPS. `PROJECT.json` maps every definition to its source lines.

## Inventory

| Component | State | Operations | Correct when |
|---|---|---|---|
| Planning tables (`store`, migrations 2, 4, 5, 7) | `vs`, `volunteers`, `cars`, `missions`, `assignments`, `trips`, `trip_stops`, `trip_stop_passengers` | one transaction per store method; CASCADE, RESTRICT and SET NULL keys | no row names a missing row; a trip has all its stops |
| Stations, volunteers, cars, missions, assignments, trips (`features/*`) | the handler's locals between its statements | create, patch, put, delete, forced delete | a refused request changed nothing; an unforced delete takes nothing along; a forced one succeeds |
| Warnings recompute (`server/constraints.go`, `features/warnings`, `constraints/state.go`) | `warnings` table; ids and state read so far | after each 2xx mutation: read ids, read every table, run the engine, replace the table, answer with the difference | the table is what the engine says of the database |
| Warnings in the browser (`web/src/lib`, `features/warnings`) | one query cache entry | list fetch; merge of an envelope | shows what the table holds |
| Constraint engine, trips (`constraints/engine.go`, boarding, capacity, passengers) | maps filled along a trip's stops | one pass over the stops | finds exactly the rides, overfull legs, unmatched boardings; a stable id per situation |
| Race timing and trials (`features/race`, `racevs`, `trial`) | trials in sequence, tracks, station list, `race_trial_vs` rows with their source | change one of them, then recompute all passages of the race | rows follow trials, tracks, list and places; the user's inclusions and exclusions survive |
| Race tags of missions (`mission/store.go`) | a JSON list per mission | delete a race, then scrub its tag mission by mission | no tag of a race that exists is lost |
| CSV import (`csv`, `CsvImportWizard`) | session rows; the wizard's step, rows and busy flag | upload, mapping, resolve, commit, cancel | each file imported once, and as it was shown |
| Event and settings (`features/event`, four pages) | one row, its cached copy, a form per tab | each page writes the whole row | a save changes its own fields only |
| Browser query cache (`hooks.ts`, `api.ts` of every feature) | 23 kinds of queries; requests under way; optimistic snapshots | 39 mutations (two of them without a hook) that invalidate, set or refetch | what the user was told has been saved is on the page |
| Timeline (`features/timeline`) | cursor, window, playback; effects due; the plan as fetched | play, step, drag, choose a day; data arriving | the cursor is in its window; people and warnings are drawn where they belong |
| Router, station panel, trip editor (`App`, `shell`, `vs`, `trip`) | URL, stack of frames, forms, requests under way | navigate, edit, save, delete; late answers | what is saved belongs to what is on screen |
| Race page (`RaceDetail`, `TrialCard`) | lists as shown, one open card, requests | add, drag, delete, save, upload, choose | what others did is not undone |
| Constraint engine, missions and duty | none (pure) | interval checks over missions and rides | not modelled |
| Travel matrix, archive, startup, tiles, roadbook PDF | files; `travel_times` | | not modelled |

Interactions. Every handler works on the one database. The warnings middleware
wraps all of `/api` and runs after each handler. Moving a station makes every
race on it recompute; deleting a race scrubs mission tags. The engine reads what
the handlers write; its warnings reach the browser by two unordered ways, the
list and the envelopes. In the browser the router decides which forms live, the
query cache feeds them, and an answer may move the user to another page.

Hard behaviours. Checks and writes in separate statements; several statements
of one request of which a later one fails; recomputes that overlap; a read of
many tables without a transaction; a cache fed by unordered answers; whole rows
and lists written back from an old copy; forms that outlive what they were opened
on; bookkeeping along a list. `PROJECT.json` lists the forty that matter most
at their lines; those of files (tiles, backups, migrations) are not modelled.

## Modules

| Module | Models | Composed of |
|---|---|---|
| `Schema` | the tables and every transaction on them, as SQLite executes it: parents checked, RESTRICT refusing, CASCADE and SET NULL applied in the same statement | |
| `Planning` | the handlers, one action per statement, any number of requests interleaved | extends `Schema` |
| `WarningsServer` | the middleware: handler, ids, tables one by one, replacement, answer | |
| `WarningsClient` | the browser's list: fetch in three steps, merges, lost answers | extends `WarningsServer` |
| `TripWalk` | the engine's pass over one trip, a stop a step | |
| `RaceTables` | the tables of a race, each handler's change, the recompute as a function of what it read | |
| `RaceTiming` | requests that change, read and recompute one race side by side | extends `RaceTables` |
| `RacePages` | the race page of one browser, beside others | extends `RaceTables` |
| `RaceTags` | mission tags, race deletion, the scrub write by write | |
| `RaceDesk` | the three together | extends the three |
| `Queries` | the catalogue: what each call reads and writes, what each hook does to the cache | |
| `QueryCache` | one cached query, any mutations on it | |
| `ReadYourWrites` | what a cached query promises | implemented by `QueryCache` |
| `Shell` | paths, screens, the map tool | |
| `StationPanel`, `TripEditing`, `EventSettings`, `CsvImport` | a form, its requests and its server side | extend `Shell` |
| `Workspace` | the four under one router | extends the four |
| `Positions` | where everybody is at a time, as fractions | |
| `Cursor` | cursor, window, effects | |
| `Chronologie` | the timeline page over a plan | extends `Cursor`, `Positions` |
| `*Proofs` (7) | theorems | extend their module |
| `Induction` | induction, recursion and greatest elements, for the proofs | |
| `MC*` (7) | small instances | extend their module |

**Schema** is the abstract specification: what the database promises whatever
handlers run. A table is a set of records holding the key columns and
`eligible` (can drive, not archived). `issued` holds the ids handed out, since
AUTOINCREMENT never reuses one. Names, times, coordinates and
`volunteers.default_vs_id` are left out; so are the UNIQUE names, except that
`RejectInput` lets a create be refused.

**Planning** is the detailed one. A request slot records the statement to run
next, what was read so far and the answer. The dependents check of a station
(three COUNTs and a DELETE), the check of a default driver before the write, the
loops that delete trips one by one and the read-back after a write are separate
steps; other requests run in between. `StatementFails` lets any statement fail
(SQLite busy, disk), as the handlers answer 500 and leave what they wrote. The
history fields `wrote` and `disturbed` serve the properties only. `disturbed`
says that another request overlapped or a statement failed.

**WarningsServer** leaves the tables' contents abstract: `Engine` is any
function from contents to warnings and a commit is any change. `Clashes` are
contents for which the engine lists an id twice, so the replacement breaks the
primary key. Each query of the loader sees the moment it runs; the code takes no
transaction although its comment says so, and for the tables in `Optional` a
failed query reads as `Empty`. `writer`, `recompute` and `blind` are history: who
committed last, what became of its recompute, and which tables that did not see.

**WarningsClient** adds the query cache of one tab. `calm` is history: since the
last fetch that ran alone began, nothing overlapped.

**TripWalk** walks the loops of `newIndex`, `passengerDoubleBook`,
`boardAlightConsistency` and `capacityExceeded` together, since all four visit
the stops in order, boards before alights. `AlarmsAreExact` is about riders who
board at some stop; those who never do are the subject of `OrphansAreFlagged`,
which the code's comment promises and the code does not keep. The reference
definitions (`Aboard`, `IsRide`) speak of the trip alone. Duplicated names in one stop are removed by
`writeStops`, so a stop has sets.

**Queries and QueryCache.** Two queries do not affect one another, so one is
modelled and a mutation is what its hook does to it: does the change reach the
query, does the hook invalidate it (optimistically or not), set it or refetch
it. `Queries` derives this for each of the 23 queries and every hook from what
`api.ts` and `hooks.ts` say. `KnownGaps` lists the pairs in which a change
reaches a query that its hook leaves alone (deleting a station, committing a CSV
file, saving the roadbook settings, the travel times of a new or moved station, the
passages after a new trial...); an ASSUME of `MCQueryCache` says that
the list is exact. An answer is the set of mutations it shows. `QueryCache`
follows TanStack Query as the hooks use it: a request is cancelled and
restarted by an invalidation, except the first one; an optimistic hook keeps a
snapshot. `late` and `overlapped` are history: an answer that crossed a hook's
run may show the state before it, and the cache cannot know.

**ReadYourWrites** is the abstract specification: a settled view shows every
acknowledged write. `QueryCache` implements it (property `ReadsOwnWrites`), with
settled meaning that nothing tells the page it is out of date.

**Workspace.** The forms share the router and nothing else, so one area is
edited in a behaviour and the others are visited. The forms react to a change of
screen (`StationsFollow`, `TripsFollow`...), as React keeps, renders anew or
unmounts their components; which of these happens is what goes wrong in
practice. `reused` says that a form went from one entity to another without
being unmounted. In `StationPanel` the form keeps the id and the name of the station
it was last synchronised with, as the one state object of `VSForm` does, and its
effect brings it up to date after a render; `typed` says that the user has changed
the name since. In `EventSettings` a settings block is one number, and a
save whose handler could not read the logo is `blind`; `suspect`
says that the copy was left behind (the roadbook tab saves without reading the
row again, an answer was lost or overtaken). In `CsvImport` a row of the file is
its class; `excused` names the sessions that may be imported twice.

**RaceTables** keeps a race in one record and every handler maps it to the next
or refuses. The recompute is split as in the code: `Read` outside the
transaction, `Recomputed` from what was read and the rows there are then. A
track is where it passes each place; times are numbers, and a recompute hands
the delay of a trial on to those that follow. `Exact` says what comes out without
walking: the latest of the scheduled starts so far, each with the time the trials
in between take. The order of the trials is said by rank (the k-th has k - 1
before it) and of a list only who precedes whom, which is the same as
filtering, since neither holds anything twice; sorting and filtering are
opaque to the prover. `RaceTiming` lets requests overlap
and recomputes fail (no busy_timeout), and deletes stations, whose rows and list
entries the cascade takes and which recomputes nothing; `spoiled` says since when
the rows need not be right, after such a deletion only when `LeavesDelay` holds (with
no such exception `QuietRowsAreExact` is violated in two
steps). In `RacePages` a request and its recompute are one step, and the
page computes from what it shows.

**Chronologie.** A plan is what the page fetched. Everything derived from it
(`DataRange`, `Bars`, lookups of warnings, positions) is a function; the actions
are the user's, the effects' (`Commit`: React runs them after a render) and the
queries' (`Refetch`: another plan, or one more answer). Positions are fractions
`<<n, d>>`, so nothing is rounded. A sort is said by rank (`ByTime`: the element
of rank k has k of the kept ones up to it), so that it can be reasoned about; it is
stable, as the code's is. `IsRace` and `IsPlanning` say what a plan may hold: rows
of the database under their ids, a track whose distances only grow. `drifted` says that playing has moved the
cursor since it was placed.

Definitions named in a comment as a mutant are wrong on purpose. Nothing uses
them; each is what the next definition would be with a plausible bug, and serves
to see a property fail.

## Runs

| Run | Instance | Shows |
|---|---|---|
| `planning` | 1 station, volunteer, car, mission, 1 id that names no station; 2 trips; 2 requests; routes of 2 stops, riders at one of them | foreign keys, whole trips; for undisturbed requests: a refusal changed nothing, a forced delete succeeds, an unforced one spares what it would take; for all: an unforced delete loses no trip. The schedule never deadlocks |
| `planning_race` | as `planning` | **violation**: a mission created between the COUNTs and the DELETE of an unforced station delete is lost (10 states) |
| `warnings` | 2 mutations, 2 tables of 2 contents, of which one may be taken for empty; one content with a clashing id | the mutation that committed last and recomputed last leaves the warnings of the database it read, less the tables whose query failed; merged ids follow the table |
| `warnings_overlap` | same | **violation**: a slower recompute of an older database persists last and stays |
| `warnings_text` | 1 mutation, 1 table of 3 contents | **violation**: same id, new text, never sent |
| `trip_walk` | every trip of 4 stops, 2 people, 1 seat | rides, overfull legs, riders never let off and, of those who board somewhere, riders let off too early are exactly those of the reference definitions |
| `trip_walk_ids` | 1 person | **violation**: riding a trip twice gives two warnings with one id, which the table's primary key refuses |
| `trip_walk_orphans` | 1 person | **violation**: somebody who gets out and boards nowhere is not flagged (2 states) |
| `race_timing` | 3 trials, 2 stations at 3 places (moved and deleted), 2 tracks; 2 requests on the server; 2 calls of the page and 1 from elsewhere; 2 missions, 2 races, 2 patches | quiet rows are exact; choices survive every recompute; drags, adds, uploads, lists and forms do what they say when the page is current; tags of live races survive |
| `query_cache` | 2 mutations, every query of the catalogue | own writes are shown, optimistic ones withdrawn, out-of-date queries caught up; the cache implements `ReadYourWrites` |
| `workspace` | 2 stations, 2 trips of up to 3 stops, the event, a file of 3 rows with 2 sessions and 4 requests | the station form is the address's and shows its name; photo and consent go to their station; automatic times and chips are right; an editor saves its own trip; a settled copy is current and saves keep the rest; a session is imported once, as shown |
| `chronologie` | days of 10 units, arrow steps of 4, 31 units; 8 plans with 2 cars, 3 stations, 2 volunteers | the cursor stays in its window and returns to it; riders are in their car; runners between timings; every warning marks exactly its bars |

Bounds. Two requests suffice for a check and a write to be separated; a second
trip is what makes the delete loops loop. One row of every other kind is enough
because handlers never compare two stations, volunteers, cars or missions. `Strays`
holds a station id that a client names and the database never gave, so that routes
are refused as well as stored; routes between several stations, and of more stops, are
covered by the theorems, which hold for all of them. Ids run out:
once a row's id is used its creation is not enabled, and `RejectInput` keeps the
schedule running. Two tables make a torn read possible. Four stops hold board,
alight, board, alight and a double board. Symmetry permutes requests and trips
(or people, or names), which no definition tells apart, in runs without
liveness.

In `race_timing` three trials hold a hole in the sequence and a delay handed on
twice; an empty station list keeps the runs about order and forms small, since
there is nothing to recompute. Three requests on the server were tried as well
(800 thousand states) and show nothing more. In `query_cache` two mutations are what
it takes for an answer, a snapshot or a cancelled request of one to cross the
other; queries on which all hooks act alike are checked once. In `workspace`
each area has two pages of its kind and a page to leave it for, a call may be
late by one (two for the event and the CSV import), and a station is renamed
once (`MaxRenames`); the file has a new, an
ambiguous and a faulty row, whose classes differ by key. In `chronologie` the
eight plans cross what the code branches on: stop orders, who boards where, duty
during a ride, a missing station, unreadable times, stop ids there or not, a
race over two days, no event. Random plans would mostly miss these.

`CHECK_DEADLOCK FALSE` is set where the program really may stop: `trip_walk` (the
trip has been walked), `workspace` and `race_timing` (the requests of the model
are spent).

Fairness. `Planning`, the warnings, `Workspace` and the race modules claim no
liveness and assume none: nothing there retries or must repair something; a stale
warnings table waits for a mutation that a user may never send. `Chronologie`
assumes weak fairness of `Commit`: React runs the effects of every render. From
it `CursorReturns`: a cursor outside its window comes back. `QueryCache` assumes
that the server handles every request and that the browser hears the answer or
gives up, retries included: `fetch` in `lib/api.ts` always resolves or rejects.
Whether the page is mounted is not assumed. From it `CatchesUp`: a query on
display that is known to be out of date is answered or given up.

## Findings

1. An unforced `DELETE /api/vs/{id}` can take a mission with it (`planning_race`).
2. `GET /api/warnings` can stay out of date with nothing in flight (`warnings_overlap`).
3. A changed message under an unchanged id is never sent to the browser (`warnings_text`).
4. One trip can give two warnings with one id, which makes every later recompute
   fail until the trip changes (`trip_walk_ids`).
5. Who gets out of a trip and boards it nowhere is not flagged, although the code's
   comment says it is reported (`trip_walk_orphans`).

Beside these, the models contain behaviour that no document promises to
exclude, and that their properties except by name. A reader of the code may want
to know:

- The roadbook tab saves the event and leaves the cached copy as it was, so the
  next save of another tab takes its settings back (`suspect`). So does a CSV
  commit with the volunteers (`KnownGaps`).
- A form kept while the URL goes straight from one station or trip to another
  saves the first trip's stops as the second, sends the chosen photo to, or
  force-deletes, the other station (`reused`).
- Changing the mode of a trip refills no time, and a stop added by a click on the
  map is timed with the first render's matrix and mode (`filled`).
- A CSV session can be imported twice when a resolve is answered after the import
  was confirmed, since any answer enables the button again, or when the browser
  gives up an import that goes on (`excused`).
- A query of cars, trips, passengers or travel times that fails while the warnings
  are recomputed is taken for an empty table, whatever it failed for
  (`state.go` tests `err == nil`): warnings of a database without it replace the
  right ones, behind a 200 (`blind` of `WarningsServer`).
- After a station is created or moved the page keeps its old travel times, after a
  trial is created its old passages: the server recomputes them, the hooks do not
  invalidate them (`KnownGaps`).
- When the last station on a trial's way is deleted, the trials after it keep its
  delay: the races to recompute are looked for once the cascade has taken the
  station from their lists (`LeavesDelay`).
- Passages stay old after a chip is clicked, and after a recompute that failed
  beside another writer (`spoiled`). Trials without a track keep the automatic
  rows of their old one.
- "Ajouter une épreuve" fails once a trial in the middle was deleted.
- `PUT /api/event` writes back the logo and the sponsor it read before; a logo
  uploaded in between is lost. It ignores whether the read failed: if so, both are
  cleared behind a 200 (`blind` of `EventSettings`).
- `race/handlers.go` says that the merged track follows the sequence of the
  trials; it follows the ids of the files, those of deleted trials included.

## Proofs

All theorems hold for every value of the constants.

- `PlanningProofs`. Inductive invariant of the tables, `TablesInv`: types,
  `ReferentialIntegrity`, `TripsAreWhole`, and that every trip's id was issued.
  The last is needed so that a new trip meets no old stop of the same id. One
  lemma per transaction. Every step of the handlers is a transaction of `Schema`
  or leaves the tables alone (`PlanningImplementsSchema`), so these carry over.
  `UnforcedDeletesSafe` rests on the further invariant that an unforced delete
  never holds pending trips or reaches the cascade, and on the RESTRICT keys.
  The promises to undisturbed requests (`RefusalsChangeNothing`,
  `ForcedDeletesSucceed`, `UnforcedStationsSpare`) need `SerialInv`: for each
  statement a request may be at, what it knows of the tables as they are now
  (the trips it found are all the trips there are, the COUNTs it has passed were
  0, nothing is written before the first write), true as long as nothing has
  disturbed it.
- `WarningsProofs`. `LastWriterPublishes` needs: while the last writer's
  recompute is under way, what it has read equals the database table by table, and
  is empty where its query failed, since any commit after it would make another
  request the last writer. The
  browser's steps leave the server's variables alone
  (`ClientImplementsServer`), so its theorems hold beside the client as well.
  `MergedIdsCorrect` needs what an envelope under way says: while it is calm, the
  ids on the page become those of the table once the envelope is merged.
- `TripWalkProofs`. The invariant says of each open ride where it began, that
  its rider was not on board before and has not alighted since, and of everybody
  else that they are not on board. From it the ride that ends at a stop is the
  only one that can. `AlarmsCorrect` further needs that each alarm so far has its
  cause among the stops passed; what it says is for riders who board somewhere.
- `CursorInv` of `ChronologieProofs`: each effect guards one end. With the start
  effect done the cursor is not before the window (`NearEnd`); with the window
  effect done it is not past it unless played there (`FarEnd`). Every handler
  either keeps its end or makes the effect due that restores it. Together they
  give `CursorInWindow`. Types (`ChronologieTypes`) need that the arrow keys stop
  at the window's start.
  The other three are about what is derived from a plan, and hold in every state of
  the types. All rest on `ByTimeSorts`: ranks are a bijection, so choosing by rank
  lists each kept element once and in order. `RunnersStayBetween`: the early returns
  of `distAtTime` come to one condition (`DistCases`), the distance is a share of
  the way between two timings (`OnTheWay`), and the binary search keeps a point
  reached and one not reached, which are neighbours after as many rounds as the track
  has points (`SearchLoop`). `RidersStayWithTheirCar`: the rider's first leg under
  way and the car's are the same, or meet at the stop where he boards at that very
  time (`RideIsWithCar`). `BarsCarryTheirAlarms`: the lookups return the warnings
  about a bar, for legs because an ordered trip has no two stops at one time
  (`LegsTouched`). What they ask of the plan is part of the property: known stations,
  readable times, trips in order, and that what a warning names is on screen.
- `QueryCacheProofs`. The invariant accounts for every owed write: it is on the
  page, or a flag or a request keeps the page from settling, and an answer that
  is under way and not marked `late` contains it. The cases that matter are a
  cancelled first request and a snapshot put back. `PageShowsNoPhantoms` accounts
  likewise for every write shown: the server has it, or its hook still runs, or a
  flag or a request will take it away. From both, `CacheKeepsPromise`: the cache
  implements `ReadYourWrites`, its actions one by one.
- `RaceProofs`, for `RaceDesk`'s specification: requests side by side, one page
  beside other browsers, and the tags. `DeskInv` has a part for each.
  `TagsInv`: what the scrub keeps for a mission it has yet to write is that
  mission's list without the tag, unless the mission was patched since, and the
  race of a scrub is gone for good.
  `TimingInv`: the plan of a request that is current is what it would read now,
  since every other change empties `current`; and a recompute from such a plan
  leaves the rows exact (`RecomputedExact`). That lemma is the heart: by
  induction along the walk, each trial is visited once, the arrival a trial hands
  on is the latest that any start so far gives, and so the walk computes the
  closed form of `Exact`. Recomputes of any plan, outdated ones too, keep the
  tables in shape and leave alone what was chosen by hand (`RecomputedSound`).
  `PageInv`: what is shown has been in the tables, a form shows what it was
  opened on but for what was edited, a request holds what it was computed from
  (a drag permutes the trials shown, a list keeps the rest in order). From it the
  action properties of the page, each for a request computed from what the server
  still has. `DraggedOrderHolds` goes through the 2n updates of a reorder: halfway,
  every number is one of its own or a reserved one, so none is taken
  (`DragNumbers`), which needs that numbers stay below 100000 (`Small`); fewer
  trials than that is an assumption.
- `WorkspaceProofs`, for `Workspace`'s own specification. First the import, with
  pages coming and going around it. Of the calls on one session, at most one commit is live;
  once a commit has applied nothing else of that session is beside it, unless
  excused. The proof is what showed that a call which is merely beside a commit
  has to excuse it: a late answer clears the busy flag. `CommitsAreShown` ties
  the rows and the mapping of a live commit to those the wizard showed.
  Then the forms: the station panel, the trip editor, the
  event and settings tabs, and the types of all four areas. The invariants say
  whose form is open (its station or trip, unless `reused`), what an answer under
  way was asked for, and which fields the user has touched. `FormFollows` needs that
  every frame of a station in the stack is of the one in the address, however deep
  drafts and missions were pushed over it (`StackFollows`), and that the form is the
  top frame's.
  `SavesKeepTheRest` needs that what a save from a settled copy holds is the row but
  for its own fields (`SettledBodies`), and that its handler has read the logo of the
  row as it still is, or is blind (`LogoIsRead`). `TimesFollowed` goes
  through the recursive functions with which the editor refills times, each time
  from the one before.

Induction. The library's induction theorems take an operator and are out of
reach, but induction over a set of naturals is not: `SetInduction` of `Induction`
derives it from finite cardinalities, and `RecursiveFunction` from it that a
recursive function over `0..n` exists and obeys its equation. So what the
recursive functions of the models compute is proved where a theorem needs it.

Assumptions: `MaxStops >= 2`, `None` is no row, request or content, at least one
table, the optional ones among them, two stops and one seat, `Engine` is a function from contents to sets of
warnings; ranges of data are ranges, a day and an arrow step are not 0, each plan
has a range among them; an optimistic hook also invalidates, a hook that does
nothing to a query it reaches is a known gap; the pages, tools and names of
`Workspace` are distinct and its bounds, travel times and speeds are natural
numbers; a plan is of its types, and stations, cars and the two race rows are
distinct; trials are numbered 1..n, finitely many and fewer than the 100000 from
which a reorder borrows numbers, distances, times and paces are natural numbers;
the tables a race starts from are of their types, its trials' numbers unique and
on a page below 100000, its requests are numbers. Each is an ASSUME that TLC evaluates.

The types of `Planning`, `TripWalk`, `Chronologie`, `QueryCache`, `RaceTags`,
`WarningsServer` and `WarningsClient` are proved and not run; those of
`Workspace` and `RaceDesk` are both.

Every safety and action property of the passing runs is proved. Liveness
(`CursorReturns`, `CatchesUp`) stays with TLC, for the prover does not do fairness
or ENABLED, as do the properties of the violation runs, which are false.

## Not modelled

- The interval constraints of the engine (double booking, duty, breaks, travel,
  stranded, staffing): pure comparisons of clock times. Mission times are stored
  as ISO datetimes (docs/05-data-model.md) but read as HH:MM, which empties
  them; this is left as a hazard.
- Files: map tiles, archive export and import, daily backup, migrations. They
  have crash hazards, two of which are listed, and no concurrency worth the name.
- The travel time matrix on the server; the editor's copy of it is modelled.
- Roadbook PDF, GPX geometry (floating point), phone and CSV text conversions,
  translations, embedded assets, logging.
- Of modelled components: columns no key or handler looks at;
  `volunteers.default_vs_id`; phone numbers; the expiry of CSV sessions; a race's
  own name and colour, and manual times that no page sends; sponsor, dates and
  time zone of the event; one edited field stands for the text fields of a form;
  one card of the race page is open at a time and one scrub runs at a time; a
  recompute reads the trials and the list in one step.
- Lists, map layers, pickers and plain forms of the frontend. More than one
  browser appears as changes from elsewhere; the retry schedule of TanStack Query
  as a request that is answered or given up.
