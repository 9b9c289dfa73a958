----------------------------- MODULE QueryCache -----------------------------
(***************************************************************************)
(* One cached query of the browser and the mutations around it.  Queries do  *)
(* not affect one another, so what a mutation hook does to this one is all    *)
(* that matters of it: an effect.  The server serves requests one at a time;  *)
(* an answer can be lost.  The answers of the query are represented by the    *)
(* set of mutations they show.                                                *)
(***************************************************************************)
EXTENDS Naturals

CONSTANTS
  Mutations,   \* the mutate() calls of the session
  Workloads,   \* for each query, the set of effects of the hooks on it
  Nothing      \* data undefined

EffectType == [{"reaches", "gap", "invalidates", "sets", "optimistic", "refetches"} -> BOOLEAN]

(* An optimistic hook also invalidates; a reaching effect that does nothing  *)
(* to the cache is one of the known gaps; a hook sets only what its own call *)
(* has changed, to the answer of that call.                                  *)
ASSUME QueryCacheAssumption ==
  /\ \A W \in Workloads : W \subseteq EffectType
  /\ \A W \in Workloads : \A e \in W :
       /\ e.optimistic => e.invalidates /\ ~e.sets
       /\ e.reaches => e.gap \/ e.invalidates \/ e.sets \/ e.refetches
       /\ e.sets => e.reaches /\ ~e.gap
  /\ 0 \notin Mutations

VARIABLES
  effect,      \* what each mutation's hook does to the query
  stage,       \* idle, sent, applied or refused by the server, done, failed
  truth,       \* the server: the applied mutations the query would show
  reply,       \* what the server answered to each mutation, as query data
  acked,       \* the mutations whose onSuccess has run
  data, invalid, old,      \* the cached answer, isInvalidated, past its staleTime
  active,      \* a mounted component observes the query
  fetch, got,  \* the request of the query: idle, asked, read by the server
  base,        \* what cancelling the request would revert to
  previous,    \* the snapshot of an optimistic mutation
  gaveUp,      \* the last request failed, its retries included
  late,        \* history: requests in flight (0 the query's) when a hook ran
  overlapped   \* history: the data came with such a request

serverVars == <<truth, reply>>
requestVars == <<fetch, got, base>>
vars == <<effect, stage, truth, reply, acked, data, invalid, old, active,
          fetch, got, base, previous, gaveUp, late, overlapped>>

Views == (SUBSET Mutations) \cup {Nothing}
Stages == {"idle", "sent", "applied", "refused", "done", "failed"}

Init ==
  /\ \E W \in Workloads : effect \in [Mutations -> W]
  /\ stage = [m \in Mutations |-> "idle"]
  /\ truth = {} /\ reply = [m \in Mutations |-> {}]
  /\ acked = {}
  /\ data = Nothing /\ invalid = FALSE /\ old = FALSE /\ active = FALSE
  /\ fetch = "idle" /\ got = {} /\ base = [data |-> Nothing, invalid |-> FALSE]
  /\ previous = [m \in Mutations |-> Nothing]
  /\ gaveUp = FALSE /\ late = {} /\ overlapped = FALSE

Pending(m) == stage[m] \in {"sent", "applied", "refused"}

-----------------------------------------------------------------------------
(* The query of react-query.  A request keeps the state it may revert to.    *)
Ask(d, i) == /\ fetch' = "asked" /\ got' = {}
             /\ base' = [data |-> d, invalid |-> i]
KeepRequest == UNCHANGED requestVars
(* Mutant: the status of the query is taken for the status of its request.   *)
NoRequestErrored == fetch' = "error" /\ got' = {} /\ base' = [data |-> Nothing, invalid |-> FALSE]
NoRequest == fetch' = "idle" /\ got' = {} /\ base' = [data |-> Nothing, invalid |-> FALSE]

(* refetch and, for an active query, invalidateQueries: a request under way  *)
(* is cancelled and asked again, unless it is the first one.                 *)
(* Mutant: an invalidated query is only asked for when it is next mounted.   *)
RestartNever(d, i) == KeepRequest
Restart(d, i) == IF fetch = "idle" \/ d # Nothing THEN Ask(d, i) ELSE KeepRequest
Uncancelled == IF fetch = "idle" \/ fetch' = "asked" THEN {} ELSE {0}

(* A component that uses the query is mounted.                               *)
Mount ==
  /\ ~active /\ active' = TRUE
  /\ IF fetch = "idle" /\ (data = Nothing \/ invalid \/ old)
     THEN Ask(data, invalid) /\ late' = late \ {0}
     ELSE KeepRequest /\ UNCHANGED late
  /\ UNCHANGED <<effect, stage, serverVars, acked, data, invalid, old, previous,
                 gaveUp, overlapped>>
Unmount ==
  /\ active /\ active' = FALSE
  /\ UNCHANGED <<effect, stage, serverVars, acked, data, invalid, old,
                 requestVars, previous, gaveUp, late, overlapped>>
Age ==
  /\ data # Nothing /\ ~old /\ old' = TRUE
  /\ UNCHANGED <<effect, stage, serverVars, acked, data, invalid, active,
                 requestVars, previous, gaveUp, late, overlapped>>
(* The cache drops an answer nobody has used for five minutes.               *)
Collect ==
  /\ ~active /\ fetch = "idle" /\ data # Nothing
  /\ data' = Nothing /\ invalid' = FALSE /\ old' = FALSE
  /\ gaveUp' = FALSE /\ overlapped' = FALSE
  /\ UNCHANGED <<effect, stage, serverVars, acked, active, requestVars,
                 previous, late>>

ServeQuery ==
  /\ fetch = "asked" /\ fetch' = "read" /\ got' = truth
  /\ UNCHANGED <<effect, stage, serverVars, acked, data, invalid, old, active,
                 base, previous, gaveUp, late, overlapped>>
Receive ==
  /\ fetch = "read" /\ NoRequest
  /\ data' = got /\ invalid' = FALSE /\ old' = FALSE /\ gaveUp' = FALSE
  /\ overlapped' = (0 \in late) /\ late' = late \ {0}
  /\ UNCHANGED <<effect, stage, serverVars, acked, active, previous>>
GiveUp ==
  /\ fetch # "idle" /\ NoRequest
  /\ gaveUp' = TRUE /\ late' = late \ {0}
  /\ UNCHANGED <<effect, stage, serverVars, acked, data, invalid, old, active,
                 previous, overlapped>>

-----------------------------------------------------------------------------
(* mutate().  An optimistic hook (usePatchVS) first cancels the request      *)
(* under way, keeps a snapshot and shows its own change.                     *)
Send(m) ==
  /\ stage[m] = "idle" /\ stage' = [stage EXCEPT ![m] = "sent"]
  /\ UNCHANGED <<effect, serverVars, acked, active>>
  /\ IF ~effect[m].optimistic
     THEN UNCHANGED <<data, invalid, old, requestVars, previous, gaveUp, late, overlapped>>
     ELSE LET seen == IF fetch = "idle" THEN data ELSE base.data IN
          /\ NoRequest /\ late' = late \ {0}
          /\ previous' = [previous EXCEPT ![m] = seen]
          /\ data' = IF seen = Nothing THEN Nothing ELSE seen \cup {m}
          /\ invalid' = (seen = Nothing /\ (IF fetch = "idle" THEN invalid ELSE base.invalid))
          /\ old' = (seen = Nothing /\ old)
          /\ gaveUp' = (seen = Nothing /\ gaveUp)
          /\ UNCHANGED overlapped

Serve(m) ==
  /\ stage[m] = "sent"
  /\ stage' = [stage EXCEPT ![m] = "applied"]
  /\ truth' = IF effect[m].reaches THEN truth \cup {m} ELSE truth
  /\ reply' = [reply EXCEPT ![m] = truth']
  /\ UNCHANGED <<effect, acked, data, invalid, old, active, requestVars,
                 previous, gaveUp, late, overlapped>>
Refuse(m) ==
  /\ stage[m] = "sent"
  /\ stage' = [stage EXCEPT ![m] = "refused"]
  /\ UNCHANGED <<effect, serverVars, acked, data, invalid, old, active,
                 requestVars, previous, gaveUp, late, overlapped>>

(* The requests a hook's run leaves under way may answer without its write.  *)
MarkLate(m) ==
  late' = (late \ (IF fetch' = "asked" THEN {0, m} ELSE {m}))
            \cup (IF effect[m].reaches
                  THEN Uncancelled \cup {n \in Mutations \ {m} : Pending(n)}
                  ELSE {})

(* Mutant: onSuccess refetches the active queries and marks no others.       *)
SucceedRefetchingActive(m) ==
  /\ stage[m] = "applied"
  /\ stage' = [stage EXCEPT ![m] = "done"]
  /\ acked' = acked \cup {m}
  /\ IF effect[m].sets
     THEN /\ data' = reply[m] /\ invalid' = FALSE /\ old' = FALSE /\ gaveUp' = FALSE
          /\ overlapped' = (m \in late)
          /\ KeepRequest
     ELSE /\ invalid' = (invalid \/ (effect[m].invalidates /\ active))
          /\ IF effect[m].refetches \/ (effect[m].invalidates /\ active)
             THEN Restart(data, invalid') ELSE KeepRequest
          /\ UNCHANGED <<data, old, gaveUp, overlapped>>
  /\ MarkLate(m)
  /\ UNCHANGED <<effect, serverVars, active, previous>>
(* onSuccess: setQueryData with the answer, invalidateQueries, refetch, or   *)
(* nothing at all.                                                           *)
Succeed(m) ==
  /\ stage[m] = "applied"
  /\ stage' = [stage EXCEPT ![m] = "done"]
  /\ acked' = acked \cup {m}
  /\ IF effect[m].sets
     THEN /\ data' = reply[m] /\ invalid' = FALSE /\ old' = FALSE /\ gaveUp' = FALSE
          /\ overlapped' = (m \in late)
          /\ KeepRequest
     ELSE /\ invalid' = (invalid \/ (effect[m].invalidates /\ (data # Nothing \/ active)))
          /\ IF effect[m].refetches \/ (effect[m].invalidates /\ active)
             THEN Restart(data, invalid') ELSE KeepRequest
          /\ UNCHANGED <<data, old, gaveUp, overlapped>>
  /\ MarkLate(m)
  /\ UNCHANGED <<effect, serverVars, active, previous>>

(* Mutant: usePatchVS without its onSettled.                                 *)
FailWithoutSettling(m) ==
  /\ stage[m] \in {"applied", "refused"}
  /\ stage' = [stage EXCEPT ![m] = "failed"]
  /\ UNCHANGED <<effect, serverVars, acked, active, previous, overlapped, requestVars, late>>
  /\ IF ~effect[m].optimistic \/ previous[m] = Nothing
     THEN UNCHANGED <<data, invalid, old, gaveUp>>
     ELSE data' = previous[m] /\ invalid' = FALSE /\ old' = FALSE /\ gaveUp' = FALSE
(* A refusal, a failure after the change, or an answer that never comes.     *)
(* Only the optimistic hook does anything then: onError puts the snapshot    *)
(* back, onSettled invalidates.                                              *)
Fail(m) ==
  /\ stage[m] \in {"applied", "refused"}
  /\ stage' = [stage EXCEPT ![m] = "failed"]
  /\ UNCHANGED <<effect, serverVars, acked, active, previous, overlapped>>
  /\ IF ~effect[m].optimistic
     THEN UNCHANGED <<data, invalid, old, requestVars, gaveUp, late>>
     ELSE /\ data' = IF previous[m] = Nothing THEN data ELSE previous[m]
          /\ invalid' = (invalid \/ data' # Nothing \/ active)
          /\ old' = (old /\ previous[m] = Nothing)
          /\ gaveUp' = (gaveUp /\ previous[m] = Nothing)
          /\ IF active THEN Restart(data', TRUE) ELSE KeepRequest
          /\ late' = IF fetch' = "asked" THEN late \ {0} ELSE late

Next ==
  \/ Mount \/ Unmount \/ Age \/ Collect \/ ServeQuery \/ Receive \/ GiveUp
  \/ \E m \in Mutations : Send(m) \/ Serve(m) \/ Refuse(m) \/ Succeed(m) \/ Fail(m)

(* The server handles every request and the browser hears of it.             *)
Fairness ==
  /\ WF_vars(ServeQuery) /\ WF_vars(Receive \/ GiveUp)
  /\ \A m \in Mutations : WF_vars(Serve(m) \/ Refuse(m)) /\ WF_vars(Succeed(m) \/ Fail(m))

Spec == Init /\ [][Next]_vars /\ Fairness

-----------------------------------------------------------------------------
TypeOK ==
  /\ effect \in [Mutations -> EffectType] /\ stage \in [Mutations -> Stages]
  /\ truth \subseteq Mutations /\ reply \in [Mutations -> SUBSET Mutations]
  /\ acked \subseteq Mutations
  /\ data \in Views /\ invalid \in BOOLEAN /\ old \in BOOLEAN /\ active \in BOOLEAN
  /\ gaveUp \in BOOLEAN /\ overlapped \in BOOLEAN
  /\ fetch \in {"idle", "asked", "read"} /\ got \subseteq Mutations
  /\ base \in [data : Views, invalid : BOOLEAN]
  /\ previous \in [Mutations -> Views]
  /\ late \subseteq Mutations \cup {0}

(* Nothing tells the page that what it shows may be out of date, and no      *)
(* answer crossed a write on its way.                                        *)
Settled ==
  /\ data # Nothing /\ ~invalid /\ fetch = "idle" /\ ~gaveUp /\ ~overlapped
  /\ \A m \in Mutations : effect[m].optimistic => ~Pending(m)
Owed == {m \in acked : effect[m].reaches /\ ~effect[m].gap}

(* A write the user was told of is on the page, whatever query it reaches    *)
(* (the known gaps aside): its hook invalidated, set or refetched the query,  *)
(* and no older answer, snapshot or cancelled request brought the state from  *)
(* before it back (hooks.ts of every feature).                               *)
OwnWritesSeen == Settled => Owed \subseteq data

(* The page shows nothing the server does not have: what usePatchVS showed    *)
(* ahead of a refusal is gone, also when a second patch took its snapshot in  *)
(* between (vs/hooks.ts onMutate, onError).                                  *)
NoPhantomWrites == Settled => data \subseteq truth

(* A query on display that is known to be out of date, or has no data, is     *)
(* asked for again until it is answered or the request is given up            *)
(* (invalidateQueries after onMutate's cancelQueries).                       *)
CatchesUp == (active /\ (data = Nothing \/ invalid))
               ~> (~active \/ gaveUp \/ (data # Nothing /\ ~invalid))

(* The cache keeps the promise of ReadYourWrites.                            *)
Promise == INSTANCE ReadYourWrites WITH
             Write <- Mutations, NoView <- Nothing,
             acknowledged <- Owed, view <- data, settled <- Settled
ReadsOwnWrites == Promise!Spec
=============================================================================
