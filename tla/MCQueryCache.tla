---------------------------- MODULE MCQueryCache ----------------------------
EXTENDS Queries, QueryCache

CONSTANTS m1, m2

MCMutations == {m1, m2}
(* The queries on which the hooks have the same effects are checked once.    *)
MCWorkloads == {EffectsOn(key) : key \in DOMAIN Queries}

(* The gaps are the ones listed, no more: every other query a call reaches is *)
(* invalidated, set or refetched by its hook.                                *)
ASSUME GapsAreExact ==
  KnownGaps = {<<hook.call, key>> : hook \in Hooks, key \in DOMAIN Queries} \cap
    UNION {{<<hook.call, key>> : key \in {k \in DOMAIN Queries :
              LET e == Effect(hook, k) IN
              e.reaches /\ ~e.invalidates /\ ~e.sets /\ ~e.refetches}} : hook \in Hooks}
=============================================================================
