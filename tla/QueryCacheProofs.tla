------------------------- MODULE QueryCacheProofs -------------------------
(***************************************************************************)
(* OwnWritesSeen for any set of mutations and any effects of their hooks.    *)
(* The invariant behind it says where each owed write is: on the page, in    *)
(* what is under way to it, or in a flag that keeps the page from settling.  *)
(***************************************************************************)
EXTENDS QueryCache, TLAPS

EffectOK ==
  /\ effect \in [Mutations -> EffectType]
  /\ \A m \in Mutations :
       /\ effect[m].optimistic => effect[m].invalidates /\ ~effect[m].sets
       /\ effect[m].reaches => \/ effect[m].gap \/ effect[m].invalidates
                               \/ effect[m].sets \/ effect[m].refetches

StageOK ==
  /\ stage \in [Mutations -> Stages]
  /\ reply \in [Mutations -> SUBSET Mutations] /\ truth \subseteq Mutations

OptimisticPending == \E m \in Mutations : effect[m].optimistic /\ Pending(m)

Excused == data = Nothing \/ invalid \/ gaveUp \/ overlapped \/ fetch # "idle"
             \/ OptimisticPending

InFlight ==
  /\ fetch \in {"idle", "asked", "read"}
  /\ acked \subseteq Mutations /\ Owed \subseteq truth
  /\ fetch = "read" /\ 0 \notin late => Owed \subseteq got
  /\ \A m \in Mutations : stage[m] = "applied" =>
       /\ effect[m].reaches => m \in reply[m]
       /\ effect[m].reaches => m \in truth
       /\ m \notin late => Owed \subseteq reply[m]

Accounted == Excused \/ Owed \subseteq data

IInv == EffectOK /\ StageOK /\ InFlight /\ Accounted

(* The initial states: nothing is owed.                                      *)
LEMMA InitIInv == Init => IInv
<1> SUFFICES ASSUME Init PROVE IInv  OBVIOUS
<1>1. PICK W \in Workloads : effect \in [Mutations -> W]  BY DEF Init
<1>2. EffectOK  BY <1>1, QueryCacheAssumption DEF EffectOK
<1>3. Owed = {}  BY DEF Init, Owed
<1>4. StageOK /\ InFlight /\ Accounted
  BY <1>3 DEF Init, StageOK, Stages, InFlight, Accounted, Excused
<1> QED  BY <1>2, <1>4 DEF IInv

(* Steps that leave the mutations alone owe nothing more.                    *)
LEMMA QuerySteps ==
  ASSUME IInv, Mount \/ Unmount \/ Age \/ Collect \/ ServeQuery \/ Receive \/ GiveUp
  PROVE  IInv'
<1>1. Owed' = Owed /\ stage' = stage /\ effect' = effect /\ reply' = reply /\ truth' = truth
      /\ acked' = acked
  BY DEF Mount, Unmount, Age, Collect, ServeQuery, Receive, GiveUp, Owed, serverVars
<1>2. OptimisticPending' = OptimisticPending  BY <1>1 DEF OptimisticPending, Pending
<1>3. EffectOK' /\ StageOK'  BY <1>1 DEF IInv, EffectOK, StageOK
<1>4. CASE Mount
  BY <1>1, <1>2, <1>3, <1>4, QueryCacheAssumption
  DEF Mount, IInv, InFlight, Accounted, Excused, Ask, KeepRequest, requestVars
<1>5. CASE Unmount
  BY <1>1, <1>2, <1>3, <1>5 DEF Unmount, IInv, InFlight, Accounted, Excused, requestVars
<1>6. CASE Age
  BY <1>1, <1>2, <1>3, <1>6 DEF Age, IInv, InFlight, Accounted, Excused, requestVars
<1>7. CASE Collect
  BY <1>1, <1>2, <1>3, <1>7 DEF Collect, IInv, InFlight, Accounted, Excused, requestVars
<1>8. CASE ServeQuery
  BY <1>1, <1>2, <1>3, <1>8 DEF ServeQuery, IInv, InFlight, Accounted, Excused
<1>9. CASE Receive
  BY <1>1, <1>2, <1>3, <1>9, QueryCacheAssumption
  DEF Receive, NoRequest, IInv, InFlight, Accounted, Excused
<1>10. CASE GiveUp
  BY <1>1, <1>2, <1>3, <1>10, QueryCacheAssumption
  DEF GiveUp, NoRequest, IInv, InFlight, Accounted, Excused
<1> QED  BY <1>4, <1>5, <1>6, <1>7, <1>8, <1>9, <1>10

(* A call leaves: an optimistic one is pending from now on.                  *)
LEMMA SendStep ==
  ASSUME IInv, NEW m \in Mutations, Send(m)
  PROVE  IInv'
<1>1. /\ Owed' = Owed /\ effect' = effect /\ reply' = reply /\ truth' = truth /\ acked' = acked
      /\ stage' = [stage EXCEPT ![m] = "sent"]
  BY DEF Send, Owed, serverVars
<1>2. EffectOK' /\ StageOK'  BY <1>1 DEF IInv, EffectOK, StageOK, Stages
<1>3. CASE ~effect[m].optimistic
  <2>1. OptimisticPending => OptimisticPending'
    BY <1>1 DEF Send, OptimisticPending, Pending, IInv, StageOK
  <2> QED
    BY <1>1, <1>2, <1>3, <2>1
    DEF Send, IInv, StageOK, InFlight, Accounted, Excused, requestVars
<1>4. CASE effect[m].optimistic
  <2>1. OptimisticPending'
    BY <1>1, <1>4 DEF OptimisticPending, Pending, IInv, StageOK
  <2>2. InFlight'
    BY <1>1, <1>4, QueryCacheAssumption DEF Send, IInv, StageOK, InFlight, NoRequest
  <2> QED  BY <1>2, <2>1, <2>2 DEF IInv, Accounted, Excused
<1> QED  BY <1>3, <1>4

(* The server applies a call: its answer shows every owed write.             *)
LEMMA ServeSteps ==
  ASSUME IInv, NEW m \in Mutations, Serve(m) \/ Refuse(m)
  PROVE  IInv'
<1>1. Owed' = Owed /\ effect' = effect /\ acked' = acked  BY DEF Serve, Refuse, Owed, serverVars
<1>2. OptimisticPending' = OptimisticPending
  BY <1>1 DEF Serve, Refuse, OptimisticPending, Pending, IInv, StageOK
<1>3. CASE Serve(m)
  <2>1. /\ stage' = [stage EXCEPT ![m] = "applied"] /\ reply' = [reply EXCEPT ![m] = truth']
        /\ truth \subseteq truth' /\ (effect[m].reaches => m \in truth')
    BY <1>3 DEF Serve
  <2>2. truth' \subseteq Mutations  BY <1>3 DEF Serve, IInv, StageOK
  <2>3. InFlight'
    BY <1>1, <1>3, <2>1 DEF Serve, IInv, StageOK, InFlight, requestVars
  <2>4. Accounted'
    BY <1>1, <1>2, <1>3 DEF Serve, IInv, Accounted, Excused, requestVars
  <2>5. EffectOK' /\ StageOK'
    BY <1>1, <2>1, <2>2 DEF IInv, EffectOK, StageOK, Stages
  <2> QED  BY <2>3, <2>4, <2>5 DEF IInv
<1>4. CASE Refuse(m)
  BY <1>1, <1>2, <1>4
  DEF Refuse, IInv, EffectOK, StageOK, Stages, InFlight, Accounted, Excused, requestVars, serverVars
<1> QED  BY <1>3, <1>4

(* The hook of an acknowledged call runs: a newly owed write is set, asked    *)
(* for, or marked as missing; what was under way before is late.             *)
LEMMA SucceedStep ==
  ASSUME IInv, NEW m \in Mutations, Succeed(m)
  PROVE  IInv'
<1>1. /\ effect' = effect /\ reply' = reply /\ truth' = truth
      /\ acked' = acked \cup {m} /\ stage[m] = "applied"
      /\ stage' = [stage EXCEPT ![m] = "done"]
  BY DEF Succeed, serverVars
<1>2. EffectOK' /\ StageOK'  BY <1>1 DEF IInv, EffectOK, StageOK, Stages
<1>3. \A n \in Mutations : n # m => stage'[n] = stage[n]  BY <1>1 DEF IInv, StageOK
<1>4. stage'[m] = "done"  BY <1>1 DEF IInv, StageOK
<1>5. Owed' \subseteq Owed \cup {m} /\ (m \in Owed' => effect[m].reaches /\ ~effect[m].gap)
  BY <1>1 DEF Owed
<1>6. Owed' = Owed \/ effect[m].reaches  BY <1>1 DEF Owed
<1>7. \/ fetch' = "asked" \/ (fetch' = fetch /\ got' = got)
  BY DEF Succeed, KeepRequest, requestVars, Restart, Ask
<1>8. /\ \A n \in Mutations \ {m} : n \in late => n \in late'
      /\ fetch' # "asked" => (0 \in late => 0 \in late')
      /\ effect[m].reaches => \A n \in Mutations \ {m} : stage[n] = "applied" => n \in late'
      /\ effect[m].reaches /\ fetch # "idle" /\ fetch' # "asked" => 0 \in late'
  <2>1. MarkLate(m)  BY DEF Succeed
  <2>2. \A n \in Mutations : stage[n] = "applied" => Pending(n)  BY DEF Pending
  <2> QED  BY <2>1, <2>2, QueryCacheAssumption DEF MarkLate, Uncancelled
<1>9. InFlight'
  <2>1. Owed' \subseteq truth' /\ acked' \subseteq Mutations /\ fetch' \in {"idle", "asked", "read"}
    BY <1>1, <1>5, <1>7 DEF IInv, InFlight
  <2>2. fetch' = "read" /\ 0 \notin late' => Owed' \subseteq got'
    BY <1>6, <1>7, <1>8 DEF IInv, InFlight
  <2>3. ASSUME NEW n \in Mutations, stage'[n] = "applied"
        PROVE  /\ effect'[n].reaches => n \in reply'[n]
               /\ effect'[n].reaches => n \in truth'
               /\ n \notin late' => Owed' \subseteq reply'[n]
    BY <1>1, <1>3, <1>4, <1>6, <1>8, <2>3 DEF IInv, InFlight
  <2> QED  BY <2>1, <2>2, <2>3 DEF InFlight
<1>10. Accounted'
  <2>1. CASE effect[m].sets
    <3>1. data' = reply[m] /\ (m \in late => overlapped')  BY <2>1 DEF Succeed
    <3>2. m \notin late => Owed' \subseteq reply[m]
      BY <1>1, <1>5 DEF IInv, InFlight
    <3> QED  BY <3>1, <3>2 DEF Accounted, Excused
  <2>2. CASE ~effect[m].sets /\ effect[m].invalidates
    BY <2>2 DEF Succeed, Accounted, Excused, KeepRequest, requestVars, Restart, Ask
  <2>3. CASE ~effect[m].sets /\ ~effect[m].invalidates /\ effect[m].refetches
    <3>1. fetch' # "idle"
      BY <2>3 DEF Succeed, KeepRequest, requestVars, Restart, Ask
    <3> QED  BY <3>1 DEF Accounted, Excused
  <2>4. CASE ~effect[m].sets /\ ~effect[m].invalidates /\ ~effect[m].refetches
    <3>1. effect[m].reaches => effect[m].gap  BY <2>4 DEF IInv, EffectOK
    <3>2. Owed' = Owed  BY <1>1, <3>1 DEF Owed
    <3>3. ~effect[m].optimistic  BY <2>4 DEF IInv, EffectOK
    <3>4. OptimisticPending => OptimisticPending'
      BY <1>1, <1>3, <3>3 DEF OptimisticPending, Pending
    <3>5. /\ data' = data /\ gaveUp' = gaveUp /\ overlapped' = overlapped
          /\ invalid => invalid'
          /\ fetch' = fetch
      BY <2>4 DEF Succeed, KeepRequest, requestVars
    <3> QED  BY <3>2, <3>4, <3>5 DEF IInv, Accounted, Excused
  <2> QED  BY <2>1, <2>2, <2>3, <2>4
<1> QED  BY <1>2, <1>9, <1>10 DEF IInv

(* A call fails: the snapshot that comes back is marked as out of date.      *)
LEMMA FailStep ==
  ASSUME IInv, NEW m \in Mutations, Fail(m)
  PROVE  IInv'
<1>1. /\ Owed' = Owed /\ effect' = effect /\ reply' = reply /\ truth' = truth
      /\ acked' = acked /\ stage' = [stage EXCEPT ![m] = "failed"]
  BY DEF Fail, Owed, serverVars
<1>2. EffectOK' /\ StageOK'  BY <1>1 DEF IInv, EffectOK, StageOK, Stages
<1>3. \A n \in Mutations : stage'[n] = "applied" => stage[n] = "applied"
  BY <1>1 DEF IInv, StageOK
<1>4. CASE ~effect[m].optimistic
  <2>1. OptimisticPending => OptimisticPending'
    BY <1>1, <1>4 DEF OptimisticPending, Pending, IInv, StageOK
  <2> QED
    BY <1>1, <1>2, <1>3, <1>4, <2>1
    DEF Fail, IInv, InFlight, Accounted, Excused, requestVars
<1>5. CASE effect[m].optimistic
  <2>1. /\ fetch' = "asked" \/ (fetch' = fetch /\ got' = got)
        /\ fetch' # "asked" => late' = late
        /\ \A n \in Mutations : n \in late => n \in late'
    <3>1. IF active THEN Restart(data', TRUE) ELSE KeepRequest  BY <1>5 DEF Fail
    <3>2. late' = IF fetch' = "asked" THEN late \ {0} ELSE late  BY <1>5 DEF Fail
    <3>3. fetch' = "asked" \/ (fetch' = fetch /\ got' = got)
      BY <3>1 DEF KeepRequest, requestVars, Restart, Ask
    <3> QED  BY <3>2, <3>3, QueryCacheAssumption
  <2>2. InFlight'
    BY <1>1, <1>3, <2>1, QueryCacheAssumption DEF IInv, InFlight
  <2>3. data' = Nothing \/ invalid'  BY <1>5 DEF Fail
  <2> QED  BY <1>2, <2>2, <2>3 DEF IInv, Accounted, Excused
<1> QED  BY <1>4, <1>5

LEMMA NextIInv == IInv /\ [Next]_vars => IInv'
<1> SUFFICES ASSUME IInv, [Next]_vars PROVE IInv'  OBVIOUS
<1>1. CASE Mount \/ Unmount \/ Age \/ Collect \/ ServeQuery \/ Receive \/ GiveUp
  BY <1>1, QuerySteps
<1>2. ASSUME NEW m \in Mutations,
             Send(m) \/ Serve(m) \/ Refuse(m) \/ Succeed(m) \/ Fail(m)
      PROVE  IInv'
  BY <1>2, SendStep, ServeSteps, SucceedStep, FailStep
<1>3. CASE UNCHANGED vars
  BY <1>3 DEF vars, IInv, EffectOK, StageOK, InFlight, Accounted, Excused,
              OptimisticPending, Pending, Owed, serverVars, requestVars
<1> QED  BY <1>1, <1>2, <1>3 DEF Next

LEMMA IInvIsEnough == IInv => OwnWritesSeen
BY DEF IInv, Accounted, Excused, OptimisticPending, OwnWritesSeen, Settled

(* A write the user was told of is on the page as soon as nothing marks the  *)
(* page as out of date.                                                      *)
THEOREM PageShowsOwnWrites == Spec => []OwnWritesSeen
<1>1. Spec => []IInv  BY InitIInv, NextIInv, PTL DEF Spec
<1> QED  BY <1>1, IInvIsEnough, PTL

-----------------------------------------------------------------------------
(* What the page may show too much of: something the server does not have    *)
(* stays on it only while the page knows better.                             *)
ShownIsStored ==
  /\ fetch = "read" => got \subseteq truth
  /\ \A m \in Mutations : reply[m] \subseteq truth
  /\ Excused \/ data \subseteq truth

LEMMA StoredSteps ==
  ASSUME IInv, ShownIsStored,
         Mount \/ Unmount \/ Age \/ Collect \/ ServeQuery \/ Receive \/ GiveUp
  PROVE  ShownIsStored'
<1>1. stage' = stage /\ effect' = effect /\ reply' = reply /\ truth' = truth
  BY DEF Mount, Unmount, Age, Collect, ServeQuery, Receive, GiveUp, serverVars
<1>2. OptimisticPending' = OptimisticPending  BY <1>1 DEF OptimisticPending, Pending
<1>3. CASE Mount
  BY <1>1, <1>2, <1>3 DEF Mount, ShownIsStored, Excused, Ask, KeepRequest, requestVars
<1>4. CASE Unmount \/ Age \/ Collect
  BY <1>1, <1>2, <1>4 DEF Unmount, Age, Collect, ShownIsStored, Excused, requestVars
<1>5. CASE ServeQuery \/ Receive \/ GiveUp
  BY <1>1, <1>2, <1>5 DEF ServeQuery, Receive, GiveUp, NoRequest, ShownIsStored, Excused
<1> QED  BY <1>3, <1>4, <1>5

(* A hook that shows its change early is pending until its end, and leaves   *)
(* the page invalid then.                                                    *)
LEMMA StoredMutationSteps ==
  ASSUME IInv, ShownIsStored, NEW m \in Mutations,
         Send(m) \/ Serve(m) \/ Refuse(m) \/ Succeed(m) \/ Fail(m)
  PROVE  ShownIsStored'
<1>1. effect' = effect /\ stage \in [Mutations -> Stages] /\ truth \subseteq truth'
  BY DEF Send, Serve, Refuse, Succeed, Fail, IInv, StageOK, serverVars
<1>2. ASSUME UNCHANGED truth, UNCHANGED reply, fetch' = "read" => fetch = "read" /\ got' = got,
             Excused' \/ data' \subseteq truth
      PROVE  ShownIsStored'
  BY <1>2 DEF ShownIsStored
<1>3. CASE ~effect[m].optimistic /\ (Send(m) \/ Refuse(m) \/ Fail(m))
  <2>1. OptimisticPending => OptimisticPending'
    BY <1>1, <1>3 DEF Send, Refuse, Fail, OptimisticPending, Pending
  <2> QED
    BY <1>2, <1>3, <2>1 DEF Send, Refuse, Fail, ShownIsStored, Excused, requestVars, serverVars
<1>4. CASE effect[m].optimistic /\ (Send(m) \/ Refuse(m))
  <2>1. OptimisticPending'
    BY <1>1, <1>4 DEF Send, Refuse, OptimisticPending, Pending
  <2> QED
    BY <1>2, <1>4, <2>1 DEF Send, Refuse, Excused, NoRequest, requestVars, serverVars
<1>5. CASE effect[m].optimistic /\ Fail(m)
  BY <1>2, <1>5 DEF Fail, Excused, Restart, Ask, KeepRequest, requestVars, serverVars
<1>6. CASE Serve(m)
  <2>1. OptimisticPending' = OptimisticPending
    BY <1>1, <1>6 DEF Serve, OptimisticPending, Pending
  <2>2. reply' = [reply EXCEPT ![m] = truth'] /\ reply \in [Mutations -> SUBSET Mutations]
    BY <1>6 DEF Serve, IInv, StageOK
  <2> QED
    BY <1>1, <1>6, <2>1, <2>2 DEF Serve, ShownIsStored, Excused, requestVars
<1>7. CASE Succeed(m) /\ effect[m].sets
  BY <1>2, <1>7 DEF Succeed, ShownIsStored, KeepRequest, requestVars, serverVars
<1>8. CASE Succeed(m) /\ ~effect[m].sets
  <2>1. fetch' = "asked" \/ (fetch' = fetch /\ got' = got)
    BY <1>8 DEF Succeed, KeepRequest, requestVars, Restart, Ask
  <2>2. CASE effect[m].optimistic
    BY <1>2, <1>8, <2>1, <2>2 DEF Succeed, IInv, EffectOK, Excused, serverVars
  <2>3. CASE ~effect[m].optimistic
    <3>1. OptimisticPending => OptimisticPending'
      BY <1>1, <1>8, <2>3 DEF Succeed, OptimisticPending, Pending
    <3> QED
      BY <1>2, <1>8, <2>1, <3>1 DEF Succeed, ShownIsStored, Excused, serverVars
  <2> QED  BY <2>2, <2>3
<1> QED  BY <1>3, <1>4, <1>5, <1>6, <1>7, <1>8

(* A settled page shows nothing the server does not have, however patches,   *)
(* their snapshots and their refusals cross.                                 *)
THEOREM PageShowsNoPhantoms == Spec => []NoPhantomWrites
<1>1. Init => ShownIsStored
  BY DEF Init, ShownIsStored, Excused
<1>2. IInv /\ ShownIsStored /\ [Next]_vars => ShownIsStored'
  <2> SUFFICES ASSUME IInv, ShownIsStored, [Next]_vars PROVE ShownIsStored'  OBVIOUS
  <2>1. CASE UNCHANGED vars
    BY <2>1 DEF vars, ShownIsStored, Excused, OptimisticPending, Pending
  <2> QED  BY <2>1, StoredSteps, StoredMutationSteps DEF Next
<1>3. ShownIsStored => NoPhantomWrites
  BY DEF ShownIsStored, Excused, OptimisticPending, NoPhantomWrites, Settled
<1> QED  BY <1>1, <1>2, <1>3, InitIInv, NextIInv, PTL DEF Spec

-----------------------------------------------------------------------------
(* The refinement.  A write is acknowledged once, when its hook has run.     *)
AckedAreDone == \A m \in acked : stage[m] = "done"
AnswersAreOwed == \A m \in Mutations : effect[m].sets => effect[m].reaches /\ ~effect[m].gap

LEMMA AckedStep ==
  ASSUME IInv, AckedAreDone, AnswersAreOwed, [Next]_vars
  PROVE  AckedAreDone' /\ AnswersAreOwed'
<1>1. stage \in [Mutations -> Stages] /\ acked \subseteq Mutations
  BY DEF IInv, StageOK, InFlight
<1>2. CASE \/ Mount \/ Unmount \/ Age \/ Collect \/ ServeQuery \/ Receive \/ GiveUp
          \/ UNCHANGED vars
  BY <1>2 DEF Mount, Unmount, Age, Collect, ServeQuery, Receive, GiveUp, vars, AckedAreDone,
             AnswersAreOwed
<1>3. ASSUME NEW m \in Mutations, Send(m) \/ Serve(m) \/ Refuse(m) \/ Succeed(m) \/ Fail(m)
      PROVE  AckedAreDone' /\ AnswersAreOwed'
  <2>1. /\ effect' = effect
        /\ stage[m] # "done"
        /\ \/ acked' = acked /\ \E x \in Stages : stage' = [stage EXCEPT ![m] = x]
           \/ acked' = acked \cup {m} /\ stage' = [stage EXCEPT ![m] = "done"]
    BY <1>3 DEF Send, Serve, Refuse, Succeed, Fail, Stages
  <2> QED  BY <1>1, <2>1 DEF AckedAreDone, AnswersAreOwed
<1> QED  BY <1>2, <1>3 DEF Next

(* What the page shows changes only with an acknowledgement, or in a step    *)
(* before or after which something tells that it may be out of date.         *)
LEMMA SettledKeepsView ==
  ASSUME IInv, AckedAreDone, AnswersAreOwed, [Next]_vars, Settled, Settled', Owed' = Owed
  PROVE  data' = data
<1>1. CASE \/ Mount \/ Unmount \/ Age \/ Collect \/ ServeQuery \/ Receive \/ GiveUp
          \/ UNCHANGED vars
  BY <1>1 DEF Mount, Unmount, Age, Collect, ServeQuery, Receive, GiveUp, vars, Settled
<1>2. ASSUME NEW m \in Mutations, Send(m) \/ Serve(m) \/ Refuse(m) \/ Succeed(m) \/ Fail(m)
      PROVE  data' = data
  <2>1. stage \in [Mutations -> Stages] /\ effect' = effect
    BY <1>2 DEF IInv, StageOK, Send, Serve, Refuse, Succeed, Fail
  <2>2. CASE Serve(m) \/ Refuse(m)
    BY <2>2 DEF Serve, Refuse
  <2>3. CASE Send(m)
    <3>1. Pending(m)'  BY <2>1, <2>3 DEF Send, Pending
    <3> QED  BY <2>1, <2>3, <3>1 DEF Send, Settled
  <2>4. CASE Fail(m)
    <3>1. Pending(m)  BY <2>4 DEF Fail, Pending
    <3> QED  BY <2>4, <3>1 DEF Fail, Settled
  <2>5. CASE Succeed(m)
    <3>1. m \notin acked /\ acked' = acked \cup {m}  BY <2>5 DEF Succeed, AckedAreDone
    <3>2. ~(effect[m].reaches /\ ~effect[m].gap)  BY <2>1, <3>1 DEF Owed
    <3> QED  BY <2>5, <3>2 DEF Succeed, AnswersAreOwed
  <2> QED  BY <1>2, <2>2, <2>3, <2>4, <2>5
<1> QED  BY <1>1, <1>2 DEF Next

LEMMA OwedGrows ==
  ASSUME IInv, AckedAreDone, [Next]_vars
  PROVE  Owed' = Owed \/ \E w \in Mutations \ Owed : Owed' = Owed \cup {w}
<1>1. acked \subseteq Mutations  BY DEF IInv, InFlight
<1>2. CASE \/ Mount \/ Unmount \/ Age \/ Collect \/ ServeQuery \/ Receive \/ GiveUp
          \/ UNCHANGED vars
  BY <1>2 DEF Mount, Unmount, Age, Collect, ServeQuery, Receive, GiveUp, vars, Owed
<1>3. ASSUME NEW m \in Mutations, Send(m) \/ Serve(m) \/ Refuse(m) \/ Succeed(m) \/ Fail(m)
      PROVE  Owed' = Owed \/ \E w \in Mutations \ Owed : Owed' = Owed \cup {w}
  <2>1. effect' = effect  BY <1>3 DEF Send, Serve, Refuse, Succeed, Fail
  <2>2. CASE acked' = acked  BY <2>1, <2>2 DEF Owed
  <2>3. CASE Succeed(m)
    <3>1. m \notin acked /\ acked' = acked \cup {m}  BY <2>3 DEF Succeed, AckedAreDone
    <3> QED  BY <2>1, <3>1 DEF Owed
  <2> QED  BY <1>3, <2>2, <2>3 DEF Send, Serve, Refuse, Fail
<1> QED  BY <1>2, <1>3 DEF Next

(* The cached query keeps the promise of ReadYourWrites: a settled page shows *)
(* every write the user was told of, and what it shows only changes when it  *)
(* is told of another or something marks the page (hooks.ts).                *)
THEOREM CacheKeepsPromise == Spec => ReadsOwnWrites
<1>1. Init => Promise!Init /\ AckedAreDone /\ AnswersAreOwed
  <2> SUFFICES ASSUME Init PROVE Promise!Init /\ AckedAreDone /\ AnswersAreOwed  OBVIOUS
  <2>1. PICK W \in Workloads : effect \in [Mutations -> W]  BY DEF Init
  <2>2. AnswersAreOwed  BY <2>1, QueryCacheAssumption DEF AnswersAreOwed
  <2>3. Owed = {} /\ Settled = FALSE  BY DEF Init, Owed, Settled
  <2> QED  BY <2>2, <2>3 DEF Init, Promise!Init, AckedAreDone
<1>2. IInv /\ IInv' /\ AckedAreDone /\ AnswersAreOwed /\ [Next]_vars
        => [Promise!Next]_(Promise!promise)
  <2> SUFFICES ASSUME IInv, IInv', AckedAreDone, AnswersAreOwed, [Next]_vars
               PROVE  [Promise!Next]_(Promise!promise)
    OBVIOUS
  <2>1. Settled' => data' # Nothing /\ Owed' \subseteq data'
    BY IInvIsEnough DEF OwnWritesSeen, Settled, IInv, Accounted, Excused, OptimisticPending
  <2>2. Settled \in BOOLEAN /\ Settled' \in BOOLEAN
    BY DEF Settled
  <2>3. CASE \E w \in Mutations \ Owed : Owed' = Owed \cup {w}
    BY <2>1, <2>2, <2>3 DEF Promise!Next, Promise!Acknowledge, Promise!Shown
  <2>4. CASE Owed' = Owed /\ ~Settled'
    BY <2>2, <2>4 DEF Promise!Next, Promise!Doubt
  <2>5. CASE Owed' = Owed /\ Settled' /\ ~Settled
    BY <2>1, <2>2, <2>5 DEF Promise!Next, Promise!Settle, Promise!Shown
  <2>6. CASE Owed' = Owed /\ Settled' /\ Settled
    BY <2>2, <2>6, SettledKeepsView DEF Promise!promise
  <2> QED  BY <2>3, <2>4, <2>5, <2>6, OwedGrows
<1>3. AckedAreDone /\ AnswersAreOwed /\ IInv /\ [Next]_vars => AckedAreDone' /\ AnswersAreOwed'
  BY AckedStep
<1> QED
  BY <1>1, <1>2, <1>3, InitIInv, NextIInv, PTL DEF Spec, ReadsOwnWrites, Promise!Spec

-----------------------------------------------------------------------------
LEMMA TypesInitially == Init => TypeOK
<1> SUFFICES ASSUME Init PROVE TypeOK  OBVIOUS
<1>1. PICK W \in Workloads : effect \in [Mutations -> W]  BY DEF Init
<1>2. effect \in [Mutations -> EffectType]  BY <1>1, QueryCacheAssumption
<1> QED  BY <1>2 DEF Init, TypeOK, Stages, Views

(* The server's part and what it answered.                                   *)
LEMMA ServerTypes ==
  ASSUME TypeOK, Next
  PROVE  /\ effect' \in [Mutations -> EffectType] /\ stage' \in [Mutations -> Stages]
         /\ truth' \subseteq Mutations /\ reply' \in [Mutations -> SUBSET Mutations]
         /\ acked' \subseteq Mutations
<1>1. CASE Mount \/ Unmount \/ Age \/ Collect \/ ServeQuery \/ Receive \/ GiveUp
  BY <1>1 DEF Mount, Unmount, Age, Collect, ServeQuery, Receive, GiveUp, TypeOK, serverVars
<1>2. ASSUME NEW m \in Mutations, Send(m) \/ Serve(m) \/ Refuse(m) \/ Succeed(m) \/ Fail(m)
      PROVE  /\ stage' \in [Mutations -> Stages] /\ truth' \subseteq Mutations
             /\ reply' \in [Mutations -> SUBSET Mutations] /\ acked' \subseteq Mutations
             /\ effect' = effect
  <2>1. \E x \in Stages : stage' = [stage EXCEPT ![m] = x]
    BY <1>2 DEF Send, Serve, Refuse, Succeed, Fail, Stages
  <2>2. truth' \subseteq Mutations /\ (reply' = reply \/ reply' = [reply EXCEPT ![m] = truth'])
    BY <1>2 DEF Send, Serve, Refuse, Succeed, Fail, TypeOK, serverVars
  <2>3. (acked' = acked \/ acked' = acked \cup {m}) /\ effect' = effect
    BY <1>2 DEF Send, Serve, Refuse, Succeed, Fail
  <2> QED  BY <2>1, <2>2, <2>3 DEF TypeOK
<1> QED  BY <1>1, <1>2 DEF Next, TypeOK

(* The request of the query, in every way a step may leave it.               *)
RequestOK == /\ fetch \in {"idle", "asked", "read"} /\ got \subseteq Mutations
             /\ base \in [data : Views, invalid : BOOLEAN]
LEMMA RequestTypes ==
  ASSUME TypeOK, NEW d \in Views, NEW i \in BOOLEAN,
         KeepRequest \/ NoRequest \/ Ask(d, i) \/ Restart(d, i)
  PROVE  RequestOK'
<1>1. Nothing \in Views /\ {} \subseteq Mutations  BY DEF Views
<1>2. [data |-> d, invalid |-> i] \in [data : Views, invalid : BOOLEAN]
      /\ [data |-> Nothing, invalid |-> FALSE] \in [data : Views, invalid : BOOLEAN]
  BY <1>1
<1>3. CASE KeepRequest  BY <1>3 DEF KeepRequest, requestVars, RequestOK, TypeOK
<1>4. CASE NoRequest  BY <1>1, <1>2, <1>4 DEF NoRequest, RequestOK
<1>5. CASE Ask(d, i)  BY <1>1, <1>2, <1>5 DEF Ask, RequestOK
<1>6. CASE Restart(d, i)  BY <1>3, <1>5, <1>6 DEF Restart
<1> QED  BY <1>3, <1>4, <1>5, <1>6

(* The cached answer and its flags.                                          *)
ViewOK == /\ data \in Views /\ previous \in [Mutations -> Views]
          /\ invalid \in BOOLEAN /\ old \in BOOLEAN /\ active \in BOOLEAN
          /\ gaveUp \in BOOLEAN /\ overlapped \in BOOLEAN
LEMMA TypesByParts == ASSUME Next, TypeOK, RequestOK', ViewOK', late' \subseteq Mutations \cup {0}
                      PROVE  TypeOK'
BY ServerTypes DEF RequestOK, ViewOK, TypeOK

(* The steps of the query itself.                                            *)
LEMMA QueryTypes ==
  ASSUME TypeOK, Mount \/ Unmount \/ Age \/ Collect \/ ServeQuery \/ Receive \/ GiveUp
  PROVE  TypeOK'
<1>1. Next  BY DEF Next
<1>2. late' \subseteq Mutations \cup {0}
  BY DEF Mount, Unmount, Age, Collect, ServeQuery, Receive, GiveUp, TypeOK
<1>3. data \in Views /\ invalid \in BOOLEAN  BY DEF TypeOK
<1>4. CASE Mount
  <2>1. RequestOK'  BY <1>3, <1>4, RequestTypes DEF Mount
  <2>2. ViewOK'  BY <1>4 DEF Mount, ViewOK, TypeOK
  <2> QED  BY <1>1, <1>2, <2>1, <2>2, TypesByParts
<1>5. CASE Unmount \/ Age \/ Collect \/ ServeQuery
  <2>1. RequestOK'
    BY <1>5 DEF Unmount, Age, Collect, ServeQuery, requestVars, RequestOK, TypeOK
  <2>2. ViewOK'  BY <1>5 DEF Unmount, Age, Collect, ServeQuery, ViewOK, TypeOK, Views
  <2> QED  BY <1>1, <1>2, <2>1, <2>2, TypesByParts
<1>6. CASE Receive \/ GiveUp
  <2>1. RequestOK'  BY <1>3, <1>6, RequestTypes DEF Receive, GiveUp
  <2>2. overlapped' \in BOOLEAN
    <3>1. (0 \in late) \in BOOLEAN  OBVIOUS
    <3>2. overlapped' = (0 \in late) \/ overlapped' = overlapped  BY <1>6 DEF Receive, GiveUp
    <3> QED  BY <3>1, <3>2 DEF TypeOK
  <2>3. data' \in Views  BY <1>3, <1>6 DEF Receive, GiveUp, TypeOK, Views
  <2>4. ViewOK'  BY <1>6, <2>2, <2>3 DEF Receive, GiveUp, ViewOK, TypeOK
  <2> QED  BY <1>1, <1>2, <2>1, <2>4, TypesByParts
<1> QED  BY <1>4, <1>5, <1>6

(* The steps of a mutation: what an optimistic hook keeps and puts back is a *)
(* view.                                                                     *)
LEMMA MutationTypes ==
  ASSUME TypeOK, NEW m \in Mutations,
         Send(m) \/ Serve(m) \/ Refuse(m) \/ Succeed(m) \/ Fail(m)
  PROVE  TypeOK'
<1>1. Next  BY DEF Next
<1>2. /\ data \in Views /\ invalid \in BOOLEAN /\ base.data \in Views /\ base.invalid \in BOOLEAN
      /\ previous[m] \in Views /\ late \subseteq Mutations \cup {0}
  BY DEF TypeOK
<1>3. CASE Serve(m) \/ Refuse(m)
  <2>1. RequestOK' /\ ViewOK'
    BY <1>3 DEF Serve, Refuse, serverVars, requestVars, RequestOK, ViewOK, TypeOK
  <2>2. late' = late  BY <1>3 DEF Serve, Refuse
  <2> QED  BY <1>1, <1>2, <2>1, <2>2, TypesByParts
<1>4. CASE Send(m)
  <2> DEFINE seen == IF fetch = "idle" THEN data ELSE base.data
  <2>1. seen \in Views /\ (seen # Nothing => seen \cup {m} \in Views) /\ Nothing \in Views
    BY <1>2 DEF Views
  <2>2. RequestOK'
    BY <1>2, <1>4, RequestTypes DEF Send, KeepRequest
  <2>3. late' \subseteq Mutations \cup {0}  BY <1>2, <1>4 DEF Send
  <2>4. CASE ~effect[m].optimistic
    <3>1. ViewOK'  BY <1>4, <2>4 DEF Send, ViewOK, TypeOK
    <3> QED  BY <1>1, <2>2, <2>3, <3>1, TypesByParts
  <2>5. CASE effect[m].optimistic
    <3> HIDE DEF seen
    <3>1. /\ previous' = [previous EXCEPT ![m] = seen]
          /\ data' = IF seen = Nothing THEN Nothing ELSE seen \cup {m}
          /\ active' = active /\ overlapped' = overlapped
      BY <1>4, <2>5 DEF Send, seen
    <3>2. invalid' \in BOOLEAN  BY <1>4, <2>5 DEF Send
    <3>3. old' \in BOOLEAN  BY <1>4, <2>5 DEF Send
    <3>4. gaveUp' \in BOOLEAN  BY <1>4, <2>5 DEF Send
    <3>5. ViewOK'  BY <2>1, <3>1, <3>2, <3>3, <3>4 DEF ViewOK, TypeOK
    <3> QED  BY <1>1, <2>2, <2>3, <3>5, TypesByParts
  <2> QED  BY <2>4, <2>5
<1>5. CASE Succeed(m)
  <2>1. late' \subseteq Mutations \cup {0}
    BY <1>2, <1>5 DEF Succeed, MarkLate, Uncancelled
  <2>2. invalid' \in BOOLEAN
    BY <1>5 DEF Succeed
  <2>3. RequestOK'  BY <1>2, <1>5, <2>2, RequestTypes DEF Succeed
  <2>4. reply[m] \in Views  BY DEF TypeOK, Views
  <2>5. data' \in Views  BY <1>2, <1>5, <2>4 DEF Succeed
  <2>6. overlapped' \in BOOLEAN
    <3>1. (m \in late) \in BOOLEAN  OBVIOUS
    <3>2. overlapped' = (m \in late) \/ overlapped' = overlapped  BY <1>5 DEF Succeed
    <3> QED  BY <3>1, <3>2 DEF TypeOK
  <2>7. ViewOK'  BY <1>5, <2>2, <2>5, <2>6 DEF Succeed, ViewOK, TypeOK
  <2> QED  BY <1>1, <2>1, <2>3, <2>7, TypesByParts
<1>6. CASE Fail(m)
  <2>1. late' \subseteq Mutations \cup {0}  BY <1>2, <1>6 DEF Fail
  <2>2. data' \in Views /\ TRUE \in BOOLEAN  BY <1>2, <1>6 DEF Fail
  <2>3. RequestOK'
    BY <1>2, <1>6, <2>2, RequestTypes DEF Fail, KeepRequest
  <2>4. invalid' \in BOOLEAN  BY <1>6 DEF Fail, TypeOK
  <2>5. old' \in BOOLEAN  BY <1>6 DEF Fail, TypeOK
  <2>6. gaveUp' \in BOOLEAN  BY <1>6 DEF Fail, TypeOK
  <2>7. ViewOK'  BY <1>6, <2>2, <2>4, <2>5, <2>6 DEF Fail, ViewOK, TypeOK
  <2> QED  BY <1>1, <2>1, <2>3, <2>7, TypesByParts
<1> QED  BY <1>3, <1>4, <1>5, <1>6

(* The cached query, its request and the history of both keep their types.   *)
THEOREM QueryCacheTypes == Spec => []TypeOK
<1>1. ASSUME TypeOK, [Next]_vars PROVE TypeOK'
  <2>1. CASE UNCHANGED vars
    BY <1>1, <2>1 DEF vars, TypeOK
  <2> QED  BY <1>1, <2>1, QueryTypes, MutationTypes DEF Next
<1> QED  BY <1>1, TypesInitially, PTL DEF Spec
=============================================================================
