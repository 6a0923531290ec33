-------------------------- MODULE UpdateLockProofs --------------------------
(***************************************************************************)
(* Theorems about UpdateLock, for every set of callers and workers, every  *)
(* cool-down and every combination of failures.                            *)
(***************************************************************************)
EXTENDS UpdateLock, TLAPS

\* What the Redis command of a call may write is a value of the key.
LEMMA WrittenType ==
    ASSUME TypeOK, NEW u \in Updaters
    PROVE  /\ Written(u) \in KeyValues
           /\ pc[u] = "acquire" => Written(u) = "updating"
           /\ pc[u] \in {"cleanup", "finish"} => Written(u) \in {NoKey, "blocked"}
           /\ pc[u] \notin {"acquire", "cleanup", "finish"} => Written(u) = key
BY DEF TypeOK, Written, KeyValues, NoKey, AfterUpdate

\* Every variable keeps its range: the key is absent, "updating" or "blocked".
THEOREM TypeInvariant == Spec => []TypeOK
<1>1. Init => TypeOK
  BY DEF Init, TypeOK, KeyValues, NotRead
<1>2. TypeOK /\ [Next]_vars => TypeOK'
  <2> SUFFICES ASSUME TypeOK, [Next]_vars PROVE TypeOK'
    OBVIOUS
  <2> USE UpdatersAssumption DEF TypeOK
  <2>1. CASE UNCHANGED vars
    BY <2>1 DEF vars
  <2>2. ASSUME NEW u \in Updaters, Start(u) \/ Ping(u) \/ PingFails(u)
        PROVE  TypeOK'
    <3>1. CASE Start(u)
      BY <3>1 DEF Start, Goto, KeepKey, KeepBoot
    <3>2. CASE Ping(u)
      BY <3>2 DEF Ping, Goto, KeepKey, KeepBoot
    <3>3. CASE PingFails(u)
      BY <3>3 DEF PingFails, End, Goto, KeepKey, KeepBoot, NotRead
    <3>4. QED
      BY <2>2, <3>1, <3>2, <3>3
  <2>3. ASSUME NEW u \in Updaters, Check(u) \/ CheckFails(u)
        PROVE  TypeOK'
    <3>1. CASE Check(u)
      BY <3>1 DEF Check, Goto, End, KeepKey, KeepBoot, NotRead, MayUpdate
    <3>2. CASE CheckFails(u)
      BY <3>2 DEF CheckFails, Goto, KeepKey, KeepBoot
    <3>3. QED
      BY <2>3, <3>1, <3>2
  <2>4. ASSUME NEW u \in Updaters, Acquire(u) \/ AcquireFails(u)
        PROVE  TypeOK'
    <3>1. \A new \in {key, Written(u)} : SetKey(u, new) =>
             key' \in KeyValues /\ incidents' \subseteq {"race", "stolen", "cut"}
      BY WrittenType DEF SetKey, Note
    <3>2. CASE Acquire(u)
      BY <3>1, <3>2 DEF Acquire, Goto, KeepBoot
    <3>3. CASE AcquireFails(u)
      BY <3>1, <3>3 DEF AcquireFails, Goto, KeepBoot
    <3>4. QED
      BY <2>4, <3>2, <3>3
  <2>5. ASSUME NEW u \in Updaters, Fetch(u) \/ Sync(u) \/ SyncFails(u) \/ Upload(u)
        PROVE  TypeOK'
    <3>1. CASE Fetch(u)
      BY <3>1 DEF Fetch, Goto, KeepKey, KeepBoot
    <3>2. CASE Sync(u)
      BY <3>2 DEF Sync, Goto, KeepKey, KeepBoot
    <3>3. CASE SyncFails(u)
      BY <3>3 DEF SyncFails, Goto, KeepKey, KeepBoot
    <3>4. CASE Upload(u)
      BY <3>4 DEF Upload, Goto, KeepKey, KeepBoot
    <3>5. QED
      BY <2>5, <3>1, <3>2, <3>3, <3>4
  <2>6. ASSUME NEW u \in Updaters, Cleanup(u) \/ Finish(u)
        PROVE  TypeOK'
    <3>1. \A new \in {key, NoKey, Written(u)} : SetKey(u, new) =>
             key' \in KeyValues /\ incidents' \subseteq {"race", "stolen", "cut"}
      BY WrittenType DEF SetKey, Note, KeyValues
    <3>2. CASE Cleanup(u)
      BY <3>1, <3>2 DEF Cleanup, Goto, End, KeepBoot, NotRead
    <3>3. CASE Finish(u)
      BY <3>1, <3>3 DEF Finish, Goto, End, KeepBoot, NotRead
    <3>4. QED
      BY <2>6, <3>2, <3>3
  <2>7. ASSUME NEW u \in Updaters, ReleaseFails(u) \/ Cancel(u)
        PROVE  TypeOK'
    <3>1. CutOff(u) => key' \in KeyValues /\ incidents' \subseteq {"race", "stolen", "cut"}
      BY WrittenType DEF CutOff, Note
    <3>2. CASE ReleaseFails(u)
      BY <3>1, <3>2 DEF ReleaseFails, Goto, End, KeepBoot, NotRead
    <3>3. CASE Cancel(u)
      BY <3>1, <3>3 DEF Cancel, Goto, End, KeepBoot, NotRead
    <3>4. QED
      BY <2>7, <3>2, <3>3
  <2>8. CASE Expire \/ Serve
    BY <2>8 DEF Expire, Serve, KeyValues
  <2>9. ASSUME NEW w \in AppWorkers, WorkerStart(w) \/ WorkerDies(w)
        PROVE  TypeOK'
    BY <2>9 DEF WorkerStart, WorkerDies, KeyValues
  <2>10. CASE AppRestart
    BY <2>10, WrittenType DEF AppRestart, CutOff, Note, Goto, End, NotRead
  <2>11. QED
    BY <2>1, <2>2, <2>3, <2>4, <2>5, <2>6, <2>7, <2>8, <2>9, <2>10 DEF Next, Step
<1>3. QED
  BY <1>1, <1>2, PTL DEF Spec

-----------------------------------------------------------------------------
(* Exclusion                                                               *)

\* The strengthening: a call about to SET has seen a key that is not
\* "updating"; and until a mishap every working call owns the key, alone.
Exclusive ==
    /\ \A u \in Updaters : pc[u] = "acquire" => status[u] # "updating"
    /\ incidents \cap {"race", "stolen"} = {} =>
          \A u \in Updaters : Working(u) =>
              key = "updating" /\ \A v \in Updaters : Working(v) => u = v

\* Two updates run at once only after a race or a theft of the key: the
\* guarantee of update_glossary_from_xlsx (glossary.py:127-136, 197-211).
THEOREM Exclusion == Spec => []ExclusiveUntilMishap
<1>1. Init => Exclusive
  BY DEF Init, Exclusive, Working
<1>2. TypeOK /\ Exclusive /\ [Next]_vars => Exclusive'
  <2> SUFFICES ASSUME TypeOK, Exclusive, [Next]_vars PROVE Exclusive'
    OBVIOUS
  <2> USE UpdatersAssumption DEF TypeOK, Exclusive, Working
  <2>1. CASE UNCHANGED vars
    BY <2>1 DEF vars
  <2>2. ASSUME NEW u \in Updaters, Start(u) \/ Ping(u) \/ PingFails(u)
        PROVE  Exclusive'
    BY <2>2 DEF Start, Ping, PingFails, Goto, End, KeepKey, KeepBoot, NotRead
  <2>3. ASSUME NEW u \in Updaters, Check(u) \/ CheckFails(u)
        PROVE  Exclusive'
    BY <2>3 DEF Check, CheckFails, MayUpdate, Goto, End, KeepKey, KeepBoot
  <2>4. ASSUME NEW u \in Updaters, Acquire(u) \/ AcquireFails(u)
        PROVE  Exclusive'
    BY <2>4, WrittenType DEF Acquire, AcquireFails, SetKey, Note, Goto, KeepBoot
  <2>5. ASSUME NEW u \in Updaters, Fetch(u) \/ Sync(u) \/ SyncFails(u) \/ Upload(u)
        PROVE  Exclusive'
    BY <2>5 DEF Fetch, Sync, SyncFails, Upload, Goto, KeepKey, KeepBoot
  <2>6. ASSUME NEW u \in Updaters, Cleanup(u) \/ Finish(u)
        PROVE  Exclusive'
    BY <2>6, WrittenType DEF Cleanup, Finish, SetKey, Note, Goto, End, KeepBoot, NoKey
  <2>7. ASSUME NEW u \in Updaters, ReleaseFails(u) \/ Cancel(u)
        PROVE  Exclusive'
    BY <2>7, WrittenType DEF ReleaseFails, Cancel, CutOff, Note, Goto, End, KeepBoot, NoKey
  <2>8. CASE Expire \/ Serve
    BY <2>8 DEF Expire, Serve
  <2>9. ASSUME NEW w \in AppWorkers, WorkerStart(w) \/ WorkerDies(w)
        PROVE  Exclusive'
    BY <2>9 DEF WorkerStart, WorkerDies
  <2>10. CASE AppRestart
    BY <2>10, WrittenType DEF AppRestart, CutOff, Note, Goto, End, NoKey
  <2>11. QED
    BY <2>1, <2>2, <2>3, <2>4, <2>5, <2>6, <2>7, <2>8, <2>9, <2>10 DEF Next, Step
<1>3. Exclusive => ExclusiveUntilMishap
  BY DEF Exclusive, ExclusiveUntilMishap
<1>4. QED
  BY <1>1, <1>2, <1>3, TypeInvariant, PTL DEF Spec

-----------------------------------------------------------------------------
(* Release                                                                 *)

\* An "updating" left in Redis has a call that will release it, or one that was
\* cut off before it could (glossary.py:197-211).  HeldOrCut is inductive: each
\* call leaves Holding by overwriting the key or by being cut off.
THEOREM Release == Spec => []HeldOrCut
<1>1. Init => HeldOrCut
  BY DEF Init, HeldOrCut, NoKey
<1>2. TypeOK /\ HeldOrCut /\ [Next]_vars => HeldOrCut'
  <2> SUFFICES ASSUME TypeOK, HeldOrCut, [Next]_vars PROVE HeldOrCut'
    OBVIOUS
  <2> USE UpdatersAssumption DEF TypeOK, HeldOrCut, Holding
  <2>1. CASE UNCHANGED vars
    BY <2>1 DEF vars
  <2>2. ASSUME NEW u \in Updaters, Start(u) \/ Ping(u) \/ PingFails(u)
        PROVE  HeldOrCut'
    BY <2>2 DEF Start, Ping, PingFails, Goto, End, KeepKey, KeepBoot
  <2>3. ASSUME NEW u \in Updaters, Check(u) \/ CheckFails(u)
        PROVE  HeldOrCut'
    BY <2>3 DEF Check, CheckFails, MayUpdate, Goto, End, KeepKey, KeepBoot
  <2>4. ASSUME NEW u \in Updaters, Acquire(u) \/ AcquireFails(u)
        PROVE  HeldOrCut'
    BY <2>4, WrittenType DEF Acquire, AcquireFails, SetKey, Note, Goto, KeepBoot
  <2>5. ASSUME NEW u \in Updaters, Fetch(u) \/ Sync(u) \/ SyncFails(u) \/ Upload(u)
        PROVE  HeldOrCut'
    BY <2>5 DEF Fetch, Sync, SyncFails, Upload, Goto, KeepKey, KeepBoot
  <2>6. ASSUME NEW u \in Updaters, Cleanup(u) \/ Finish(u)
        PROVE  HeldOrCut'
    BY <2>6, WrittenType DEF Cleanup, Finish, SetKey, Note, Goto, End, KeepBoot, NoKey
  <2>7. ASSUME NEW u \in Updaters, ReleaseFails(u) \/ Cancel(u)
        PROVE  HeldOrCut'
    BY <2>7, WrittenType DEF ReleaseFails, Cancel, CutOff, Note, Goto, End, KeepBoot, NoKey
  <2>8. CASE Expire \/ Serve
    BY <2>8 DEF Expire, Serve, NoKey
  <2>9. ASSUME NEW w \in AppWorkers, WorkerStart(w) \/ WorkerDies(w)
        PROVE  HeldOrCut'
    BY <2>9 DEF WorkerStart, WorkerDies, NoKey
  <2>10. CASE AppRestart
    BY <2>10, WrittenType DEF AppRestart, CutOff, Note, Goto, End, NoKey
  <2>11. QED
    BY <2>1, <2>2, <2>3, <2>4, <2>5, <2>6, <2>7, <2>8, <2>9, <2>10 DEF Next, Step
<1>3. QED
  BY <1>1, <1>2, TypeInvariant, PTL DEF Spec

-----------------------------------------------------------------------------
(* Replies                                                                 *)

\* The strengthening: where a call stands tells whether it has committed.
RepliesKept ==
    /\ ReplyHonest
    /\ \A u \in Updaters :
          /\ pc[u] # "idle" => reply[u] = "pending"
          /\ pc[u] \in {"upload", "finish"} => committed[u]
          /\ pc[u] \in {"ping", "check"} => ~committed[u]

\* It is inductive: the place of a call and its commit move together.
LEMMA RepliesInvariant == Spec => []RepliesKept
<1>1. Init => RepliesKept
  BY DEF Init, RepliesKept, ReplyHonest
<1>2. TypeOK /\ RepliesKept /\ [Next]_vars => RepliesKept'
  <2> SUFFICES ASSUME TypeOK, RepliesKept, [Next]_vars PROVE RepliesKept'
    OBVIOUS
  <2> USE UpdatersAssumption DEF TypeOK, RepliesKept, ReplyHonest
  <2>1. CASE UNCHANGED vars
    BY <2>1 DEF vars
  <2>2. ASSUME NEW u \in Updaters, Start(u) \/ Ping(u) \/ PingFails(u)
        PROVE  RepliesKept'
    BY <2>2 DEF Start, Ping, PingFails, Goto, End
  <2>3. ASSUME NEW u \in Updaters, Check(u) \/ CheckFails(u)
        PROVE  RepliesKept'
    BY <2>3 DEF Check, CheckFails, MayUpdate, Goto, End
  <2>4. ASSUME NEW u \in Updaters, Acquire(u) \/ AcquireFails(u)
        PROVE  RepliesKept'
    BY <2>4 DEF Acquire, AcquireFails, Goto
  <2>5. ASSUME NEW u \in Updaters, Fetch(u) \/ Sync(u) \/ SyncFails(u) \/ Upload(u)
        PROVE  RepliesKept'
    <3>1. CASE Sync(u)
      BY <3>1 DEF Sync, Goto
    <3>2. CASE Fetch(u) \/ SyncFails(u)
      BY <3>2 DEF Fetch, SyncFails, Goto
    <3>3. CASE Upload(u)
      BY <3>3 DEF Upload, Goto
    <3>4. QED
      BY <2>5, <3>1, <3>2, <3>3
  <2>6. ASSUME NEW u \in Updaters, Cleanup(u) \/ Finish(u)
        PROVE  RepliesKept'
    BY <2>6 DEF Cleanup, Finish, Goto, End
  <2>7. ASSUME NEW u \in Updaters, ReleaseFails(u) \/ Cancel(u)
        PROVE  RepliesKept'
    <3>1. CASE ReleaseFails(u)
      BY <3>1 DEF ReleaseFails, Goto, End
    <3>2. CASE Cancel(u)
      BY <3>2 DEF Cancel, Goto, End
    <3>3. QED
      BY <2>7, <3>1, <3>2
  <2>8. CASE Expire \/ Serve
    BY <2>8 DEF Expire, Serve
  <2>9. ASSUME NEW w \in AppWorkers, WorkerStart(w) \/ WorkerDies(w)
        PROVE  RepliesKept'
    BY <2>9 DEF WorkerStart, WorkerDies
  <2>10. CASE AppRestart
    BY <2>10 DEF AppRestart, Goto, End
  <2>11. QED
    BY <2>1, <2>2, <2>3, <2>4, <2>5, <2>6, <2>7, <2>8, <2>9, <2>10 DEF Next, Step
<1>3. QED
  BY <1>1, <1>2, TypeInvariant, PTL DEF Spec

\* A caller told "modified" has committed, a refused one has not
\* (glossary.py:133, 197-216).
THEOREM Honesty == Spec => []ReplyHonest
<1>1. RepliesKept => ReplyHonest
  BY DEF RepliesKept
<1>2. QED
  BY <1>1, RepliesInvariant, PTL

-----------------------------------------------------------------------------
(* While Redis answers                                                     *)

\* The strengthening: a call that set the key has seen that it may, and until a
\* race whoever has not yet released it owns the key alone.
Owned ==
    /\ \A u \in Updaters :
          pc[u] \in Holding => status[u] # NotRead /\ MayUpdate(u, status[u])
    /\ AppWorkers = {} /\ "race" \notin incidents =>
          \A u \in Updaters : pc[u] \in Holding \ {"acquire"} =>
              /\ key = "updating"
              /\ \A v \in Updaters : pc[v] \in Holding \ {"acquire"} => u = v

\* It is inductive when no Redis command fails: then the except branch is reached
\* only from where the key is held (glossary.py:127-211).
LEMMA OwnedInvariant ==
    ASSUME "redis" \notin Faults
    PROVE  Spec => []Owned
<1>1. Init => Owned
  BY DEF Init, Owned, Holding
<1>2. TypeOK /\ Owned /\ [Next]_vars => Owned'
  <2> SUFFICES ASSUME TypeOK, Owned, [Next]_vars PROVE Owned'
    OBVIOUS
  <2> USE UpdatersAssumption DEF TypeOK, Owned, Holding, MayUpdate
  <2>1. CASE UNCHANGED vars
    BY <2>1 DEF vars
  <2>2. ASSUME NEW u \in Updaters, Start(u) \/ Ping(u) \/ PingFails(u)
        PROVE  Owned'
    BY <2>2 DEF Start, Ping, PingFails, Goto, KeepKey
  <2>3. ASSUME NEW u \in Updaters, Check(u) \/ CheckFails(u)
        PROVE  Owned'
    BY <2>3 DEF Check, CheckFails, Goto, End, KeepKey, NotRead, KeyValues, NoKey
  <2>4. ASSUME NEW u \in Updaters, Acquire(u) \/ AcquireFails(u)
        PROVE  Owned'
    BY <2>4, WrittenType DEF Acquire, AcquireFails, SetKey, Note, Goto
  <2>5. ASSUME NEW u \in Updaters, Fetch(u) \/ Sync(u) \/ SyncFails(u) \/ Upload(u)
        PROVE  Owned'
    BY <2>5 DEF Fetch, Sync, SyncFails, Upload, Goto, KeepKey
  <2>6. ASSUME NEW u \in Updaters, Cleanup(u) \/ Finish(u)
        PROVE  Owned'
    BY <2>6, WrittenType DEF Cleanup, Finish, SetKey, Note, Goto, End
  <2>7. ASSUME NEW u \in Updaters, ReleaseFails(u) \/ Cancel(u)
        PROVE  Owned'
    BY <2>7, WrittenType DEF ReleaseFails, Cancel, CutOff, Note, Goto, End
  <2>8. CASE Expire \/ Serve
    BY <2>8 DEF Expire, Serve
  <2>9. ASSUME NEW w \in AppWorkers, WorkerStart(w) \/ WorkerDies(w)
        PROVE  Owned'
    BY <2>9 DEF WorkerStart, WorkerDies
  <2>10. CASE AppRestart
    BY <2>10, WrittenType DEF AppRestart, CutOff, Note, Goto, End
  <2>11. QED
    BY <2>1, <2>2, <2>3, <2>4, <2>5, <2>6, <2>7, <2>8, <2>9, <2>10 DEF Next, Step
<1>3. QED
  BY <1>1, <1>2, TypeInvariant, PTL DEF Spec

\* When Redis answers and no gunicorn worker starts, the check-then-set race of
\* glossary.py:130-136 is the only way to two updates at once, whatever else
\* fails: EDU, the database, cancelled jobs and restarts included.
THEOREM OnlyTheRace ==
    ASSUME "redis" \notin Faults, AppWorkers = {}
    PROVE  Spec => []RaceIsTheOnlyHole
<1>1. Owned => RaceIsTheOnlyHole
  BY DEF Owned, RaceIsTheOnlyHole, Working, Holding
<1>2. Spec => []Owned
  BY OwnedInvariant
<1>3. QED
  BY <1>1, <1>2, PTL

\* When Redis answers, "updating" is taken away only by a call that was itself
\* admitted or by a starting gunicorn worker (glossary.py:199-211, main.py:22):
\* a refused call never does, cancelled or not.
THEOREM AdmittedRelease ==
    ASSUME "redis" \notin Faults
    PROVE  Spec => OnlyTheAdmittedRelease
<1> DEFINE Released == key = "updating" /\ key' # "updating"
           ByAdmitted(u) == /\ pc[u] \in {"cleanup", "finish"} /\ pc'[u] = "idle"
                            /\ status[u] # NotRead /\ MayUpdate(u, status[u])
<1>1. TypeOK /\ Owned /\ [Next]_vars =>
          (Released => up' # up \/ \E u \in Updaters : ByAdmitted(u))
  <2> SUFFICES ASSUME TypeOK, Owned, [Next]_vars, Released
               PROVE  up' # up \/ \E u \in Updaters : ByAdmitted(u)
    OBVIOUS
  <2> USE UpdatersAssumption DEF TypeOK
  <2>1. ASSUME NEW u \in Updaters, pc[u] \in {"cleanup", "finish"}, pc'[u] = "idle"
        PROVE  ByAdmitted(u)
    BY <2>1 DEF Owned, Holding
  <2>2. ASSUME NEW u \in Updaters, Start(u) \/ Step(u)
        PROVE  \E v \in Updaters : pc[v] \in {"cleanup", "finish"} /\ pc'[v] = "idle"
    <3>1. CASE Cleanup(u) \/ Finish(u)
      BY <3>1 DEF Cleanup, Finish, End, Goto
    <3>2. CASE Acquire(u)
      BY <3>2, WrittenType DEF Acquire, SetKey
    <3>3. QED
      BY <2>2, <3>1, <3>2 DEF Start, Step, Ping, PingFails, Check, CheckFails, AcquireFails,
         Fetch, Sync, SyncFails, Upload, ReleaseFails, KeepKey
  <2>3. ASSUME NEW u \in Updaters, Cancel(u) \/ (u = Boot /\ AppRestart)
        PROVE  pc[u] \in {"cleanup", "finish"} /\ pc'[u] = "idle"
    BY <2>3, WrittenType DEF Cancel, AppRestart, CutOff, End, Goto
  <2>4. ASSUME NEW w \in AppWorkers, WorkerStart(w) \/ WorkerDies(w)
        PROVE  up' # up
    BY <2>4 DEF WorkerStart, WorkerDies
  <2>5. ~(Expire \/ Serve \/ UNCHANGED vars)
    BY DEF Expire, Serve, vars
  <2>6. QED
    BY <2>1, <2>2, <2>3, <2>4, <2>5 DEF Next
<1>2. Spec => []Owned
  BY OwnedInvariant
<1>3. QED
  BY <1>1, <1>2, TypeInvariant, PTL DEF Spec, OnlyTheAdmittedRelease

=============================================================================
