------------------------ MODULE DetachedUpdateProofs ------------------------
(***************************************************************************)
(* Theorems about DetachedUpdate.  The calls that arq makes are calls of   *)
(* UpdateLock, so what UpdateLockProofs shows of them is cited here; no    *)
(* job is lost or run by two slots at once, a client is told the truth,    *)
(* and a key left behind by a first try keeps the second from applying the *)
(* sheet again.                                                            *)
(***************************************************************************)
EXTENDS DetachedUpdate, UpdateLockProofs

\* Every step of the requests and of the queue is a step of UpdateLock or leaves
\* its variables alone.
LEMMA StepRefines == [DetachedNext]_allVars => [Next]_vars
<1> SUFFICES ASSUME [DetachedNext]_allVars PROVE [Next]_vars
  OBVIOUS
<1> USE SlotsAssumption
<1>1. ASSUME NEW c \in Clients,
             Enqueue(c) \/ EnqueueFails(c) \/ Poll(c) \/ GiveUp(c) \/ PollFails(c)
      PROVE  UNCHANGED vars
  BY <1>1 DEF Enqueue, EnqueueFails, Poll, GiveUp, PollFails
<1>2. ASSUME NEW s \in Slots, SlotNext(s) \/ JobTimeout(s) \/ Shutdown(s)
      PROVE  Next
  BY <1>2 DEF SlotNext, Take, Run, JobTimeout, Shutdown, Next
<1>3. CASE Exhaust
  BY <1>3 DEF Exhaust
<1>4. CASE Others
  BY <1>4 DEF Others, Next
<1>5. CASE AppStops
  BY <1>5 DEF AppStops, Next
<1>6. CASE UNCHANGED allVars
  BY <1>6 DEF allVars
<1>7. QED
  BY <1>1, <1>2, <1>3, <1>4, <1>5, <1>6 DEF DetachedNext

\* So every behaviour of the queue is one of UpdateLock, and what is proved of the
\* calls there can be cited here (glossary.py:123-240).
LEMMA StepsOfUpdateLock == DetachedSpec => Spec
<1>1. DetachedInit => Init
  BY DEF DetachedInit
<1>2. QED
  BY <1>1, StepRefines, PTL DEF DetachedSpec, Spec

\* So refreshes asked for by clients exclude one another and the others as far as
\* UpdateLock says, and are answered as honestly (glossary.py:130-136, 197-216).
THEOREM ExclusionUnderQueue == DetachedSpec => [](ExclusiveUntilMishap /\ HeldOrCut /\ ReplyHonest)
BY StepsOfUpdateLock, Exclusion, Release, Honesty, PTL

-----------------------------------------------------------------------------
(* Jobs                                                                    *)

\* What the three kinds of step of a caller do to its place in the call, and to
\* nobody else's; a call that ends by itself has a result arq can store.
LEMMA StartMoves ==
    ASSUME NEW u \in Updaters, Start(u)
    PROVE  pc[u] = "idle" /\ pc' = [pc EXCEPT ![u] = "ping"]
BY DEF Start, Goto

\* A call that is cancelled is over.
LEMMA CancelMoves ==
    ASSUME NEW u \in Updaters, Cancel(u)
    PROVE  pc[u] # "idle" /\ pc' = [pc EXCEPT ![u] = "idle"]
BY DEF Cancel, End, Goto

\* A step of a call goes on, or ends it with a result that arq can store.
LEMMA StepMoves ==
    ASSUME TypeOK, NEW u \in Updaters, Step(u)
    PROVE  /\ pc[u] # "idle"
           /\ \E l : pc' = [pc EXCEPT ![u] = l]
           /\ pc'[u] = "idle" => reply'[u] \in Results
<1> USE DEF TypeOK, Results
<1>1. CASE Ping(u) \/ CheckFails(u) \/ Acquire(u) \/ AcquireFails(u)
  BY <1>1 DEF Ping, CheckFails, Acquire, AcquireFails, Goto
<1>2. CASE Fetch(u) \/ Sync(u) \/ SyncFails(u) \/ Upload(u)
  BY <1>2 DEF Fetch, Sync, SyncFails, Upload, Goto
<1>3. CASE PingFails(u) \/ Cleanup(u) \/ Finish(u) \/ ReleaseFails(u)
  BY <1>3 DEF PingFails, Cleanup, Finish, ReleaseFails, End, Goto
<1>4. CASE Check(u)
  <2>1. CASE MayUpdate(u, key)
    BY <1>4, <2>1 DEF Check, End, Goto
  <2>2. CASE ~MayUpdate(u, key)
    BY <1>4, <2>2 DEF Check, End, Goto
  <2>3. QED
    BY <2>1, <2>2
<1>5. QED
  BY <1>1, <1>2, <1>3, <1>4 DEF Step

\* The strengthening: only issued jobs are in the queue and in the slots.
QueueInv ==
    /\ issued \in Nat
    /\ issued <= MaxJobs
    /\ queue \subseteq 1..issued
    /\ running \in [Slots -> 0..issued]
    /\ result \in [Jobs -> Results \cup {"none"}]
    /\ \A j \in Jobs : j > issued => result[j] = "none"
    /\ JobsAreKept

\* What happens to callers that are no slots leaves the invariant alone.
LEMMA QueueInvLocal ==
    ASSUME QueueInv, UNCHANGED queueVars, \A s \in Slots : pc'[s] = pc[s]
    PROVE  QueueInv'
BY DEF QueueInv, queueVars, JobsAreKept, Jobs

\* The job of slot s leaves it, either with a result or back into the queue.
LEMMA JobLeaves ==
    ASSUME QueueInv, NEW s \in Slots, running[s] # NoJob, Free(s), UNCHANGED issued,
           pc'[s] = "idle", \A r \in Slots \ {s} : pc'[r] = pc[r],
           \/ /\ queue' = queue \cup {running[s]} /\ UNCHANGED result
           \/ /\ UNCHANGED queue
              /\ \E what \in Results : result' = [result EXCEPT ![running[s]] = what]
    PROVE  QueueInv'
<1> USE CountsAssumption DEF QueueInv, JobsAreKept, Jobs, NoJob, Results
<1>1. running[s] \in 1..issued /\ running[s] \in 1..MaxJobs
  <2>1. running[s] \in 0..issued /\ running[s] # 0
    OBVIOUS
  <2>2. QED
    BY <2>1
<1>2. running' = [running EXCEPT ![s] = 0]
  BY DEF Free
<1>3. CASE queue' = queue \cup {running[s]} /\ UNCHANGED result
  <2>0. 0 \in 0..issued
    OBVIOUS
  <2>1. running' \in [Slots -> 0..issued] /\ queue' \subseteq 1..issued
    BY <2>0, <1>1, <1>2, <1>3
  <2>2. /\ running[s] \notin queue /\ result[running[s]] = "none"
        /\ \A r \in Slots \ {s} : running[r] # running[s]
    BY <1>1
  <2>3. \A r \in Slots : running'[r] = IF r = s THEN 0 ELSE running[r]
    BY <1>2
  <2>4. \A j \in 1..issued : j # 0
    OBVIOUS
  <2>5. \A j \in 1..issued : j \in queue' \/ result'[j] # "none" \/ \E r \in Slots : running'[r] = j
    BY <1>1, <1>3, <2>3
  <2>6. \A j \in 1..issued :
           /\ j \in queue' => result'[j] = "none" /\ \A r \in Slots : running'[r] # j
           /\ \A r \in Slots : running'[r] = j =>
                 result'[j] = "none" /\ \A q \in Slots : running'[q] = j => q = r
    BY <1>3, <2>2, <2>3, <2>4
  <2>7. \A r \in Slots : running'[r] = 0 <=> pc'[r] = "idle"
    BY <2>3
  <2>8. QED
    BY <1>3, <2>1, <2>5, <2>6, <2>7
<1>4. ASSUME UNCHANGED queue, NEW what \in Results,
             result' = [result EXCEPT ![running[s]] = what]
      PROVE  QueueInv'
  <2>1. result' \in [Jobs -> Results \cup {"none"}] /\ result'[running[s]] # "none"
    BY <1>1, <1>4
  <2>2. \A j \in Jobs \ {running[s]} : result'[j] = result[j]
    BY <1>4
  <2>3. running[s] \notin queue /\ \A r \in Slots \ {s} : running[r] # running[s]
    BY <1>1
  <2>4. QED
    BY <1>1, <1>2, <1>4, <2>1, <2>2, <2>3
<1>5. QED
  BY <1>3, <1>4

\* QueueInv is inductive.
LEMMA QueueInvariant == DetachedSpec => []QueueInv
<1>1. DetachedInit => QueueInv
  BY CountsAssumption, SlotsAssumption DEF DetachedInit, QueueInv, JobsAreKept, Init, Jobs, NoJob, Results
<1>2. TypeOK /\ QueueInv /\ [DetachedNext]_allVars => QueueInv'
  <2> SUFFICES ASSUME TypeOK, QueueInv, [DetachedNext]_allVars PROVE QueueInv'
    OBVIOUS
  <2> USE SlotsAssumption, UpdatersAssumption, CountsAssumption
  <2>a. pc = [u \in Updaters |-> pc[u]] /\ DOMAIN pc = Updaters
    BY DEF TypeOK
  <2>1. ASSUME NEW c \in Clients, Enqueue(c) \/ EnqueueFails(c)
        PROVE  QueueInv'
    <3>1. /\ UNCHANGED <<pc, running, result>>
          /\ \/ issued < MaxJobs /\ issued' = issued + 1 /\ queue' = queue \cup {issued + 1}
             \/ UNCHANGED <<issued, queue>>
      BY <2>1 DEF Enqueue, EnqueueFails, vars, NewJob
    <3>2. CASE UNCHANGED <<issued, queue>>
      BY <3>1, <3>2 DEF QueueInv, JobsAreKept, Jobs, NoJob
    <3>3. CASE issued < MaxJobs /\ issued' = issued + 1 /\ queue' = queue \cup {issued + 1}
      <4>1. /\ issued' \in Nat /\ issued' <= MaxJobs /\ issued + 1 \in Jobs
            /\ 1..issued' = 1..issued \cup {issued + 1}
            /\ 0..issued' = 0..issued \cup {issued + 1}
        BY <3>3 DEF QueueInv, Jobs
      <4>2. /\ result[issued + 1] = "none"
            /\ \A s \in Slots : running[s] # issued + 1
        BY <4>1 DEF QueueInv
      <4>3. QED
        BY <3>1, <3>3, <4>1, <4>2 DEF QueueInv, JobsAreKept, Jobs
    <3>4. QED
      BY <3>1, <3>2, <3>3
  <2>2. ASSUME NEW c \in Clients, Poll(c) \/ GiveUp(c) \/ PollFails(c)
        PROVE  QueueInv'
    BY <2>2, QueueInvLocal DEF Poll, GiveUp, PollFails, vars
  <2>3. ASSUME NEW s \in Slots, Take(s)
        PROVE  QueueInv'
    <3>1. pc[s] = "idle" /\ pc'[s] # "idle" /\ \A r \in Slots \ {s} : pc'[r] = pc[r]
      BY <2>a, <2>3, StartMoves DEF Take
    <3>2. PICK j \in queue : running' = [running EXCEPT ![s] = j] /\ queue' = queue \ {j}
      BY <2>3 DEF Take
    <3>3. UNCHANGED <<issued, result>>
      BY <2>3 DEF Take
    <3>4. j \in 1..issued /\ running[s] = NoJob
      BY <2>3 DEF QueueInv, Take
    <3>5. result[j] = "none" /\ \A r \in Slots : running[r] # j
      BY <3>4 DEF QueueInv, JobsAreKept
    <3>6. running' \in [Slots -> 0..issued] /\ queue' \subseteq 1..issued
      BY <3>2, <3>4 DEF QueueInv
    <3>7. j # 0 /\ \A r \in Slots : running'[r] = IF r = s THEN j ELSE running[r]
      BY <3>2, <3>4 DEF QueueInv
    <3>8. \A k \in 1..issued :
             k \in queue' \/ result'[k] # "none" \/ \E r \in Slots : running'[r] = k
      BY <3>2, <3>3, <3>4, <3>7 DEF QueueInv, JobsAreKept, NoJob
    <3>9. \A k \in 1..issued :
             /\ k \in queue' => result'[k] = "none" /\ \A r \in Slots : running'[r] # k
             /\ \A r \in Slots : running'[r] = k =>
                   result'[k] = "none" /\ \A q \in Slots : running'[q] = k => q = r
      BY <3>2, <3>3, <3>5, <3>7 DEF QueueInv, JobsAreKept
    <3>10. \A r \in Slots : running'[r] = NoJob <=> pc'[r] = "idle"
      BY <3>1, <3>7 DEF QueueInv, JobsAreKept, NoJob
    <3>11. QED
      BY <3>3, <3>6, <3>8, <3>9, <3>10 DEF QueueInv, JobsAreKept, Jobs
  <2>4. ASSUME NEW s \in Slots, Run(s)
        PROVE  QueueInv'
    <3>1. /\ pc[s] # "idle" /\ \A r \in Slots \ {s} : pc'[r] = pc[r]
          /\ pc'[s] = "idle" => reply'[s] \in Results
      BY <2>a, <2>4, StepMoves DEF Run
    <3>2. CASE pc'[s] # "idle"
      <4>1. UNCHANGED <<issued, queue, running, result>>
        BY <2>4, <3>2 DEF Run
      <4>2. \A r \in Slots : pc'[r] = "idle" <=> pc[r] = "idle"
        BY <3>1, <3>2
      <4>3. QED
        BY <4>1, <4>2 DEF QueueInv, JobsAreKept, Jobs
    <3>3. CASE pc'[s] = "idle"
      BY <2>4, <3>1, <3>3, JobLeaves DEF Run, Store, Requeue
    <3>4. QED
      BY <3>2, <3>3
  <2>5. ASSUME NEW s \in Slots, JobTimeout(s) \/ Shutdown(s)
        PROVE  QueueInv'
    <3>1. pc'[s] = "idle" /\ \A r \in Slots \ {s} : pc'[r] = pc[r]
      BY <2>a, <2>5, CancelMoves DEF JobTimeout, Shutdown
    <3>2. "timeout" \in Results
      BY DEF Results
    <3>3. QED
      BY <2>5, <3>1, <3>2, JobLeaves DEF JobTimeout, Shutdown, Store, Requeue
  <2>6. CASE Exhaust
    <3>1. PICK j \in queue : /\ result' = [result EXCEPT ![j] = "failed"]
                             /\ queue' = queue \ {j}
      BY <2>6 DEF Exhaust
    <3>2. UNCHANGED <<pc, issued, running>>
      BY <2>6 DEF Exhaust, vars
    <3>3. QED
      BY <3>1, <3>2 DEF QueueInv, JobsAreKept, Jobs, Results
  <2>7. CASE Others
    <3>1. \A s \in Slots : pc'[s] = pc[s]
      <4>1. ASSUME NEW u \in Updaters \ Slots, Start(u) \/ Step(u) \/ Cancel(u)
            PROVE  \A s \in Slots : pc'[s] = pc[s]
        BY <2>a, <4>1, StartMoves, StepMoves, CancelMoves
      <4>2. ASSUME Expire \/ Serve \/ \E w \in AppWorkers : WorkerStart(w)
            PROVE  UNCHANGED pc
        BY <4>2 DEF Expire, Serve, WorkerStart
      <4>3. QED
        BY <2>7, <4>1, <4>2 DEF Others
    <3>2. QED
      BY <2>7, <3>1, QueueInvLocal DEF Others
  <2>8. CASE AppStops
    <3>1. \A s \in Slots : pc'[s] = pc[s]
      BY <2>a, <2>8 DEF AppStops, AppRestart, WorkerDies, End, Goto
    <3>2. QED
      BY <2>8, <3>1, QueueInvLocal DEF AppStops
  <2>9. CASE UNCHANGED allVars
    BY <2>9, QueueInvLocal DEF allVars, vars
  <2>10. QED
    BY <2>1, <2>2, <2>3, <2>4, <2>5, <2>6, <2>7, <2>8, <2>9 DEF DetachedNext, SlotNext
<1>3. QED
  BY <1>1, <1>2, StepsOfUpdateLock, TypeInvariant, PTL DEF DetachedSpec

\* No job is lost or doubled: it is queued, in exactly one slot, or has its result,
\* whatever is cancelled, restarted or timed out (glossary.py:231).
THEOREM NoJobIsLost == DetachedSpec => []JobsAreKept
<1>1. QueueInv => JobsAreKept
  BY DEF QueueInv
<1>2. QED
  BY <1>1, QueueInvariant, PTL

-----------------------------------------------------------------------------
(* Answers                                                                 *)

\* Only its own transaction changes what a call knows of its commit.
LEMMA CommitMoves ==
    ASSUME TypeOK, NEW u \in Updaters, Step(u) \/ Cancel(u)
    PROVE  committed' \in {committed, [committed EXCEPT ![u] = TRUE]}
BY DEF Step, Cancel, Ping, PingFails, Check, CheckFails, Acquire, AcquireFails, Fetch,
   Sync, SyncFails, Upload, Cleanup, Finish, ReleaseFails

\* The same, read off slot by slot.
LEMMA SlotCommitMoves ==
    ASSUME TypeOK, NEW s \in Slots, Step(s) \/ Cancel(s)
    PROVE  /\ \A r \in Slots \ {s} : committed'[r] = committed[r]
           /\ committed'[s] \in BOOLEAN
           /\ committed[s] => committed'[s]
<1>1. s \in Updaters /\ Slots \subseteq Updaters
  BY SlotsAssumption
<1>2. committed' = committed \/ committed' = [committed EXCEPT ![s] = TRUE]
  BY <1>1, CommitMoves
<1>3. committed \in [Updaters -> BOOLEAN]
  BY DEF TypeOK
<1>4. CASE committed' = committed
  BY <1>1, <1>3, <1>4
<1>5. CASE committed' = [committed EXCEPT ![s] = TRUE]
  <2>1. \A r \in Updaters : committed'[r] = IF r = s THEN TRUE ELSE committed[r]
    BY <1>3, <1>5
  <2>2. QED
    BY <1>1, <2>1
<1>6. QED
  BY <1>2, <1>4, <1>5

\* What a stored result says of its job.
Truthful(j, what) ==
    /\ what = "modified" => commits[j] > 0
    /\ what \in {"refused", "unbound"} => commits[j] = 0 \/ tries[j] > 1

\* The strengthening: the commits of a job match what its slot knows, and an answer
\* is taken from a result that has been stored for good.
CommitInv ==
    /\ commits \in [Jobs -> Nat] /\ tries \in [Jobs -> Nat]
    /\ \A j \in Jobs : tries[j] = 0 => commits[j] = 0
    /\ \A s \in Slots : running[s] # NoJob =>
          /\ tries[running[s]] > 0
          /\ committed[s] => commits[running[s]] > 0
          /\ ~committed[s] => commits[running[s]] = 0 \/ tries[running[s]] > 1
    /\ \A j \in Jobs : Truthful(j, result[j])
    /\ \A c \in Clients : answer[c].what \in {"modified", "refused", "unbound"} =>
          answer[c].job \in Jobs /\ answer[c].what = result[answer[c].job]
    /\ \A c \in Clients : request[c].job \in Jobs \cup {NoJob}
    /\ DOMAIN answer = Clients /\ DOMAIN request = Clients

\* The slots, their calls and the results are left alone; answers come from results.
LEMMA CommitInvLocal ==
    ASSUME CommitInv, UNCHANGED queueVars, \A s \in Slots : committed'[s] = committed[s],
           DOMAIN answer' = Clients /\ DOMAIN request' = Clients,
           \A c \in Clients : request'[c].job \in Jobs \cup {NoJob},
           \A c \in Clients :
              \/ answer'[c] = answer[c]
              \/ answer'[c].what \notin {"modified", "refused", "unbound"}
              \/ answer'[c].job \in Jobs /\ answer'[c].what = result[answer'[c].job]
    PROVE  CommitInv'
BY DEF CommitInv, Truthful, queueVars, Jobs

\* A slot goes on with its job, or its job leaves it.
LEMMA CommitInvSlot ==
    ASSUME TypeOK, QueueInv, CommitInv, NEW s \in Slots, running[s] # NoJob,
           Step(s) \/ Cancel(s), CountCommit(s), UNCHANGED <<tries, clientVars>>,
           \/ UNCHANGED <<running, result>>
           \/ Free(s) /\ UNCHANGED result
           \/ Free(s) /\ \E what \in Results :
                 /\ result' = [result EXCEPT ![running[s]] = what]
                 /\ what = "modified" => committed'[s]
                 /\ what \in {"refused", "unbound"} => ~committed'[s]
    PROVE  CommitInv'
<1>0. PICK j : j = running[s]
  OBVIOUS
<1> USE SlotsAssumption, <1>0
<1>1. /\ j \in Jobs /\ j # NoJob /\ result[j] = "none"
      /\ \A r \in Slots \ {s} : running[r] # j
      /\ running \in [Slots -> 0..issued] /\ result \in [Jobs -> Results \cup {"none"}]
  BY CountsAssumption DEF QueueInv, JobsAreKept, Jobs, NoJob
<1>2. /\ \A r \in Slots \ {s} : committed'[r] = committed[r]
      /\ committed'[s] \in BOOLEAN
      /\ committed[s] => committed'[s]
  BY SlotCommitMoves
<1>3. /\ commits' \in [Jobs -> Nat]
      /\ \A k \in Jobs \ {j} : commits'[k] = commits[k]
      /\ commits'[j] = IF committed'[s] /\ ~committed[s] THEN commits[j] + 1 ELSE commits[j]
  BY <1>1 DEF CountCommit, CommitInv
<1>4. /\ tries[j] > 0
      /\ committed'[s] => commits'[j] > 0
      /\ ~committed'[s] => commits'[j] = 0 \/ tries[j] > 1
  <2>1. /\ tries[j] > 0 /\ commits[j] \in Nat
        /\ committed[s] => commits[j] > 0
        /\ ~committed[s] => commits[j] = 0 \/ tries[j] > 1
    BY <1>1 DEF CommitInv
  <2>2. committed[s] \in BOOLEAN
    BY DEF TypeOK
  <2>3. CASE committed[s]
    <3>1. committed'[s] /\ commits'[j] = commits[j]
      BY <1>2, <1>3, <2>3
    <3>2. QED
      BY <2>1, <2>3, <3>1
  <2>4. CASE ~committed[s]
    <3>1. CASE committed'[s]
      <4>1. commits'[j] = commits[j] + 1
        BY <1>3, <2>4, <3>1
      <4>2. commits'[j] > 0
        BY <4>1, <2>1
      <4>3. QED
        BY <4>2, <2>1, <3>1
    <3>2. CASE ~committed'[s]
      <4>1. commits'[j] = commits[j]
        BY <1>3, <3>2
      <4>2. QED
        BY <4>1, <2>1, <2>4, <3>2
    <3>3. QED
      BY <3>1, <3>2
  <2>5. QED
    BY <2>3, <2>4
<1>5. \A r \in Slots : running'[r] \in {running[r], NoJob}
  BY <1>1 DEF Free
<1>6. \A r \in Slots : running'[r] # NoJob =>
          /\ tries[running'[r]] > 0
          /\ committed'[r] => commits'[running'[r]] > 0
          /\ ~committed'[r] => commits'[running'[r]] = 0 \/ tries[running'[r]] > 1
  <2> SUFFICES ASSUME NEW r \in Slots, running'[r] # NoJob
               PROVE  /\ tries[running'[r]] > 0
                      /\ committed'[r] => commits'[running'[r]] > 0
                      /\ ~committed'[r] => commits'[running'[r]] = 0 \/ tries[running'[r]] > 1
    OBVIOUS
  <2>1. running'[r] = running[r]
    BY <1>5
  <2>2. CASE r = s
    BY <2>1, <2>2, <1>4
  <2>3. CASE r # s
    <3>1. running[r] \in Jobs \ {j}
      BY <1>1, <2>1, <2>3, CountsAssumption DEF QueueInv, Jobs, NoJob
    <3>2. QED
      BY <1>2, <1>3, <2>1, <2>3, <3>1 DEF CommitInv
  <2>4. QED
    BY <2>2, <2>3
<1>7. \A k \in Jobs : /\ result'[k] = result[k] \/ k = j
                      /\ Truthful(k, result[k])
  BY <1>1 DEF CommitInv
<1>8. /\ result'[j] = "modified" => committed'[s]
      /\ result'[j] \in {"refused", "unbound"} => ~committed'[s]
  BY <1>1
<1>9. \A k \in Jobs : Truthful(k, result[k])'
  <2>1. UNCHANGED tries
    OBVIOUS
  <2>2. \A k \in Jobs \ {j} : Truthful(k, result[k])'
    BY <1>3, <1>7, <2>1 DEF Truthful
  <2>3. Truthful(j, result[j])'
    BY <1>4, <1>8, <2>1 DEF Truthful
  <2>4. QED
    BY <2>2, <2>3, <1>5 DEF Jobs
<1>10. \A k \in Jobs : tries[k] = 0 => commits'[k] = 0
  BY <1>3, <1>4 DEF CommitInv
<1>11. \A c \in Clients : answer[c].what \in {"modified", "refused", "unbound"} =>
          answer[c].job \in Jobs /\ answer[c].what = result'[answer[c].job]
  BY <1>1, <1>7 DEF CommitInv
<1>12. QED
  BY <1>3, <1>6, <1>9, <1>10, <1>11 DEF CommitInv, clientVars

\* CommitInv is inductive, given what is known of the queue and of the calls.
LEMMA CommitStep ==
    TypeOK /\ TypeOK' /\ RepliesKept /\ RepliesKept' /\ QueueInv /\ CommitInv
        /\ [DetachedNext]_allVars => CommitInv'
<1> SUFFICES ASSUME TypeOK, TypeOK', RepliesKept, RepliesKept', QueueInv, CommitInv,
                    [DetachedNext]_allVars
             PROVE  CommitInv'
  OBVIOUS
<1> USE SlotsAssumption, UpdatersAssumption, CountsAssumption
<1>1. ASSUME NEW c \in Clients, Enqueue(c) \/ EnqueueFails(c)
      PROVE  CommitInv'
  <2>1. UNCHANGED <<running, tries, result, commits, committed>>
    BY <1>1 DEF Enqueue, EnqueueFails, vars
  <2>2. /\ DOMAIN request' = Clients /\ DOMAIN answer' = Clients
        /\ \A d \in Clients : request'[d].job \in Jobs \cup {NoJob}
        /\ \A d \in Clients : answer'[d] = answer[d] \/ answer'[d].what = "failed"
    <3>1. CASE Enqueue(c)
      BY <3>1 DEF Enqueue, CommitInv, QueueInv, Jobs, NewJob
    <3>2. CASE EnqueueFails(c)
      BY <3>2 DEF EnqueueFails, CommitInv, Reply, NoRequest
    <3>3. QED
      BY <1>1, <3>1, <3>2
  <2>3. QED
    BY <2>1, <2>2 DEF CommitInv, Truthful
<1>2. ASSUME NEW c \in Clients, Poll(c) \/ GiveUp(c) \/ PollFails(c)
      PROVE  CommitInv'
  <2>1. UNCHANGED <<queueVars, committed>>
    BY <1>2 DEF Poll, GiveUp, PollFails, vars
  <2>2. /\ DOMAIN request' = Clients /\ DOMAIN answer' = Clients
        /\ \A d \in Clients : request'[d].job \in Jobs \cup {NoJob}
    BY <1>2 DEF Poll, GiveUp, PollFails, Reply, NoRequest, CommitInv
  <2>3. \A d \in Clients :
           \/ answer'[d] = answer[d]
           \/ answer'[d].what \notin {"modified", "refused", "unbound"}
           \/ answer'[d].job \in Jobs /\ answer'[d].what = result[answer'[d].job]
    BY <1>2 DEF Poll, GiveUp, PollFails, Reply, CommitInv
  <2>4. QED
    BY <2>1, <2>2, <2>3, CommitInvLocal
<1>3. ASSUME NEW s \in Slots, Take(s)
      PROVE  CommitInv'
  <2>1. PICK j \in queue : /\ running' = [running EXCEPT ![s] = j]
                           /\ tries' = [tries EXCEPT ![j] = @ + 1]
    BY <1>3 DEF Take
  <2>2. UNCHANGED <<result, commits, clientVars>>
    BY <1>3 DEF Take
  <2>3. committed' = [committed EXCEPT ![s] = FALSE]
    BY <1>3 DEF Take, Start
  <2>4. /\ j \in Jobs /\ result[j] = "none"
        /\ \A r \in Slots : running[r] # j
        /\ running \in [Slots -> 0..issued]
    BY DEF QueueInv, JobsAreKept, Jobs
  <2>5. \A r \in Slots : running[r] # NoJob => running[r] \in Jobs
    BY <2>4 DEF QueueInv, Jobs, NoJob
  <2>6. /\ tries' \in [Jobs -> Nat] /\ tries'[j] = tries[j] + 1
        /\ \A k \in Jobs \ {j} : tries'[k] = tries[k]
    BY <2>1, <2>4 DEF CommitInv
  <2>7. tries'[j] > 0 /\ (commits[j] = 0 \/ tries'[j] > 1)
    BY <2>4, <2>6 DEF CommitInv
  <2>8. \A r \in Slots : running'[r] # NoJob =>
           /\ tries'[running'[r]] > 0
           /\ committed'[r] => commits[running'[r]] > 0
           /\ ~committed'[r] => commits[running'[r]] = 0 \/ tries'[running'[r]] > 1
    <3>1. /\ running'[s] = j
          /\ \A r \in Slots \ {s} : running'[r] = running[r] /\ committed'[r] = committed[r]
      BY <2>1, <2>3, <2>4 DEF TypeOK
    <3>2. ~committed'[s]
      BY <2>3 DEF TypeOK
    <3>3. QED
      BY <2>4, <2>5, <2>6, <2>7, <3>1, <3>2 DEF CommitInv
  <2>9. \A k \in Jobs : tries'[k] = 0 => commits[k] = 0
    BY <2>6, <2>7 DEF CommitInv
  <2>10. \A k \in Jobs : Truthful(k, result[k])'
    BY <2>2, <2>4, <2>6 DEF CommitInv, Truthful
  <2>11. QED
    BY <2>2, <2>6, <2>8, <2>9, <2>10 DEF CommitInv, clientVars
<1>4. ASSUME NEW s \in Slots, Run(s)
      PROVE  CommitInv'
  <2>1. running[s] # NoJob /\ Step(s) /\ CountCommit(s) /\ UNCHANGED <<tries, clientVars>>
    BY <1>4 DEF Run
  <2>2. CASE UNCHANGED <<queue, running, result>>
    BY <2>1, <2>2, CommitInvSlot
  <2>3. CASE Requeue(s)
    BY <2>1, <2>3, CommitInvSlot DEF Requeue
  <2>4. CASE pc'[s] = "idle" /\ Store(s, reply'[s])
    <3>1. reply'[s] \in Results
      BY <2>1, <2>4, StepMoves
    <3>2. /\ reply'[s] = "modified" => committed'[s]
          /\ reply'[s] \in {"refused", "unbound"} => ~committed'[s]
      BY DEF RepliesKept, ReplyHonest
    <3>3. QED
      BY <2>1, <2>4, <3>1, <3>2, CommitInvSlot DEF Store
  <2>5. QED
    BY <1>4, <2>2, <2>3, <2>4 DEF Run
<1>5. ASSUME NEW s \in Slots, JobTimeout(s) \/ Shutdown(s)
      PROVE  CommitInv'
  <2>1. running[s] # NoJob /\ Cancel(s) /\ CountCommit(s) /\ UNCHANGED <<tries, clientVars>>
    BY <1>5 DEF JobTimeout, Shutdown
  <2>2. CASE Shutdown(s)
    BY <2>1, <2>2, CommitInvSlot DEF Shutdown, Requeue
  <2>3. CASE JobTimeout(s)
    <3>1. "timeout" \in Results
      BY DEF Results
    <3>2. QED
      BY <2>1, <2>3, <3>1, CommitInvSlot DEF JobTimeout, Store
  <2>4. QED
    BY <1>5, <2>2, <2>3
<1>6. CASE Exhaust
  <2>1. PICK j \in queue : result' = [result EXCEPT ![j] = "failed"]
    BY <1>6 DEF Exhaust
  <2>2. UNCHANGED <<running, tries, commits, committed, clientVars>>
    BY <1>6 DEF Exhaust, vars
  <2>3. j \in Jobs /\ result[j] = "none" /\ result \in [Jobs -> Results \cup {"none"}]
    BY DEF QueueInv, JobsAreKept, Jobs
  <2>4. \A k \in Jobs : result'[k] = IF k = j THEN "failed" ELSE result[k]
    BY <2>1, <2>3
  <2>5. QED
    BY <2>2, <2>3, <2>4 DEF CommitInv, Truthful, clientVars
<1>7. CASE Others
  <2>1. \A s \in Slots : committed'[s] = committed[s]
    <3>1. ASSUME NEW u \in Updaters \ Slots, Start(u) \/ Step(u) \/ Cancel(u)
          PROVE  \A s \in Slots : committed'[s] = committed[s]
      <4>1. \E b : committed' \in {committed, [committed EXCEPT ![u] = b]}
        BY <3>1, CommitMoves DEF Start
      <4>2. QED
        BY <4>1 DEF TypeOK
    <3>2. ASSUME Expire \/ Serve \/ \E w \in AppWorkers : WorkerStart(w)
          PROVE  UNCHANGED committed
      BY <3>2 DEF Expire, Serve, WorkerStart
    <3>3. QED
      BY <1>7, <3>1, <3>2 DEF Others
  <2>2. UNCHANGED <<queueVars, clientVars>>
    BY <1>7 DEF Others
  <2>3. QED
    BY <2>1, <2>2, CommitInvLocal DEF CommitInv, clientVars
<1>8. CASE AppStops
  <2>1. UNCHANGED <<queueVars, committed>>
    BY <1>8 DEF AppStops, AppRestart, WorkerDies
  <2>2. /\ DOMAIN request' = Clients /\ DOMAIN answer' = Clients
        /\ \A c \in Clients : request'[c].job \in Jobs \cup {NoJob}
        /\ \A c \in Clients : answer'[c] = answer[c] \/ answer'[c].what = "broken"
    BY <1>8 DEF AppStops, HangUp, NoRequest, CommitInv
  <2>3. QED
    BY <2>1, <2>2, CommitInvLocal
<1>9. CASE UNCHANGED allVars
  BY <1>9, CommitInvLocal DEF allVars, vars, clientVars, CommitInv
<1>10. QED
  BY <1>1, <1>2, <1>3, <1>4, <1>5, <1>6, <1>7, <1>8, <1>9 DEF DetachedNext, SlotNext

\* What a client is told of its job is true of it: 200 means a commit, 423 none, unless
\* the job was tried again (glossary.py:131, 197, 235).
THEOREM TruthfulAnswers == DetachedSpec => []AnswerHonest
<1>1. DetachedInit => CommitInv
  BY CountsAssumption, SlotsAssumption
     DEF DetachedInit, Init, CommitInv, Truthful, NoRequest, NoJob, Jobs
<1>2. CommitInv => AnswerHonest
  BY DEF CommitInv, Truthful, AnswerHonest
<1>3. QED
  BY <1>1, <1>2, CommitStep, QueueInvariant, StepsOfUpdateLock, TypeInvariant, RepliesInvariant, PTL
     DEF DetachedSpec

-----------------------------------------------------------------------------
(* Ranges                                                                  *)

\* The strengthening: each try commits at most once, so a job that is running and
\* has not committed in this try has fewer commits than tries.
CountInv ==
    /\ tries \in [Jobs -> 0..MaxTries]
    /\ commits \in [Jobs -> Nat]
    /\ \A j \in Jobs : commits[j] <= tries[j]
    /\ \A s \in Slots : running[s] # NoJob /\ ~committed[s] =>
          commits[running[s]] < tries[running[s]]

\* The records of the requests and of the answers keep their shape.
ClientInv ==
    /\ request \in [Clients -> [job : Jobs, worker : AppWorkers] \cup {NoRequest}]
    /\ answer \in [Clients -> [job : Jobs \cup {NoJob},
                               what : Results \cup {"none", "broken"}]]

\* A slot goes on with its job, or its job leaves it.
LEMMA CountInvSlot ==
    ASSUME TypeOK, QueueInv, CountInv, NEW s \in Slots, running[s] # NoJob,
           Step(s) \/ Cancel(s), CountCommit(s), UNCHANGED tries,
           UNCHANGED running \/ Free(s)
    PROVE  CountInv'
<1>0. PICK j : j = running[s]
  OBVIOUS
<1> USE <1>0
<1>1. /\ j \in Jobs
      /\ \A r \in Slots : running[r] # NoJob => running[r] \in Jobs
      /\ \A r \in Slots \ {s} : running[r] # j
  BY CountsAssumption DEF QueueInv, JobsAreKept, Jobs, NoJob
<1>2. /\ \A r \in Slots \ {s} : committed'[r] = committed[r]
      /\ committed'[s] \in BOOLEAN
      /\ committed[s] => committed'[s]
  BY SlotCommitMoves
<1>3. /\ commits' \in [Jobs -> Nat]
      /\ \A k \in Jobs \ {j} : commits'[k] = commits[k]
      /\ commits'[j] = IF committed'[s] /\ ~committed[s] THEN commits[j] + 1 ELSE commits[j]
  BY <1>1 DEF CountCommit, CountInv
<1>4. /\ commits[j] \in Nat /\ tries[j] \in Nat /\ commits[j] <= tries[j]
      /\ ~committed[s] => commits[j] < tries[j]
  BY <1>1, CountsAssumption DEF CountInv
<1>5. commits'[j] <= tries[j] /\ (~committed'[s] => commits'[j] < tries[j])
  <2>1. CASE committed'[s] /\ ~committed[s]
    BY <1>3, <1>4, <2>1
  <2>2. CASE ~(committed'[s] /\ ~committed[s])
    <3>1. commits'[j] = commits[j]
      BY <1>3, <2>2
    <3>2. ~committed'[s] => ~committed[s]
      BY <1>2
    <3>3. QED
      BY <1>4, <3>1, <3>2
  <2>3. QED
    BY <2>1, <2>2
<1>6. \A r \in Slots : running'[r] \in {running[r], NoJob}
  BY DEF Free, QueueInv
<1>7. \A k \in Jobs : commits'[k] <= tries[k]
  BY <1>3, <1>5 DEF CountInv
<1>8. ASSUME NEW r \in Slots, running'[r] # NoJob, ~committed'[r]
      PROVE  commits'[running'[r]] < tries[running'[r]]
  <2>1. running'[r] = running[r]
    BY <1>6, <1>8
  <2>2. CASE r = s
    BY <1>5, <1>8, <2>1, <2>2
  <2>3. CASE r # s
    <3>1. running[r] \in Jobs \ {j} /\ ~committed[r]
      BY <1>1, <1>2, <1>8, <2>1, <2>3
    <3>2. QED
      BY <1>3, <1>8, <2>1, <3>1 DEF CountInv
  <2>4. QED
    BY <2>2, <2>3
<1>9. QED
  BY <1>3, <1>7, <1>8 DEF CountInv

\* CountInv is inductive, given what is known of the queue.
LEMMA CountStep ==
    TypeOK /\ QueueInv /\ CountInv /\ [DetachedNext]_allVars => CountInv'
<1> SUFFICES ASSUME TypeOK, QueueInv, CountInv, [DetachedNext]_allVars PROVE CountInv'
  OBVIOUS
<1> USE SlotsAssumption, UpdatersAssumption, CountsAssumption
<1>1. ASSUME UNCHANGED <<running, tries, commits>>,
             \A s \in Slots : committed'[s] = committed[s]
      PROVE  CountInv'
  BY <1>1 DEF CountInv, Jobs
<1>2. ASSUME NEW c \in Clients,
             Enqueue(c) \/ EnqueueFails(c) \/ Poll(c) \/ GiveUp(c) \/ PollFails(c)
      PROVE  CountInv'
  BY <1>1, <1>2 DEF Enqueue, EnqueueFails, Poll, GiveUp, PollFails, vars, queueVars
<1>3. ASSUME NEW s \in Slots, Take(s)
      PROVE  CountInv'
  <2>1. PICK j \in queue : /\ tries[j] < MaxTries
                           /\ running' = [running EXCEPT ![s] = j]
                           /\ tries' = [tries EXCEPT ![j] = @ + 1]
    BY <1>3 DEF Take
  <2>2. UNCHANGED commits
    BY <1>3 DEF Take
  <2>3. committed' = [committed EXCEPT ![s] = FALSE]
    BY <1>3 DEF Take, Start
  <2>4. /\ j \in Jobs
        /\ \A r \in Slots : running[r] # j
        /\ \A r \in Slots : running[r] # NoJob => running[r] \in Jobs
        /\ running \in [Slots -> 0..issued]
    BY DEF QueueInv, JobsAreKept, Jobs, NoJob
  <2>5. /\ tries' \in [Jobs -> 0..MaxTries] /\ tries'[j] = tries[j] + 1
        /\ \A k \in Jobs \ {j} : tries'[k] = tries[k]
    BY <2>1, <2>4 DEF CountInv
  <2>6. commits[j] < tries'[j]
    BY <2>4, <2>5 DEF CountInv
  <2>7. \A k \in Jobs : commits[k] <= tries'[k]
    BY <2>4, <2>5, <2>6 DEF CountInv
  <2>8. /\ running'[s] = j
        /\ \A r \in Slots \ {s} : running'[r] = running[r] /\ committed'[r] = committed[r]
    BY <2>1, <2>3, <2>4 DEF TypeOK
  <2>9. \A r \in Slots : running'[r] # NoJob /\ ~committed'[r] =>
            commits[running'[r]] < tries'[running'[r]]
    BY <2>4, <2>5, <2>6, <2>8 DEF CountInv
  <2>10. QED
    BY <2>2, <2>5, <2>7, <2>9 DEF CountInv
<1>4. ASSUME NEW s \in Slots, Run(s) \/ JobTimeout(s) \/ Shutdown(s)
      PROVE  CountInv'
  <2>1. /\ running[s] # NoJob
        /\ Step(s) \/ Cancel(s)
        /\ CountCommit(s) /\ UNCHANGED tries
    BY <1>4 DEF Run, JobTimeout, Shutdown
  <2>2. UNCHANGED running \/ Free(s)
    BY <1>4 DEF Run, JobTimeout, Shutdown, Store, Requeue
  <2>3. QED
    BY <2>1, <2>2, CountInvSlot
<1>5. CASE Exhaust
  BY <1>1, <1>5 DEF Exhaust, vars
<1>6. CASE Others
  <2>1. ASSUME NEW u \in Updaters \ Slots, Start(u) \/ Step(u) \/ Cancel(u)
        PROVE  \A s \in Slots : committed'[s] = committed[s]
    <3>1. \E b : committed' \in {committed, [committed EXCEPT ![u] = b]}
      BY <2>1, CommitMoves DEF Start
    <3>2. QED
      BY <3>1 DEF TypeOK
  <2>2. ASSUME Expire \/ Serve \/ \E w \in AppWorkers : WorkerStart(w)
        PROVE  UNCHANGED committed
    BY <2>2 DEF Expire, Serve, WorkerStart
  <2>3. QED
    BY <1>1, <1>6, <2>1, <2>2 DEF Others, queueVars
<1>7. CASE AppStops \/ UNCHANGED allVars
  BY <1>1, <1>7 DEF AppStops, AppRestart, WorkerDies, allVars, vars, queueVars
<1>8. QED
  BY <1>2, <1>3, <1>4, <1>5, <1>6, <1>7 DEF DetachedNext, SlotNext

\* ClientInv is inductive: a request names an issued job and a worker that is up, and
\* only a stored result is passed on.
LEMMA ClientStep ==
    TypeOK /\ QueueInv /\ ClientInv /\ [DetachedNext]_allVars => ClientInv'
<1> SUFFICES ASSUME TypeOK, QueueInv, ClientInv, [DetachedNext]_allVars PROVE ClientInv'
  OBVIOUS
<1> USE CountsAssumption DEF ClientInv
<1>1. ASSUME NEW c \in Clients, NEW job \in Jobs \cup {NoJob}, NEW what \in Results,
             Reply(c, job, what)
      PROVE  ClientInv'
  <2>1. [job |-> job, what |-> what] \in
           [job : Jobs \cup {NoJob}, what : Results \cup {"none", "broken"}]
    OBVIOUS
  <2>2. QED
    BY <1>1, <2>1 DEF Reply, Jobs
<1>2. ASSUME NEW c \in Clients, EnqueueFails(c) \/ GiveUp(c) \/ PollFails(c)
      PROVE  ClientInv'
  BY <1>1, <1>2 DEF EnqueueFails, GiveUp, PollFails, Results
<1>3. ASSUME NEW c \in Clients, Poll(c)
      PROVE  ClientInv'
  <2>1. request[c] \in [job : Jobs, worker : AppWorkers]
    BY <1>3 DEF Poll, NoRequest
  <2>2. request[c].job \in Jobs /\ result[request[c].job] \in Results
    BY <1>3, <2>1 DEF Poll, QueueInv
  <2>3. QED
    BY <1>1, <1>3, <2>2 DEF Poll
<1>4. ASSUME NEW c \in Clients, Enqueue(c)
      PROVE  ClientInv'
  <2>1. NewJob \in Jobs
    BY <1>4 DEF Enqueue, NewJob, Jobs, QueueInv
  <2>2. PICK w \in up : request' = [request EXCEPT ![c] = [job |-> NewJob, worker |-> w]]
    BY <1>4 DEF Enqueue
  <2>3. [job |-> NewJob, worker |-> w] \in [job : Jobs, worker : AppWorkers]
    BY <2>1 DEF TypeOK
  <2>4. QED
    BY <1>4, <2>2, <2>3 DEF Enqueue, Jobs
<1>5. CASE AppStops
  <2>1. [job |-> NoJob, what |-> "broken"] \in
           [job : Jobs \cup {NoJob}, what : Results \cup {"none", "broken"}]
    OBVIOUS
  <2>2. QED
    BY <1>5, <2>1 DEF AppStops, HangUp, Jobs
<1>6. ASSUME NEW s \in Slots, SlotNext(s) \/ JobTimeout(s) \/ Shutdown(s)
      PROVE  ClientInv'
  BY <1>6 DEF SlotNext, Take, Run, JobTimeout, Shutdown, clientVars, Jobs
<1>7. CASE Exhaust \/ Others \/ UNCHANGED allVars
  BY <1>7 DEF Exhaust, Others, clientVars, allVars, Jobs
<1>8. QED
  BY <1>2, <1>3, <1>4, <1>5, <1>6, <1>7 DEF DetachedNext

-----------------------------------------------------------------------------
(* The second try                                                          *)

\* Where a call is on its way to a commit.
Towards(u) == pc[u] \in {"acquire", "fetch", "sync"}

\* The strengthening: while a job is guarded the key is "updating", and its slot, if
\* it is in one, is not on its way to a commit.
GuardInv ==
    /\ guarded \subseteq Jobs
    /\ guarded # {} => key = "updating"
    /\ \A s \in Slots : running[s] \in guarded => ~Towards(s)

\* A call that finds "updating" does not set out for a commit.
LEMMA UpdatingHolds ==
    ASSUME TypeOK, NEW u \in Updaters, Step(u) \/ Cancel(u), key = "updating", ~Towards(u)
    PROVE  ~Towards(u)' /\ committed' = committed
<1> USE DEF TypeOK, Towards
<1>1. CASE Cancel(u)
  BY <1>1 DEF Cancel, End, Goto
<1>2. CASE Ping(u) \/ CheckFails(u) \/ Acquire(u) \/ AcquireFails(u)
  BY <1>2 DEF Ping, CheckFails, Acquire, AcquireFails, Goto
<1>3. CASE Fetch(u) \/ Sync(u) \/ SyncFails(u) \/ Upload(u)
  BY <1>3 DEF Fetch, Sync, SyncFails, Upload, Goto
<1>4. CASE PingFails(u) \/ Cleanup(u) \/ Finish(u) \/ ReleaseFails(u)
  BY <1>4 DEF PingFails, Cleanup, Finish, ReleaseFails, End, Goto
<1>5. CASE Check(u)
  BY <1>5 DEF Check, MayUpdate, End, Goto
<1>6. QED
  BY <1>1, <1>2, <1>3, <1>4, <1>5 DEF Step

\* A commit is made at the transaction and nowhere else, and leads away from it.
LEMMA CommitsAtSync ==
    ASSUME TypeOK, NEW u \in Updaters, Step(u) \/ Cancel(u), committed'[u], ~committed[u]
    PROVE  pc[u] = "sync" /\ ~Towards(u)'
<1> USE DEF TypeOK, Towards
<1>1. CASE Sync(u) \/ Cancel(u)
  BY <1>1 DEF Sync, Cancel, End, Goto
<1>2. CASE ~(Sync(u) \/ Cancel(u))
  BY <1>2 DEF Step, Ping, PingFails, Check, CheckFails, Acquire, AcquireFails, Fetch,
     SyncFails, Upload, Cleanup, Finish, ReleaseFails
<1>3. QED
  BY <1>1, <1>2

\* No step of a slot's call commits a guarded job, and GuardInv survives it.
LEMMA GuardSlot ==
    ASSUME TypeOK, QueueInv, CountInv, GuardInv, NEW s \in Slots, running[s] # NoJob,
           Step(s) \/ Cancel(s), CountCommit(s), UNCHANGED running \/ Free(s),
           \A r \in Slots \ {s} : pc'[r] = pc[r]
    PROVE  GuardInv' /\ \A k \in guarded : commits'[k] = commits[k]
<1>0. PICK j : j = running[s]
  OBVIOUS
<1> USE SlotsAssumption, <1>0
<1>1. /\ j \in Jobs
      /\ \A r \in Slots \ {s} : running[r] # j
  BY CountsAssumption DEF QueueInv, JobsAreKept, Jobs, NoJob
<1>2. /\ \A k \in Jobs \ {j} : commits'[k] = commits[k]
      /\ commits'[j] # commits[j] => committed'[s] /\ ~committed[s]
  BY <1>1 DEF CountCommit, CountInv
<1>3. j \in guarded => ~Towards(s)' /\ committed' = committed
  BY UpdatingHolds DEF GuardInv
<1>4. commits'[j] # commits[j] => ~Towards(s)'
  BY <1>2, CommitsAtSync
<1>5. \A k \in guarded : commits'[k] = commits[k]
  BY <1>2, <1>3 DEF GuardInv
<1>6. /\ guarded' \subseteq Jobs
      /\ guarded' # {} => key' = "updating"
      /\ \A k \in guarded' : k \in guarded \/ commits'[k] > commits[k]
  BY DEF CountCommit, Guard
<1>7. \A k \in guarded' : k \in guarded \/ (k = j /\ commits'[j] # commits[j])
  <2>1. \A k \in Jobs : commits[k] \in Nat
    BY DEF CountInv
  <2>2. ASSUME NEW k \in guarded', k \notin guarded
        PROVE  k = j /\ commits'[j] # commits[j]
    <3>1. k \in Jobs /\ commits'[k] > commits[k] /\ commits[k] \in Nat
      BY <1>6, <2>1, <2>2
    <3>2. commits'[k] # commits[k]
      BY <3>1
    <3>3. QED
      BY <1>2, <3>1, <3>2
  <2>3. QED
    BY <2>2
<1>8. \A r \in Slots : running'[r] \in {running[r], NoJob}
  BY DEF Free, QueueInv
<1>9. NoJob \notin guarded'
  BY <1>6, CountsAssumption DEF Jobs, NoJob
<1>10. ASSUME NEW r \in Slots, running'[r] \in guarded' PROVE ~Towards(r)'
  <2>1. running'[r] = running[r]
    BY <1>8, <1>9, <1>10
  <2>2. CASE r = s
    BY <1>3, <1>4, <1>7, <1>10, <2>1, <2>2
  <2>3. CASE r # s
    <3>1. running[r] \in guarded /\ pc'[r] = pc[r]
      BY <1>1, <1>7, <1>10, <2>1, <2>3
    <3>2. QED
      BY <3>1 DEF GuardInv, Towards
  <2>4. QED
    BY <2>2, <2>3
<1>11. QED
  BY <1>5, <1>6, <1>10 DEF GuardInv

\* GuardInv is inductive, and no step commits a guarded job.
LEMMA GuardStep ==
    TypeOK /\ QueueInv /\ CountInv /\ GuardInv /\ [DetachedNext]_allVars =>
        GuardInv' /\ \A j \in guarded : commits'[j] = commits[j]
<1> SUFFICES ASSUME TypeOK, QueueInv, CountInv, GuardInv, [DetachedNext]_allVars
             PROVE  GuardInv' /\ \A j \in guarded : commits'[j] = commits[j]
  OBVIOUS
<1> USE SlotsAssumption, UpdatersAssumption, CountsAssumption
<1>a. pc = [u \in Updaters |-> pc[u]] /\ DOMAIN pc = Updaters
  BY DEF TypeOK
<1>1. ASSUME UNCHANGED <<commits, running>>, \A s \in Slots : pc'[s] = pc[s],
             Guard \/ UNCHANGED <<key, guarded>>
      PROVE  GuardInv' /\ \A j \in guarded : commits'[j] = commits[j]
  <2>1. CASE UNCHANGED <<key, guarded>>
    BY <1>1, <2>1 DEF GuardInv, Towards, Jobs
  <2>2. CASE Guard
    <3>1. \A k \in Jobs : ~(commits'[k] > commits[k])
      BY <1>1 DEF CountInv
    <3>2. guarded' \subseteq guarded /\ (guarded' # {} => key' = "updating")
      BY <2>2, <3>1 DEF Guard
    <3>3. QED
      BY <1>1, <3>2 DEF GuardInv, Towards, Jobs
  <2>3. QED
    BY <1>1, <2>1, <2>2
<1>2. ASSUME NEW c \in Clients,
             Enqueue(c) \/ EnqueueFails(c) \/ Poll(c) \/ GiveUp(c) \/ PollFails(c)
      PROVE  GuardInv' /\ \A j \in guarded : commits'[j] = commits[j]
  BY <1>1, <1>2 DEF Enqueue, EnqueueFails, Poll, GiveUp, PollFails, vars, queueVars
<1>3. ASSUME NEW s \in Slots, Take(s)
      PROVE  GuardInv' /\ \A j \in guarded : commits'[j] = commits[j]
  <2>1. PICK j \in queue : running' = [running EXCEPT ![s] = j]
    BY <1>3 DEF Take
  <2>2. UNCHANGED <<key, commits, guarded>>
    BY <1>3 DEF Take, Start, KeepKey
  <2>3. pc' = [pc EXCEPT ![s] = "ping"]
    BY <1>3, StartMoves DEF Take
  <2>4. \A r \in Slots : ~Towards(r)' \/ (running'[r] = running[r] /\ Towards(r))
    BY <1>a, <2>1, <2>3 DEF Towards, QueueInv
  <2>5. QED
    BY <2>2, <2>4 DEF GuardInv, Jobs
<1>4. ASSUME NEW s \in Slots, Run(s) \/ JobTimeout(s) \/ Shutdown(s)
      PROVE  GuardInv' /\ \A j \in guarded : commits'[j] = commits[j]
  <2>1. running[s] # NoJob /\ (Step(s) \/ Cancel(s)) /\ CountCommit(s)
    BY <1>4 DEF Run, JobTimeout, Shutdown
  <2>2. UNCHANGED running \/ Free(s)
    BY <1>4 DEF Run, JobTimeout, Shutdown, Store, Requeue
  <2>3. \A r \in Slots \ {s} : pc'[r] = pc[r]
    BY <1>a, <2>1, StepMoves, CancelMoves
  <2>4. QED
    BY <2>1, <2>2, <2>3, GuardSlot
<1>5. CASE Exhaust
  BY <1>1, <1>5 DEF Exhaust, vars
<1>6. CASE Others
  <2>1. ASSUME NEW u \in Updaters \ Slots, Start(u) \/ Step(u) \/ Cancel(u)
        PROVE  \A s \in Slots : pc'[s] = pc[s]
    BY <1>a, <2>1, StartMoves, StepMoves, CancelMoves
  <2>2. ASSUME Expire \/ Serve \/ \E w \in AppWorkers : WorkerStart(w)
        PROVE  UNCHANGED pc
    BY <2>2 DEF Expire, Serve, WorkerStart
  <2>3. QED
    BY <1>1, <1>6, <2>1, <2>2 DEF Others, queueVars
<1>7. CASE AppStops
  <2>1. \A s \in Slots : pc'[s] = pc[s]
    BY <1>a, <1>7 DEF AppStops, AppRestart, WorkerDies, End, Goto
  <2>2. QED
    BY <1>1, <1>7, <2>1 DEF AppStops, queueVars
<1>8. CASE UNCHANGED allVars
  BY <1>1, <1>8 DEF allVars, vars, queueVars
<1>9. QED
  BY <1>2, <1>3, <1>4, <1>5, <1>6, <1>7, <1>8 DEF DetachedNext, SlotNext

\* A job whose first try was cut off after its commit does not apply the sheet again
\* while the "updating" of that try is there: its second try can only be refused or
\* fail, whoever else calls, starts or is stopped meanwhile (glossary.py:130-136, 231).
THEOREM NotTwice == DetachedSpec => NotAppliedTwice
<1> DEFINE Kept == \A j \in guarded : commits'[j] = commits[j]
<1>1. DetachedInit => CountInv /\ GuardInv
  BY CountsAssumption, SlotsAssumption DEF DetachedInit, CountInv, GuardInv, NoJob, Jobs
<1>2. TypeOK /\ QueueInv /\ CountInv /\ GuardInv /\ [DetachedNext]_allVars => GuardInv' /\ Kept
  BY GuardStep
<1>3. TypeOK /\ QueueInv /\ CountInv /\ [DetachedNext]_allVars => CountInv'
  BY CountStep
<1> HIDE DEF Kept
<1>4. NotAppliedTwice <=> [][Kept]_allVars
  BY DEF NotAppliedTwice, Kept
<1>5. QED
  BY <1>1, <1>2, <1>3, <1>4, QueueInvariant, StepsOfUpdateLock, TypeInvariant, PTL
     DEF DetachedSpec

\* Every variable of the queue and of the requests keeps its range; in particular no
\* job is tried, or commits, more often than arq's max_tries allows, whatever shuts the
\* worker down between a commit and the stored result (glossary.py:231-240).
THEOREM DetachedTypes == DetachedSpec => []DetachedTypeOK
<1>1. DetachedInit => CountInv /\ ClientInv /\ GuardInv
  BY CountsAssumption, SlotsAssumption
     DEF DetachedInit, CountInv, ClientInv, GuardInv, NoRequest, NoJob, Jobs, Results
<1>2. TypeOK /\ QueueInv /\ CountInv /\ ClientInv /\ GuardInv => DetachedTypeOK
  <2> SUFFICES ASSUME TypeOK, QueueInv, CountInv, ClientInv, GuardInv PROVE DetachedTypeOK
    OBVIOUS
  <2>1. issued \in 0..MaxJobs /\ queue \subseteq Jobs
    BY CountsAssumption DEF QueueInv, Jobs
  <2>2. running \in [Slots -> Jobs \cup {NoJob}]
    BY CountsAssumption DEF QueueInv, Jobs, NoJob
  <2>3. commits \in [Jobs -> 0..MaxTries]
    BY CountsAssumption DEF CountInv
  <2>4. QED
    BY <2>1, <2>2, <2>3 DEF QueueInv, CountInv, ClientInv, GuardInv, DetachedTypeOK
<1>3. QED
  BY <1>1, <1>2, CountStep, ClientStep, GuardStep, QueueInvariant, StepsOfUpdateLock, TypeInvariant, PTL
     DEF DetachedSpec
=============================================================================
