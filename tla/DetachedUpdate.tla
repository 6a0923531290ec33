--------------------------- MODULE DetachedUpdate ---------------------------
(***************************************************************************)
(* GET /glossary/excel: the refresh a client asks for.  A gunicorn worker  *)
(* puts a job into the arq queue and waits for its result for at most      *)
(* APP_GLOSSARY_UPDATE_TIMEOUT seconds; a slot of the arq container runs   *)
(* update_glossary_from_xlsx.  The slots are Updaters of UpdateLock, and   *)
(* this module composes the queue, the waiting requests and the key.       *)
(*                                                                         *)
(* arq keeps a job in Redis until its result is stored.  A job that is     *)
(* interrupted by a shutdown or a crash, or whose result could not be      *)
(* stored, is run again, at most MaxTries times; a job that runs for too   *)
(* long is cancelled and has TimeoutError for its result.                  *)
(***************************************************************************)
EXTENDS UpdateLock

CONSTANTS
    Clients,    \* requests that may be open at once
    Slots,      \* the arq jobs that may run at once
    MaxTries,   \* max_tries of the arq worker
    QueueFails, \* whether Redis may fail under the queue's commands
    MaxJobs     \* bound: jobs in one behaviour

ASSUME SlotsAssumption == Slots \subseteq Updaters \ Forced
ASSUME CountsAssumption ==
    MaxTries \in Nat /\ MaxJobs \in Nat /\ QueueFails \in BOOLEAN

VARIABLES
    issued,   \* jobs so far
    queue,    \* jobs in Redis that no slot is running
    running,  \* the job of each slot
    tries,    \* how often each job has been started
    result,   \* what is stored under each job
    commits,  \* history: the database transactions each job has committed
    guarded,  \* history: the jobs since whose commit the key has been "updating"
    request,  \* the open request of each client: its job and gunicorn worker
    answer    \* how the last request of each client ended, and the job whose
              \* result it was given

queueVars  == <<issued, queue, running, tries, result, commits>>
clientVars == <<request, answer>>
allVars    == <<vars, queueVars, guarded, clientVars>>

Jobs      == 1..MaxJobs
NoJob     == 0
NoRequest == [job |-> NoJob, worker |-> "none"]
Results   == {"modified", "refused", "failed", "unbound", "timeout"}

DetachedInit ==
    /\ Init
    /\ issued = 0
    /\ queue = {}
    /\ running = [s \in Slots |-> NoJob]
    /\ tries = [j \in Jobs |-> 0]
    /\ result = [j \in Jobs |-> "none"]
    /\ commits = [j \in Jobs |-> 0]
    /\ guarded = {}
    /\ request = [c \in Clients |-> NoRequest]
    /\ answer = [c \in Clients |-> [job |-> NoJob, what |-> "none"]]

-----------------------------------------------------------------------------
(* update_glossary_from_xlsx_detached, in a gunicorn worker                *)

Reply(c, job, what) ==
    /\ answer' = [answer EXCEPT ![c] = [job |-> job, what |-> what]]
    /\ request' = [request EXCEPT ![c] = NoRequest]

NewJob == issued + 1

\* create_pool and enqueue_job: a new job under a name of its own.
Enqueue(c) ==
    /\ request[c] = NoRequest
    /\ issued < MaxJobs
    /\ \E w \in up : request' = [request EXCEPT ![c] = [job |-> NewJob, worker |-> w]]
    /\ issued' = NewJob
    /\ queue' = queue \cup {NewJob}
    /\ UNCHANGED <<vars, running, tries, result, commits, guarded, answer>>

\* Redis fails there: the job may be in the queue all the same.
EnqueueFails(c) ==
    /\ QueueFails
    /\ request[c] = NoRequest /\ up # {}
    /\ \/ /\ issued < MaxJobs
          /\ issued' = NewJob /\ queue' = queue \cup {NewJob}
       \/ UNCHANGED <<issued, queue>>
    /\ Reply(c, NoJob, "failed")
    /\ UNCHANGED <<vars, running, tries, result, commits, guarded>>

\* job.result(timeout=...) finds the result: returned, or raised again.
Poll(c) ==
    /\ request[c].job # NoJob
    /\ result[request[c].job] # "none"
    /\ Reply(c, request[c].job, result[request[c].job])
    /\ UNCHANGED <<vars, queueVars, guarded>>

\* The time is up: RequestTimeoutError, and the job goes on.
GiveUp(c) ==
    /\ request[c].job # NoJob
    /\ Reply(c, NoJob, "timeout")
    /\ UNCHANGED <<vars, queueVars, guarded>>

PollFails(c) ==
    /\ QueueFails
    /\ request[c].job # NoJob
    /\ Reply(c, NoJob, "failed")
    /\ UNCHANGED <<vars, queueVars, guarded>>

\* The requests of gunicorn workers that are no longer up end without an answer.
HangUp ==
    /\ request' = [c \in Clients |-> IF request[c].worker \in up' THEN request[c]
                                     ELSE NoRequest]
    /\ answer' = [c \in Clients |->
                    IF request[c] # NoRequest /\ request[c].worker \notin up'
                    THEN [job |-> NoJob, what |-> "broken"] ELSE answer[c]]

-----------------------------------------------------------------------------
(* The arq worker                                                          *)

\* Variant: nobody counts how often a job has been tried.
TakeUncounted(s) ==
    /\ running[s] = NoJob
    /\ \E j \in queue :
        /\ \A k \in queue : j <= k
        /\ running' = [running EXCEPT ![s] = j]
        /\ queue' = queue \ {j}
        /\ tries' = [tries EXCEPT ![j] = @ + 1]
    /\ Start(s)
    /\ UNCHANGED <<issued, result, commits, guarded, clientVars>>

\* A free slot takes the oldest job and calls update_glossary_from_xlsx().
Take(s) ==
    /\ running[s] = NoJob
    /\ \E j \in queue :
        /\ \A k \in queue : j <= k
        /\ tries[j] < MaxTries
        /\ running' = [running EXCEPT ![s] = j]
        /\ queue' = queue \ {j}
        /\ tries' = [tries EXCEPT ![j] = @ + 1]
    /\ Start(s)
    /\ UNCHANGED <<issued, result, commits, guarded, clientVars>>

\* The job has been started too often.
Exhaust ==
    /\ \E j \in queue :
        /\ tries[j] = MaxTries
        /\ result' = [result EXCEPT ![j] = "failed"]
        /\ queue' = queue \ {j}
    /\ UNCHANGED <<vars, issued, running, tries, commits, guarded, clientVars>>

\* The key guards a job from its commit until it is first found in another state.
Guard ==
    guarded' = {j \in Jobs : key' = "updating" /\ (j \in guarded \/ commits'[j] > commits[j])}

\* The transaction of the slot's job commits in this step.
CountCommit(s) ==
    /\ commits' = IF committed'[s] /\ ~committed[s]
                  THEN [commits EXCEPT ![running[s]] = @ + 1] ELSE commits
    /\ Guard

Free(s) == running' = [running EXCEPT ![s] = NoJob]

\* The job's function ends and its result is stored.
Store(s, what) ==
    /\ result' = [result EXCEPT ![running[s]] = what]
    /\ Free(s)
    /\ UNCHANGED queue

\* Variant: an interrupted job is dropped.
RequeueNever(s) ==
    /\ Free(s)
    /\ UNCHANGED <<queue, result>>

\* The job stays in Redis for another try.
Requeue(s) ==
    /\ queue' = queue \cup {running[s]}
    /\ Free(s)
    /\ UNCHANGED result

\* Variant: a refused job is reported as done.
RunRefusedIsDone(s) ==
    /\ running[s] # NoJob
    /\ Step(s)
    /\ CountCommit(s)
    /\ \/ pc'[s] # "idle" /\ UNCHANGED <<queue, running, result>>
       \/ pc'[s] = "idle" /\ Store(s, IF reply'[s] = "refused" THEN "modified" ELSE reply'[s])
       \/ pc'[s] = "idle" /\ QueueFails /\ Requeue(s)
    /\ UNCHANGED <<issued, tries, clientVars>>

Run(s) ==
    /\ running[s] # NoJob
    /\ Step(s)
    /\ CountCommit(s)
    /\ \/ pc'[s] # "idle" /\ UNCHANGED <<queue, running, result>>
       \/ pc'[s] = "idle" /\ Store(s, reply'[s])
       \/ pc'[s] = "idle" /\ QueueFails /\ Requeue(s)
    /\ UNCHANGED <<issued, tries, clientVars>>

\* job_timeout: the call is cancelled for good.
JobTimeout(s) ==
    /\ running[s] # NoJob
    /\ Cancel(s)
    /\ CountCommit(s)
    /\ Store(s, "timeout")
    /\ UNCHANGED <<issued, tries, clientVars>>

\* The arq container is stopped or dies: the call is cut off and tried again.
Shutdown(s) ==
    /\ running[s] # NoJob
    /\ Cancel(s)
    /\ CountCommit(s)
    /\ Requeue(s)
    /\ UNCHANGED <<issued, tries, clientVars>>

-----------------------------------------------------------------------------
(* The other callers and the app container                                 *)

Others ==
    /\ \/ \E u \in Updaters \ Slots : Start(u) \/ Step(u) \/ Cancel(u)
       \/ Expire
       \/ Serve
       \/ \E w \in AppWorkers : WorkerStart(w)
    /\ UNCHANGED <<queueVars, clientVars>>
    /\ Guard

AppStops ==
    /\ AppRestart \/ \E w \in AppWorkers : WorkerDies(w)
    /\ HangUp
    /\ UNCHANGED queueVars
    /\ Guard

SlotNext(s) == Take(s) \/ Run(s)

DetachedNext ==
    \/ \E c \in Clients : Enqueue(c) \/ EnqueueFails(c) \/ Poll(c) \/ GiveUp(c) \/ PollFails(c)
    \/ \E s \in Slots : SlotNext(s) \/ JobTimeout(s) \/ Shutdown(s)
    \/ Exhaust
    \/ Others
    \/ AppStops

DetachedSpec == DetachedInit /\ [][DetachedNext]_allVars

\* The arq worker takes the jobs there are and its event loop runs them.
FairDetachedSpec ==
    /\ DetachedSpec
    /\ \A s \in Slots : WF_allVars(SlotNext(s))
    /\ WF_allVars(Exhaust)

-----------------------------------------------------------------------------
(* Properties                                                              *)

DetachedTypeOK ==
    /\ TypeOK
    /\ issued \in 0..MaxJobs
    /\ queue \subseteq Jobs
    /\ running \in [Slots -> Jobs \cup {NoJob}]
    /\ tries \in [Jobs -> 0..MaxTries]
    /\ result \in [Jobs -> Results \cup {"none"}]
    /\ commits \in [Jobs -> 0..MaxTries]
    /\ guarded \subseteq Jobs
    /\ request \in [Clients -> [job : Jobs, worker : AppWorkers] \cup {NoRequest}]
    /\ answer \in [Clients -> [job : Jobs \cup {NoJob},
                               what : Results \cup {"none", "broken"}]]

\* No job is lost or doubled: an issued job is in the queue, or in exactly one slot,
\* or has its result, whatever is cancelled, restarted or timed out meanwhile, and a
\* slot runs a call of update_glossary_from_xlsx exactly while it has a job
\* (glossary.py:231, instant/tasks.py:15).
JobsAreKept ==
    /\ \A j \in 1..issued :
        /\ j \in queue \/ result[j] # "none" \/ \E s \in Slots : running[s] = j
        /\ j \in queue => result[j] = "none" /\ \A s \in Slots : running[s] # j
        /\ \A s \in Slots : running[s] = j =>
              result[j] = "none" /\ \A r \in Slots : running[r] = j => r = s
    /\ \A s \in Slots : running[s] = NoJob <=> pc[s] = "idle"

\* 200 means that this job has committed.  423 means that it has not, unless it was
\* tried again: then the refusal may come from the key its own first try left behind,
\* and that try may have committed (glossary.py:131, 197, 235).
AnswerHonest ==
    \A c \in Clients : LET j == answer[c].job IN
        /\ answer[c].what = "modified" => commits[j] > 0
        /\ answer[c].what \in {"refused", "unbound"} => commits[j] = 0 \/ tries[j] > 1

\* A job that was cut off after its commit and is run again does not apply the sheet a
\* second time while the "updating" of its own first try is still there; only this key
\* tells the second try (glossary.py:130-136, 231).
NotAppliedTwice == [][\A j \in guarded : commits'[j] = commits[j]]_allVars

\* Every job comes to an end, whether its client still waits or not, also if it is
\* interrupted again and again (glossary.py:231-240).
EveryJobEnds == \A j \in Jobs : j <= issued ~> result[j] # "none"
=============================================================================
