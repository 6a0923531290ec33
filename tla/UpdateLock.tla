----------------------------- MODULE UpdateLock -----------------------------
(***************************************************************************)
(* The Redis key "glossary" that guards the nightly and on-demand refresh  *)
(* of the glossary from the Excel file.                                    *)
(*                                                                         *)
(* GlossaryService.update_glossary_from_xlsx is called by the cron job, by *)
(* every arq job slot and, once per container start, by pre_launch.py.     *)
(* Each call reads the key, refuses or goes on, SETs "updating" with a     *)
(* second command, downloads the file, commits to the database, uploads    *)
(* ERRORS.xlsx and finally deletes the key or turns it into "blocked".     *)
(* Nothing in the key says who wrote it.  Every gunicorn worker deletes    *)
(* the key when it starts (the lifespan of app/main.py).                   *)
(*                                                                         *)
(* One action is one await of the code: one Redis command, one EDU call,   *)
(* one database transaction.  The transaction is a single step here; its   *)
(* statements are the subject of GlossaryDB.                               *)
(***************************************************************************)
EXTENDS Integers

CONSTANTS
    Updaters,      \* callers of update_glossary_from_xlsx
    Forced,        \* the callers that pass raise_blocked=False
    Boot,          \* the caller in pre_launch.py
    AppWorkers,    \* gunicorn workers of the app container
    BlockMinutes,  \* APP_GLOSSARY_AFTER_UPDATE_BLOCK_MINUTES
    Faults         \* which failures of the environment happen

ASSUME UpdatersAssumption == Forced \subseteq Updaters /\ Boot \in Forced
ASSUME BlockAssumption    == BlockMinutes \in Int
ASSUME FaultsAssumption   ==
    Faults \subseteq {"redis", "edu", "db", "cancel", "worker", "restart"}

VARIABLES
    key,        \* the value of "glossary" in Redis
    pc,         \* the await each caller is at
    status,     \* the call's local variable `status`: what GET returned
    committed,  \* this call has committed its database transaction
    reply,      \* how the caller's last call ended
    app,        \* the app container: running pre_launch.py or serving
    up,         \* the gunicorn workers that have started
    incidents   \* history: what has gone wrong with the key so far

vars == <<key, pc, status, committed, reply, app, up, incidents>>

NoKey     == "none"      \* GET returns None
KeyValues == {NoKey, "updating", "blocked"}
NotRead   == "not_read"

\* Where a call may have the key set.
Holding == {"acquire", "fetch", "sync", "upload", "cleanup", "finish"}

\* The calls that have set the key and are downloading, committing or uploading.
Working(u) == pc[u] \in {"fetch", "sync", "upload"}

TypeOK ==
    /\ key \in KeyValues
    /\ pc \in [Updaters -> {"idle", "ping", "check", "acquire", "fetch", "sync",
                            "upload", "cleanup", "finish"}]
    /\ status \in [Updaters -> KeyValues \cup {NotRead}]
    /\ committed \in [Updaters -> BOOLEAN]
    /\ reply \in [Updaters -> {"pending", "refused", "modified", "failed",
                               "unbound", "cancelled"}]
    /\ app \in {"prelaunch", "serving"}
    /\ up \subseteq AppWorkers
    /\ incidents \subseteq {"race", "stolen", "cut"}

Init ==
    /\ key = NoKey
    /\ pc = [u \in Updaters |-> "idle"]
    /\ status = [u \in Updaters |-> NotRead]
    /\ committed = [u \in Updaters |-> FALSE]
    /\ reply = [u \in Updaters |-> "pending"]
    /\ app = "prelaunch"
    /\ up = {}
    /\ incidents = {}

-----------------------------------------------------------------------------
(* The pieces of the call                                                  *)

\* Variant: the same test with `and` binding last, as it may be misread.
MayUpdateRegrouped(u, s) == ~((s = "updating" \/ u \notin Forced) /\ s = "blocked")

\* `status == "updating" or raise_blocked and status == "blocked"`, negated.
MayUpdate(u, s) ==
    /\ s # "updating"
    /\ u \in Forced \/ s # "blocked"

\* Variant: a value no reader of the key knows.
AfterUpdateMisspelt == IF BlockMinutes > 0 THEN "block" ELSE NoKey

\* What the else branch leaves in the key.
AfterUpdate == IF BlockMinutes > 0 THEN "blocked" ELSE NoKey

\* Variant: the except branch forgets to delete the key.
WrittenWithoutDelete(u) ==
    CASE pc[u] = "acquire" -> "updating"
      [] pc[u] = "finish"  -> AfterUpdate
      [] OTHER             -> key

\* The value the Redis command the call is at would write.
Written(u) ==
    CASE pc[u] = "acquire" -> "updating"
      [] pc[u] = "cleanup" -> NoKey
      [] pc[u] = "finish"  -> AfterUpdate
      [] OTHER             -> key

Goto(u, label) == pc' = [pc EXCEPT ![u] = label]

\* The call is over and its local variables are gone.
End(u, answer) ==
    /\ Goto(u, "idle")
    /\ status' = [status EXCEPT ![u] = NotRead]
    /\ reply' = [reply EXCEPT ![u] = answer]

\* History only.  "race": a SET lands on an "updating" the call has not seen.
\* "stolen": an "updating" is taken away while another call works under it.
\* "cut": a call that may have set the key ended before it could release it.
Note(u, new, cut) ==
    incidents' = incidents \cup cut
        \cup {i \in {"race"} : /\ key = "updating" /\ new = "updating"
                               /\ pc[u] = "acquire" /\ status[u] # "updating"}
        \cup {i \in {"stolen"} : /\ key = "updating" /\ new # "updating"
                                 /\ \E v \in Updaters \ {u} : Working(v)}

SetKey(u, new) == key' = new /\ Note(u, new, {})

\* The call breaks off; the command it was at may or may not reach Redis.
CutOff(u) ==
    \E new \in {key, Written(u)} :
        key' = new /\ Note(u, new, {i \in {"cut"} : pc[u] \in Holding})

KeepKey        == UNCHANGED <<key, incidents>>
KeepBoot       == UNCHANGED <<app, up>>

-----------------------------------------------------------------------------
(* update_glossary_from_xlsx, one action per await                         *)

\* The call begins.  pre_launch.py calls once, before gunicorn is started.
Start(u) ==
    /\ pc[u] = "idle"
    /\ u = Boot => app = "prelaunch" /\ reply[u] = "pending"
    /\ Goto(u, "ping")
    /\ committed' = [committed EXCEPT ![u] = FALSE]
    /\ reply' = [reply EXCEPT ![u] = "pending"]
    /\ KeepKey /\ KeepBoot
    /\ UNCHANGED status

Ping(u) ==
    /\ pc[u] = "ping"
    /\ Goto(u, "check")
    /\ KeepKey /\ KeepBoot
    /\ UNCHANGED <<status, committed, reply>>

\* redis.pipe() raises before `pipe` is bound, and the except branch uses it.
PingFails(u) ==
    /\ "redis" \in Faults
    /\ pc[u] = "ping"
    /\ End(u, "unbound")
    /\ KeepKey /\ KeepBoot
    /\ UNCHANGED committed

\* Variant: the refusal too takes the branch that deletes the key.
CheckWithoutExemption(u) ==
    /\ pc[u] = "check"
    /\ status' = [status EXCEPT ![u] = key]
    /\ Goto(u, IF MayUpdate(u, key) THEN "acquire" ELSE "cleanup")
    /\ KeepKey /\ KeepBoot
    /\ UNCHANGED <<committed, reply>>

\* Variant: a refused call waits for the key instead of raising.
CheckWaiting(u) ==
    /\ pc[u] = "check"
    /\ MayUpdate(u, key)
    /\ Goto(u, "acquire")
    /\ status' = [status EXCEPT ![u] = key]
    /\ KeepKey /\ KeepBoot
    /\ UNCHANGED <<committed, reply>>

\* GET, and the decision taken on its result before the next await.
Check(u) ==
    /\ pc[u] = "check"
    /\ \/ /\ MayUpdate(u, key)
          /\ Goto(u, "acquire")
          /\ status' = [status EXCEPT ![u] = key]
          /\ UNCHANGED reply
       \/ /\ ~MayUpdate(u, key)
          /\ End(u, "refused")
    /\ KeepKey /\ KeepBoot
    /\ UNCHANGED committed

\* A failed GET is an ordinary exception: the except branch deletes the key.
CheckFails(u) ==
    /\ "redis" \in Faults
    /\ pc[u] = "check"
    /\ Goto(u, "cleanup")
    /\ KeepKey /\ KeepBoot
    /\ UNCHANGED <<status, committed, reply>>

Acquire(u) ==
    /\ pc[u] = "acquire"
    /\ SetKey(u, Written(u))
    /\ Goto(u, "fetch")
    /\ KeepBoot
    /\ UNCHANGED <<status, committed, reply>>

\* The command or its answer is lost: the key may or may not be written.
AcquireFails(u) ==
    /\ "redis" \in Faults
    /\ pc[u] = "acquire"
    /\ \E new \in {key, Written(u)} : SetKey(u, new)
    /\ Goto(u, "cleanup")
    /\ KeepBoot
    /\ UNCHANGED <<status, committed, reply>>

\* GLOSS.xlsx is downloaded, parsed and cleaned.
Fetch(u) ==
    /\ pc[u] = "fetch"
    /\ \/ Goto(u, "sync")
       \/ "edu" \in Faults /\ Goto(u, "cleanup")
    /\ KeepKey /\ KeepBoot
    /\ UNCHANGED <<status, committed, reply>>

\* The transaction commits; ERRORS.xlsx is uploaded only if rows were rejected.
Sync(u) ==
    /\ pc[u] = "sync"
    /\ committed' = [committed EXCEPT ![u] = TRUE]
    /\ \E next \in {"upload", "finish"} : Goto(u, next)
    /\ KeepKey /\ KeepBoot
    /\ UNCHANGED <<status, reply>>

\* Variant: a failed transaction is swallowed.
SyncFailsSwallowed(u) ==
    /\ "db" \in Faults
    /\ pc[u] = "sync"
    /\ Goto(u, "finish")
    /\ KeepKey /\ KeepBoot
    /\ UNCHANGED <<status, committed, reply>>

SyncFails(u) ==
    /\ "db" \in Faults
    /\ pc[u] = "sync"
    /\ Goto(u, "cleanup")
    /\ KeepKey /\ KeepBoot
    /\ UNCHANGED <<status, committed, reply>>

Upload(u) ==
    /\ pc[u] = "upload"
    /\ \/ Goto(u, "finish")
       \/ "edu" \in Faults /\ Goto(u, "cleanup")
    /\ KeepKey /\ KeepBoot
    /\ UNCHANGED <<status, committed, reply>>

\* `except Exception`: delete the key, whoever wrote it, and raise.
Cleanup(u) ==
    /\ pc[u] = "cleanup"
    /\ SetKey(u, Written(u))
    /\ End(u, "failed")
    /\ KeepBoot
    /\ UNCHANGED committed

\* `else`: block further on-demand updates, or just delete the key.
Finish(u) ==
    /\ pc[u] = "finish"
    /\ SetKey(u, Written(u))
    /\ End(u, "modified")
    /\ KeepBoot
    /\ UNCHANGED committed

\* Redis fails in the except or the else branch: nothing handles it there.
ReleaseFails(u) ==
    /\ "redis" \in Faults
    /\ pc[u] \in {"cleanup", "finish"}
    /\ CutOff(u)
    /\ End(u, "failed")
    /\ KeepBoot
    /\ UNCHANGED committed

\* An arq job timeout or a worker shutdown raises CancelledError, which is not
\* an Exception: neither branch runs.  A command in flight may still land.
Cancel(u) ==
    /\ "cancel" \in Faults
    /\ u # Boot
    /\ pc[u] # "idle"
    /\ CutOff(u)
    /\ \/ UNCHANGED committed
       \/ pc[u] = "sync" /\ committed' = [committed EXCEPT ![u] = TRUE]
    /\ End(u, "cancelled")
    /\ KeepBoot

-----------------------------------------------------------------------------
(* Redis and the app container                                             *)

\* The `ex` of the "blocked" key runs out.
Expire ==
    /\ key = "blocked"
    /\ key' = NoKey
    /\ UNCHANGED <<pc, status, committed, reply, app, up, incidents>>

\* `pre_launch.py --update-glossary silent && gunicorn`: any end will do.
Serve ==
    /\ app = "prelaunch"
    /\ pc[Boot] = "idle" /\ reply[Boot] # "pending"
    /\ app' = "serving"
    /\ UNCHANGED <<key, pc, status, committed, reply, up, incidents>>

\* A gunicorn worker starts: its lifespan deletes the key before it serves.
WorkerStart(w) ==
    /\ app = "serving"
    /\ w \notin up
    /\ up' = up \cup {w}
    /\ key' = NoKey
    /\ incidents' = incidents
        \cup {i \in {"stolen"} : key = "updating" /\ \E v \in Updaters : Working(v)}
    /\ UNCHANGED <<pc, status, committed, reply, app>>

\* gunicorn replaces a worker that died.
WorkerDies(w) ==
    /\ "worker" \in Faults
    /\ w \in up
    /\ up' = up \ {w}
    /\ UNCHANGED <<key, pc, status, committed, reply, app, incidents>>

\* The container is stopped and started: pre_launch.py runs again.
AppRestart ==
    /\ "restart" \in Faults
    /\ app' = "prelaunch"
    /\ up' = {}
    /\ CutOff(Boot)
    /\ End(Boot, "pending")
    /\ UNCHANGED committed

-----------------------------------------------------------------------------

\* What a call does by itself; its errors are alternatives of the same await.
Step(u) ==
    \/ Ping(u) \/ PingFails(u) \/ Check(u) \/ CheckFails(u)
    \/ Acquire(u) \/ AcquireFails(u) \/ Fetch(u) \/ Sync(u) \/ SyncFails(u)
    \/ Upload(u) \/ Cleanup(u) \/ Finish(u) \/ ReleaseFails(u)

Next ==
    \/ \E u \in Updaters : Start(u) \/ Step(u) \/ Cancel(u)
    \/ Expire
    \/ Serve
    \/ \E w \in AppWorkers : WorkerStart(w) \/ WorkerDies(w)
    \/ AppRestart

Spec == Init /\ [][Next]_vars

\* The event loops keep running the calls they have begun.
FairSpec == Spec /\ \A u \in Updaters : WF_vars(Step(u))

-----------------------------------------------------------------------------
(* Properties                                                              *)

\* Two updates run at once only after one of two things has happened: two
\* callers both saw the key free and both SET it (glossary.py:130-136), or the
\* key was taken from under a running update (glossary.py:200, 211, main.py:22).
\* In every other history, with any failure, the key is exclusive.
ExclusiveUntilMishap ==
    incidents \cap {"race", "stolen"} = {} =>
        \A u, v \in Updaters : Working(u) /\ Working(v) => u = v

\* "updating" in Redis stands for a call that has yet to release it, unless some
\* call was cut off before it could (glossary.py:197: CancelledError passes by;
\* 200, 205, 211: the release itself fails).  Then it may stay for ever.
HeldOrCut ==
    key = "updating" /\ "cut" \notin incidents =>
        \E u \in Updaters : pc[u] \in Holding \ {"acquire"}

\* What a caller is told: "modified" only after its commit, and a refused call
\* has touched nothing (glossary.py:133, 197-216).
ReplyHonest ==
    \A u \in Updaters :
        /\ reply[u] = "modified" => committed[u]
        /\ reply[u] \in {"refused", "unbound"} => ~committed[u]

\* While Redis answers, no call is cut off and no gunicorn worker starts, the
\* check-then-set race is the only hole: short of it, a working call always
\* finds its own "updating" in the key and is alone.
RaceIsTheOnlyHole ==
    "race" \notin incidents =>
        \A u \in Updaters : Working(u) =>
            key = "updating" /\ \A v \in Updaters : Working(v) => u = v

\* While Redis answers, "updating" is taken away only by a call that was itself
\* admitted, or by a starting gunicorn worker: a refused call leaves it alone
\* (the isinstance test of glossary.py:199).
OnlyTheAdmittedRelease ==
    [][key = "updating" /\ key' # "updating" =>
          \/ up' # up
          \/ \E u \in Updaters :
                /\ pc[u] \in {"cleanup", "finish"} /\ pc'[u] = "idle"
                /\ status[u] # NotRead /\ MayUpdate(u, status[u])]_vars

\* While Redis answers and no call is cut off, the key never stays "updating",
\* and every call ends, also under the races and failures of EDU and the database.
KeyIsReleased == key = "updating" ~> key # "updating"
EveryCallEnds == \A u \in Updaters : pc[u] # "idle" ~> pc[u] = "idle"

-----------------------------------------------------------------------------
(* What the repository says and the code does not do                       *)

\* glossary.py:129 asks "may we update?" and 135 answers "we may": then no other
\* update is running.
AtMostOneUpdate == \A u, v \in Updaters : Working(u) /\ Working(v) => u = v
=============================================================================
