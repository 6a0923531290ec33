------------------------------- MODULE Startup -------------------------------
(***************************************************************************)
(* The start of the containers of docker-compose.yml.  Each runs            *)
(* `pre_launch.py <command> && <main program>`: waits for PostgreSQL and    *)
(* creates the database, applies the migrations under yoyo's lock, makes a  *)
(* first refresh, and then becomes gunicorn, the scheduler or the arq       *)
(* worker.  Nothing restarts a container; somebody may launch it again.     *)
(*                                                                         *)
(* External: yoyo keeps its lock as a row, so it outlives the process;      *)
(* it runs a migration in one transaction and marks it as applied in the   *)
(* next.  database_exists of sqlalchemy_utils answers "no" when it cannot   *)
(* connect.  UpdateLock has the refresh and its key in detail.             *)
(***************************************************************************)
EXTENDS Integers, FiniteSets

CONSTANTS
    Containers,
    Gunicorn,     \* those whose main program is gunicorn
    Deployments,  \* what may be written in docker-compose.yml: container -> command
    Timeout,      \* wait_for_database_timeout
    Pause,        \* database_reconnect_timeout
    MaxLaunches,  \* bound: launches of all containers
    MaxStops      \* bound: stops of PostgreSQL and of containers

Commands == [wait : BOOLEAN, migrate : BOOLEAN, update : {"no", "silent", "strict"}]

ASSUME ContainersAssumption ==
    /\ Gunicorn \subseteq Containers /\ Deployments \subseteq [Containers -> Commands]
    /\ "nobody" \notin Containers /\ "orphan" \notin Containers
ASSUME TimesAssumption ==
    Timeout \in Nat /\ Pause \in Nat \ {0} /\ MaxLaunches \in Nat /\ MaxStops \in Nat

VARIABLES
    command,    \* the arguments of each pre_launch.py
    pc,         \* where each container is
    waited,     \* seconds since wait_for_db began
    plan,       \* whether to_apply returned the migration
    refreshed,  \* whether the first refresh of this start succeeded
    up,         \* whether PostgreSQL runs
    database,   \* "absent", "empty", "tables" or "marked"
    lock,       \* who wrote the row of yoyo's lock
    key,        \* the Redis key `glossary`
    calm,       \* history: PostgreSQL ran during the whole start so far
    cut,        \* history: "migration" if one was interrupted, "refresh" if one ended
                \* without having released the key
    launches, stops

vars == <<command, pc, waited, plan, refreshed, up, database, lock, key, calm,
          cut, launches, stops>>
world == <<command, up, calm, launches, stops>>

Nobody == "nobody"
Off    == {"down", "failed"}
Serving == {"running", "working"}
Migrating == {"plan", "apply", "mark", "unlock"}
Updating  == {"refreshing", "working"}

HasTables == database \in {"tables", "marked"}

At(c, label) == pc[c] = label
Goto(c, label) == pc' = [pc EXCEPT ![c] = label]

-----------------------------------------------------------------------------

Init ==
    /\ command \in Deployments
    /\ pc = [c \in Containers |-> "down"]
    /\ waited = [c \in Containers |-> 0]
    /\ plan = [c \in Containers |-> FALSE]
    /\ refreshed = [c \in Containers |-> FALSE]
    /\ up \in BOOLEAN
    /\ database = "absent"
    /\ lock = Nobody
    /\ key = "free"
    /\ calm = [c \in Containers |-> FALSE]
    /\ cut = {}
    /\ launches = 0 /\ stops = 0

\* The two checks after parse_args.
Accepted(args) ==
    /\ args.migrate => args.wait
    /\ args.update # "no" => args.migrate

AfterWait(c)    == IF command[c].migrate THEN "lock" ELSE "main"
AfterMigrate(c) == IF command[c].update # "no" THEN "import" ELSE "main"

Launch(c) ==
    /\ pc[c] \in Off
    /\ launches < MaxLaunches
    /\ launches' = launches + 1
    /\ Goto(c, IF ~Accepted(command[c]) THEN "failed"
               ELSE IF command[c].wait THEN "exists" ELSE "main")
    /\ waited' = [waited EXCEPT ![c] = 0]
    /\ plan' = [plan EXCEPT ![c] = FALSE]
    /\ refreshed' = [refreshed EXCEPT ![c] = FALSE]
    /\ calm' = [calm EXCEPT ![c] = up]
    /\ UNCHANGED <<command, up, database, lock, key, cut, stops>>

-----------------------------------------------------------------------------
(* wait_for_db                                                             *)

\* Variant: the elapsed time is not looked at.
RetryForever(c) ==
    /\ Goto(c, "exists")
    /\ UNCHANGED waited

\* Variant: the time is taken before the attempt.
RetryLate(c) ==
    \E took \in IF up THEN {0} ELSE {0, Timeout} :
        IF waited[c] >= Timeout
        THEN Goto(c, "failed") /\ UNCHANGED waited
        ELSE /\ Goto(c, "exists")
             /\ waited' = [waited EXCEPT ![c] = @ + took + Pause]

\* Variant: only a failed connect is retried.
RetryConnect(c) ==
    /\ IF At(c, "connect") THEN Goto(c, "exists") ELSE Goto(c, "failed")
    /\ UNCHANGED waited

\* The except branch.  An attempt takes no time worth mentioning if the server is
\* there, and may take any time if it is not.
Retry(c) ==
    \E took \in IF up THEN {0} ELSE {0, Timeout} :
        IF waited[c] + took >= Timeout
        THEN Goto(c, "failed") /\ UNCHANGED waited
        ELSE /\ Goto(c, "exists")
             /\ waited' = [waited EXCEPT ![c] = @ + took + Pause]

AskExists(c) ==
    /\ At(c, "exists")
    /\ Goto(c, IF up /\ database # "absent" THEN "connect" ELSE "create")
    /\ UNCHANGED <<world, waited, plan, refreshed, database, lock, key, cut>>

\* CREATE DATABASE fails without the server, and if another container was faster.
CreateDatabase(c) ==
    /\ At(c, "create")
    /\ IF up /\ database = "absent"
       THEN database' = "empty" /\ Goto(c, "connect") /\ UNCHANGED waited
       ELSE Retry(c) /\ UNCHANGED database
    /\ UNCHANGED <<world, plan, refreshed, lock, key, cut>>

Connect(c) ==
    /\ At(c, "connect")
    /\ IF up THEN Goto(c, AfterWait(c)) /\ waited' = [waited EXCEPT ![c] = 0] ELSE Retry(c)
    /\ UNCHANGED <<world, plan, refreshed, database, lock, key, cut>>

-----------------------------------------------------------------------------
(* migrate                                                                 *)

\* Variant: to_apply before the lock is taken.
LockPlanned(c) ==
    /\ At(c, "lock")
    /\ \/ ~plan[c] /\ plan' = [plan EXCEPT ![c] = database # "marked"] /\ UNCHANGED <<pc, lock>>
       \/ /\ up /\ lock = Nobody
          /\ lock' = c /\ Goto(c, "apply") /\ UNCHANGED plan
       \/ (~up \/ lock # Nobody) /\ Goto(c, "failed") /\ UNCHANGED <<lock, plan>>
    /\ UNCHANGED <<world, waited, refreshed, database, key, cut>>

\* get_backend and the insertion of the lock's row, which gives up after a while.
Lock(c) ==
    /\ At(c, "lock")
    /\ \/ /\ up /\ lock = Nobody
          /\ lock' = c /\ Goto(c, "plan")
       \/ (~up \/ lock # Nobody) /\ Goto(c, "failed") /\ UNCHANGED lock
    /\ UNCHANGED <<world, waited, plan, refreshed, database, key, cut>>

\* to_apply
Plan(c) ==
    /\ At(c, "plan")
    /\ plan' = [plan EXCEPT ![c] = database # "marked"]
    /\ Goto(c, "apply")
    /\ UNCHANGED <<world, waited, refreshed, database, lock, key, cut>>

\* apply_migrations: CREATE fails for what is there already, and the lock's row is
\* deleted on the way out.
Apply(c) ==
    /\ At(c, "apply")
    /\ \/ ~plan[c] /\ Goto(c, "unlock") /\ UNCHANGED <<database, lock>>
       \/ /\ plan[c] /\ ~HasTables
          /\ database' = "tables" /\ Goto(c, "mark") /\ UNCHANGED lock
       \/ plan[c] /\ HasTables /\ Goto(c, "failed") /\ lock' = Nobody /\ UNCHANGED database
    /\ UNCHANGED <<world, waited, plan, refreshed, key, cut>>

Mark(c) ==
    /\ At(c, "mark")
    /\ database' = "marked"
    /\ Goto(c, "unlock")
    /\ UNCHANGED <<world, waited, plan, refreshed, lock, key, cut>>

Unlock(c) ==
    /\ At(c, "unlock")
    /\ lock' = Nobody
    /\ Goto(c, AfterMigrate(c))
    /\ UNCHANGED <<world, waited, plan, refreshed, database, key, cut>>

-----------------------------------------------------------------------------
(* update_glossary, and refreshes of the scheduler and the arq worker      *)

\* Variant: strict goes on like silent.
RaisedSwallowed(c) == Goto(c, "main")

\* The except branch of the first refresh.
Raised(c) == Goto(c, IF command[c].update = "strict" THEN "failed" ELSE "main")

\* Importing UnitOfWork imports models.py, which reflects the database at once.
Import(c) ==
    /\ At(c, "import")
    /\ IF up THEN Goto(c, "refresh") ELSE Raised(c)
    /\ UNCHANGED <<world, waited, plan, refreshed, database, lock, key, cut>>

\* Variant: the except branch does not delete the key.
ReleaseNot == UNCHANGED <<key, cut>>

\* How a refresh leaves the key that ends with an error: deleted by its except branch,
\* or, if Redis does not answer or the job is cancelled, as it is.
Release ==
    \/ key' = "free" /\ UNCHANGED cut
    \/ UNCHANGED key /\ cut' = cut \cup {"refresh"}

\* update_glossary_from_xlsx(raise_blocked=False) up to its SET.  It is refused, or Redis
\* does not answer: to the PING, or to the GET or the SET, which may have landed.
Refresh(c) ==
    /\ At(c, "refresh")
    /\ \/ /\ key # "updating"
          /\ key' = "updating"
          /\ Goto(c, "refreshing")
          /\ UNCHANGED cut
       \/ Raised(c) /\ UNCHANGED <<key, cut>>
       \/ Raised(c) /\ Release
       \/ Raised(c) /\ key' = "updating" /\ cut' = cut \cup {"refresh"}
    /\ UNCHANGED <<world, waited, plan, refreshed, database, lock>>

EndRefresh(c) ==
    /\ At(c, "refreshing")
    /\ \/ /\ up /\ HasTables
          /\ key' \in {"free", "blocked"}
          /\ refreshed' = [refreshed EXCEPT ![c] = TRUE]
          /\ Goto(c, "main")
          /\ UNCHANGED cut
       \/ Release /\ Raised(c) /\ UNCHANGED refreshed
    /\ UNCHANGED <<world, waited, plan, database, lock>>

\* The main program imports models.py; a gunicorn worker deletes the key first, and
\* does not boot if Redis does not answer.
Main(c) ==
    /\ At(c, "main")
    /\ \/ /\ up /\ database # "absent"
          /\ key' = IF c \in Gunicorn THEN "free" ELSE key
          /\ Goto(c, "running")
       \/ /\ ~up \/ database = "absent" \/ c \in Gunicorn
          /\ Goto(c, "failed")
          /\ UNCHANGED key
    /\ UNCHANGED <<world, waited, plan, refreshed, database, lock, cut>>

\* A refresh by cron or by an arq job.
Work(c) ==
    /\ At(c, "running") /\ c \notin Gunicorn
    /\ key # "updating"
    /\ key' = "updating"
    /\ Goto(c, "working")
    /\ UNCHANGED <<world, waited, plan, refreshed, database, lock, cut>>

EndWork(c) ==
    /\ At(c, "working")
    /\ \/ Release
       \/ key' = "blocked" /\ up /\ HasTables /\ UNCHANGED cut
    /\ Goto(c, "running")
    /\ UNCHANGED <<world, waited, plan, refreshed, database, lock>>

-----------------------------------------------------------------------------
(* Stops                                                                   *)

\* Those in S can neither finish their migration or their refresh nor delete the row
\* of the lock and the key.
Interrupt(S) ==
    /\ stops < MaxStops
    /\ stops' = stops + 1
    /\ cut' = cut \cup {i \in {"migration"} : \E c \in S : pc[c] \in Migrating}
                  \cup {i \in {"refresh"} : \E c \in S : pc[c] \in Updating}
    /\ lock' = IF lock \in S THEN "orphan" ELSE lock
    /\ UNCHANGED <<command, waited, plan, refreshed, database, key, launches>>

\* A container is stopped or dies; what it holds in Redis and PostgreSQL stays.
Stop(c) ==
    /\ pc[c] \notin Off
    /\ Interrupt({c})
    /\ Goto(c, "down")
    /\ UNCHANGED <<up, calm>>

\* PostgreSQL stops: open connections break.
ServerStops ==
    /\ up
    /\ up' = FALSE
    /\ LET Broken == {c \in Containers : pc[c] \in Migrating} IN
       /\ Interrupt(Broken)
       /\ pc' = [c \in Containers |-> IF c \in Broken THEN "failed" ELSE pc[c]]
    /\ calm' = [c \in Containers |-> FALSE]

ServerStarts ==
    /\ ~up
    /\ up' = TRUE
    /\ UNCHANGED <<command, pc, waited, plan, refreshed, database, lock, key, calm,
                   cut, launches, stops>>

-----------------------------------------------------------------------------

\* What a container does by itself.
Step(c) ==
    \/ AskExists(c) \/ CreateDatabase(c) \/ Connect(c)
    \/ Lock(c) \/ Plan(c) \/ Apply(c) \/ Mark(c) \/ Unlock(c)
    \/ Import(c) \/ Refresh(c) \/ EndRefresh(c) \/ Main(c)

Next ==
    \/ \E c \in Containers : Launch(c) \/ Step(c) \/ Work(c) \/ EndWork(c) \/ Stop(c)
    \/ ServerStops \/ ServerStarts

Spec == Init /\ [][Next]_vars

\* A process that runs goes on.  PostgreSQL need not come up, and nobody has to
\* launch anything.
FairSpec == Spec /\ \A c \in Containers : WF_vars(Step(c))

-----------------------------------------------------------------------------
(* Properties                                                              *)

TypeOK ==
    /\ command \in Deployments
    /\ pc \in [Containers -> Off \cup Serving \cup Migrating \cup
                 {"exists", "create", "connect", "lock", "import", "refresh", "refreshing", "main"}]
    /\ waited \in [Containers -> 0..(Timeout + Pause - 1)]
    /\ plan \in [Containers -> BOOLEAN] /\ refreshed \in [Containers -> BOOLEAN]
    /\ up \in BOOLEAN /\ cut \subseteq {"migration", "refresh"} /\ calm \in [Containers -> BOOLEAN]
    /\ database \in {"absent", "empty", "tables", "marked"}
    /\ lock \in Containers \cup {Nobody, "orphan"}
    /\ key \in {"free", "blocked", "updating"}
    /\ launches \in 0..MaxLaunches /\ stops \in 0..MaxStops

\* A main program behind --migrate finds its tables, and behind a strict
\* --update-glossary a refreshed glossary, whatever was stopped and launched again
\* and whoever else was starting (pre_launch.py:98-124).
ServesOnlyWhenReady ==
    \A c \in Containers : pc[c] \in Serving =>
        /\ command[c].migrate => database = "marked"
        /\ command[c].update = "strict" => refreshed[c]

\* While PostgreSQL runs, containers that create the database, migrate or refresh at the
\* same time do not trip over each other: a start fails only for its arguments, for a
\* migration that runs elsewhere at that time or was interrupted once, or for Redis
\* under gunicorn; and a strict first refresh is refused only because of a refresh that
\* runs elsewhere at that time, or of one that ended without releasing the key
\* (pre_launch.py:23-28, 55-56, 113-124).
FailsForAReason ==
    [][\A c \in Containers : calm'[c] /\ pc[c] # "failed" /\ pc'[c] = "failed" =>
        \/ ~Accepted(command[c]) \/ ~command[c].wait
        \/ pc[c] = "main" /\ c \in Gunicorn
        \/ pc[c] = "lock" /\ \E d \in Containers \ {c} : pc[d] \in Migrating
        \/ pc[c] = "lock" /\ lock = "orphan" /\ "migration" \in cut
        \/ pc[c] = "apply" /\ database = "tables" /\ "migration" \in cut
        \/ /\ command[c].update = "strict"
           /\ \/ pc[c] = "refreshing"
              \/ pc[c] = "refresh" /\ key # "updating"   \* Redis does not answer
              \/ pc[c] = "refresh" /\ "refresh" \in cut
              \/ pc[c] = "refresh" /\ \E d \in Containers \ {c} : pc[d] \in Updating]_vars

\* Every start comes to an end, with or without PostgreSQL and whoever holds the lock
\* or the key (pre_launch.py:32-43).
EveryStartEnds ==
    \A c \in Containers : pc[c] \notin Off \cup Serving ~> pc[c] \in Off \cup Serving
=============================================================================
