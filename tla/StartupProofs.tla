--------------------------- MODULE StartupProofs ---------------------------
(***************************************************************************)
(* Theorems about Startup, for every set of containers and of deployments, *)
(* any times, and any number of launches and stops.            *)
(***************************************************************************)
EXTENDS Startup, TLAPS

Stages == Off \cup Serving \cup Migrating \cup
            {"exists", "create", "connect", "lock", "import", "refresh", "refreshing", "main"}

\* Where a container that waits for the database is, and where it is after that and
\* after the migration.
Waiting  == {"exists", "create", "connect"}
Migrated == {"import", "refresh", "refreshing", "main"} \cup Serving
Later    == {"lock"} \cup Migrating \cup Migrated

\* A container that goes on goes to a stage.
LEMMA GotoType ==
    ASSUME TypeOK, NEW c \in Containers, NEW l \in Stages, Goto(c, l)
    PROVE  /\ pc' \in [Containers -> Stages] /\ pc'[c] = l
           /\ \A d \in Containers \ {c} : pc'[d] = pc[d]
BY DEF TypeOK, Goto, Stages

\* What the except branch of wait_for_db does.
LEMMA RetryMoves ==
    ASSUME TypeOK, NEW c \in Containers, Retry(c)
    PROVE  /\ waited' \in [Containers -> 0..(Timeout + Pause - 1)]
           /\ \A d \in Containers \ {c} : waited'[d] = waited[d]
           /\ Goto(c, "failed") \/ Goto(c, "exists")
           /\ up /\ waited[c] = 0 /\ Timeout # 0 => Goto(c, "exists")
<1> USE TimesAssumption DEF TypeOK
<1>1. PICK took \in IF up THEN {0} ELSE {0, Timeout} :
        IF waited[c] + took >= Timeout
        THEN Goto(c, "failed") /\ UNCHANGED waited
        ELSE /\ Goto(c, "exists")
             /\ waited' = [waited EXCEPT ![c] = @ + took + Pause]
  BY DEF Retry
<1>2. took \in Nat /\ waited[c] \in Nat /\ (up => took = 0)
  OBVIOUS
<1>3. CASE waited[c] + took >= Timeout
  <2>1. ~(up /\ waited[c] = 0 /\ Timeout # 0)
    BY <1>2, <1>3
  <2>2. QED
    BY <1>1, <1>3, <2>1
<1>4. CASE ~(waited[c] + took >= Timeout)
  <2>1. waited[c] + took + Pause \in 0..(Timeout + Pause - 1)
    BY <1>2, <1>4
  <2>2. waited' = [waited EXCEPT ![c] = waited[c] + took + Pause]
    BY <1>1, <1>4
  <2>3. QED
    BY <1>1, <1>4, <2>1, <2>2
<1>5. QED
  BY <1>3, <1>4

\* What a stop of some containers leaves of the lock and of the history.
LEMMA InterruptMoves ==
    ASSUME TypeOK, NEW S \in SUBSET Containers, Interrupt(S)
    PROVE  /\ stops' \in 0..MaxStops /\ cut' \subseteq {"migration", "refresh"}
           /\ cut \subseteq cut'
           /\ (\E c \in S : pc[c] \in Migrating) => "migration" \in cut'
           /\ (\E c \in S : pc[c] \in Updating) => "refresh" \in cut'
           /\ lock' = IF lock \in S THEN "orphan" ELSE lock
           /\ UNCHANGED <<command, waited, plan, refreshed, database, key, launches>>
<1>1. stops' \in 0..MaxStops
  BY TimesAssumption DEF TypeOK, Interrupt
<1>2. cut' = cut \cup {i \in {"migration"} : \E c \in S : pc[c] \in Migrating}
                 \cup {i \in {"refresh"} : \E c \in S : pc[c] \in Updating}
  BY DEF Interrupt
<1>3. cut' \subseteq {"migration", "refresh"} /\ cut \subseteq cut'
  BY <1>2 DEF TypeOK
<1>4. /\ (\E c \in S : pc[c] \in Migrating) => "migration" \in cut'
      /\ (\E c \in S : pc[c] \in Updating) => "refresh" \in cut'
  BY <1>2
<1>5. QED
  BY <1>1, <1>3, <1>4 DEF Interrupt

\* Every action keeps the ranges.
LEMMA TypeStep == TypeOK /\ [Next]_vars => TypeOK'
<1> SUFFICES ASSUME TypeOK, [Next]_vars PROVE TypeOK'
  OBVIOUS
<1> USE ContainersAssumption, TimesAssumption DEF world
<1>0. pc \in [Containers -> Stages]
  BY DEF TypeOK, Stages
<1>1. ASSUME NEW c \in Containers, Launch(c)
      PROVE  TypeOK'
  <2>1. \E l \in Stages : Goto(c, l)
    BY <1>1 DEF Launch, Stages, Off
  <2>2. pc' \in [Containers -> Stages]
    BY <2>1, GotoType
  <2>3. /\ waited' \in [Containers -> 0..(Timeout + Pause - 1)]
        /\ launches' \in 0..MaxLaunches
    BY <1>1 DEF Launch, TypeOK
  <2>4. /\ plan' \in [Containers -> BOOLEAN] /\ refreshed' \in [Containers -> BOOLEAN]
        /\ calm' \in [Containers -> BOOLEAN]
    BY <1>1 DEF Launch, TypeOK
  <2>5. QED
    BY <1>1, <2>2, <2>3, <2>4 DEF Launch, TypeOK, Stages
<1>2. ASSUME NEW c \in Containers, AskExists(c) \/ CreateDatabase(c) \/ Connect(c)
      PROVE  TypeOK'
  <2>1. \E l \in Stages : Goto(c, l)
    BY <1>2, RetryMoves DEF AskExists, CreateDatabase, Connect, AfterWait, Stages, Off
  <2>2. pc' \in [Containers -> Stages]
    BY <2>1, GotoType
  <2>3. waited' \in [Containers -> 0..(Timeout + Pause - 1)]
    <3>1. CASE AskExists(c)
      BY <3>1 DEF AskExists, TypeOK
    <3>2. CASE CreateDatabase(c)
      BY <3>2, RetryMoves DEF CreateDatabase, TypeOK
    <3>3. CASE Connect(c)
      BY <3>3, RetryMoves DEF Connect, TypeOK
    <3>4. QED
      BY <1>2, <3>1, <3>2, <3>3
  <2>4. database' \in {"absent", "empty", "tables", "marked"}
    BY <1>2 DEF AskExists, CreateDatabase, Connect, TypeOK
  <2>5. UNCHANGED <<world, plan, refreshed, lock, key, cut>>
    BY <1>2 DEF AskExists, CreateDatabase, Connect
  <2>6. QED
    BY <2>2, <2>3, <2>4, <2>5 DEF TypeOK, Stages
<1>3. ASSUME NEW c \in Containers, Lock(c) \/ Plan(c) \/ Apply(c) \/ Mark(c) \/ Unlock(c)
      PROVE  TypeOK'
  <2>1. \E l \in Stages : Goto(c, l)
    BY <1>3 DEF Lock, Plan, Apply, Mark, Unlock, AfterMigrate, Stages, Off, Migrating
  <2>2. pc' \in [Containers -> Stages]
    BY <2>1, GotoType
  <2>3. /\ lock' \in Containers \cup {Nobody, "orphan"}
        /\ database' \in {"absent", "empty", "tables", "marked"}
        /\ plan' \in [Containers -> BOOLEAN]
    BY <1>3 DEF Lock, Plan, Apply, Mark, Unlock, TypeOK
  <2>4. UNCHANGED <<world, waited, refreshed, key, cut>>
    BY <1>3 DEF Lock, Plan, Apply, Mark, Unlock
  <2>5. QED
    BY <2>2, <2>3, <2>4 DEF TypeOK, Stages
<1>4. ASSUME NEW c \in Containers, Import(c) \/ Refresh(c) \/ EndRefresh(c)
      PROVE  TypeOK'
  <2>1. \E l \in Stages : Goto(c, l)
    BY <1>4 DEF Import, Refresh, EndRefresh, Raised, Stages, Off
  <2>2. pc' \in [Containers -> Stages]
    BY <2>1, GotoType
  <2>3. /\ key' \in {"free", "blocked", "updating"} /\ refreshed' \in [Containers -> BOOLEAN]
        /\ cut' \subseteq {"migration", "refresh"}
    BY <1>4 DEF Import, Refresh, EndRefresh, Release, TypeOK
  <2>4. UNCHANGED <<world, waited, plan, database, lock>>
    BY <1>4 DEF Import, Refresh, EndRefresh
  <2>5. QED
    BY <2>2, <2>3, <2>4 DEF TypeOK, Stages
<1>5. ASSUME NEW c \in Containers, Main(c)
      PROVE  TypeOK'
  <2>1. \E l \in Stages : Goto(c, l)
    BY <1>5 DEF Main, Stages, Off, Serving
  <2>2. pc' \in [Containers -> Stages]
    BY <2>1, GotoType
  <2>3. key' \in {"free", "blocked", "updating"}
    BY <1>5 DEF Main, TypeOK
  <2>4. UNCHANGED <<world, waited, plan, refreshed, database, lock, cut>>
    BY <1>5 DEF Main
  <2>5. QED
    BY <2>2, <2>3, <2>4 DEF TypeOK, Stages
<1>6. ASSUME NEW c \in Containers, Work(c) \/ EndWork(c)
      PROVE  TypeOK'
  <2>1. \E l \in Stages : Goto(c, l)
    BY <1>6 DEF Work, EndWork, Stages, Serving
  <2>2. pc' \in [Containers -> Stages]
    BY <2>1, GotoType
  <2>3. key' \in {"free", "blocked", "updating"} /\ cut' \subseteq {"migration", "refresh"}
    BY <1>6 DEF Work, EndWork, Release, TypeOK
  <2>4. UNCHANGED <<world, waited, plan, refreshed, database, lock>>
    BY <1>6 DEF Work, EndWork
  <2>5. QED
    BY <2>2, <2>3, <2>4 DEF TypeOK, Stages
<1>7. ASSUME NEW c \in Containers, Stop(c)
      PROVE  TypeOK'
  <2>1. pc' \in [Containers -> Stages]
    BY <1>7, GotoType DEF Stop, Stages, Off
  <2>2. QED
    BY <1>7, <2>1, InterruptMoves DEF Stop, TypeOK, Stages
<1>8. CASE ServerStops
  <2>1. pc' \in [Containers -> Stages]
    BY <1>0, <1>8 DEF ServerStops, Stages, Off
  <2>2. PICK S \in SUBSET Containers : Interrupt(S)
    BY <1>8 DEF ServerStops
  <2>3. up' \in BOOLEAN /\ calm' \in [Containers -> BOOLEAN]
    BY <1>8 DEF ServerStops
  <2>4. QED
    BY <2>1, <2>2, <2>3, InterruptMoves DEF TypeOK, Stages
<1>9. CASE ServerStarts \/ UNCHANGED vars
  BY <1>9 DEF ServerStarts, vars, TypeOK
<1>10. QED
  BY <1>1, <1>2, <1>3, <1>4, <1>5, <1>6, <1>7, <1>8, <1>9 DEF Next, Step

\* No start waits longer than the time-out and one pause, and nothing leaves its range
\* (pre_launch.py:32-43).
THEOREM TypeInvariant == Spec => []TypeOK
<1>1. Init => TypeOK
  <2> SUFFICES ASSUME Init PROVE TypeOK
    OBVIOUS
  <2>1. 0 \in 0..(Timeout + Pause - 1) /\ 0 \in 0..MaxLaunches /\ 0 \in 0..MaxStops
    BY TimesAssumption
  <2>2. /\ waited \in [Containers -> 0..(Timeout + Pause - 1)]
        /\ pc \in [Containers -> Off]
    BY <2>1 DEF Init, Off
  <2>3. /\ plan \in [Containers -> BOOLEAN] /\ refreshed \in [Containers -> BOOLEAN]
        /\ calm \in [Containers -> BOOLEAN] /\ cut = {}
    BY DEF Init
  <2>4. QED
    BY <2>1, <2>2, <2>3 DEF Init, TypeOK
<1>2. QED
  BY <1>1, TypeStep, PTL DEF Spec

-----------------------------------------------------------------------------
(* The migration                                                           *)

\* The row of yoyo's lock names the one container that migrates, or it was left
\* behind by one that was interrupted.
LockInv ==
    /\ \A c \in Containers : pc[c] \in Migrating => lock = c
    /\ lock \in Containers => pc[lock] \in Migrating
    /\ lock = "orphan" => "migration" \in cut

\* The tables exist unmarked only between two steps of that container or after an
\* interruption; what it does agrees with what is in the database.
TablesInv ==
    /\ database = "tables" => "migration" \in cut \/ \E c \in Containers : pc[c] = "mark"
    /\ \A c \in Containers :
          /\ pc[c] = "apply" => (plan[c] <=> database # "marked")
          /\ pc[c] = "unlock" => database = "marked"

\* What is so at each stage of a start.
StageOK(c) ==
    /\ pc[c] \notin Off => Accepted(command[c])
    /\ pc[c] \in Waiting => command[c].wait
    /\ pc[c] \in Migrated /\ command[c].migrate => database = "marked"
    /\ pc[c] \in {"main"} \cup Serving /\ command[c].update = "strict" => refreshed[c]

StageInv == \A c \in Containers : StageOK(c)

\* A start that has seen PostgreSQL all the time has retried at most once, because
\* another container was creating the database.
CalmOK(c) ==
    /\ calm[c] => up
    /\ calm[c] /\ pc[c] = "create" => waited[c] = 0
    /\ calm[c] /\ pc[c] = "exists" => waited[c] = 0 \/ database # "absent"
    /\ pc[c] \in Later \cup {"connect"} /\ command[c].wait => database # "absent"

CalmInv == \A c \in Containers : CalmOK(c)

\* "updating" has an owner that is refreshing, or one that ended without releasing it.
KeyInv == key = "updating" => "refresh" \in cut \/ \E c \in Containers : pc[c] \in Updating

\* The steps outside the migration neither touch the lock nor enter or leave it.
LEMMA OutsideMoves ==
    ASSUME TypeOK, NEW c \in Containers,
           \/ Launch(c) \/ AskExists(c) \/ CreateDatabase(c) \/ Connect(c) \/ Import(c)
           \/ Refresh(c) \/ EndRefresh(c) \/ Main(c) \/ Work(c) \/ EndWork(c)
    PROVE  /\ UNCHANGED <<command, up, lock>>
           /\ "migration" \in cut' <=> "migration" \in cut
           /\ pc[c] \notin Migrating /\ pc'[c] \notin Migrating
           /\ \A d \in Containers \ {c} : pc'[d] = pc[d]
           /\ pc'[c] \in Stages
<1> USE DEF world, At, Off, Migrating, Stages, Serving
<1>1. CASE Launch(c)
  <2>1. Goto(c, "failed") \/ Goto(c, "exists") \/ Goto(c, "main")
    BY <1>1 DEF Launch
  <2>2. QED
    BY <1>1, <2>1, GotoType DEF Launch
<1>2. CASE AskExists(c) \/ CreateDatabase(c) \/ Connect(c)
  <2>1. \/ Goto(c, "exists") \/ Goto(c, "create") \/ Goto(c, "connect")
        \/ Goto(c, "lock") \/ Goto(c, "main") \/ Goto(c, "failed")
    BY <1>2, RetryMoves DEF AskExists, CreateDatabase, Connect, AfterWait
  <2>2. QED
    BY <1>2, <2>1, GotoType DEF AskExists, CreateDatabase, Connect
<1>a. Release => ("migration" \in cut' <=> "migration" \in cut)
  BY DEF Release
<1>3. CASE Import(c) \/ Refresh(c) \/ EndRefresh(c)
  <2>1. Goto(c, "refresh") \/ Goto(c, "refreshing") \/ Goto(c, "main") \/ Goto(c, "failed")
    BY <1>3 DEF Import, Refresh, EndRefresh, Raised
  <2>2. "migration" \in cut' <=> "migration" \in cut
    BY <1>3, <1>a DEF Import, Refresh, EndRefresh
  <2>3. QED
    BY <1>3, <2>1, <2>2, GotoType DEF Import, Refresh, EndRefresh
<1>4. CASE Main(c) \/ Work(c) \/ EndWork(c)
  <2>1. Goto(c, "running") \/ Goto(c, "working") \/ Goto(c, "failed")
    BY <1>4 DEF Main, Work, EndWork
  <2>2. "migration" \in cut' <=> "migration" \in cut
    BY <1>4, <1>a DEF Main, Work, EndWork
  <2>3. QED
    BY <1>4, <2>1, <2>2, GotoType DEF Main, Work, EndWork
<1>5. QED
  BY <1>1, <1>2, <1>3, <1>4

\* What a stop of a container or of PostgreSQL does: whoever is in a migration is
\* thrown out of it, the row of the lock stays, and calm is over.
LEMMA StopMoves ==
    ASSUME TypeOK, ServerStops \/ \E c \in Containers : Stop(c)
    PROVE  \E S \in SUBSET Containers :
              /\ Interrupt(S)
              /\ \A c \in S : pc'[c] \in Off
              /\ \A c \in Containers \ S : pc'[c] = pc[c]
              /\ \/ UNCHANGED <<up, calm>>
                 \/ \A c \in Containers : ~calm'[c] /\ (pc[c] \in Migrating => c \in S)
              /\ \A c \in Containers : calm'[c] => pc'[c] # "failed" \/ pc[c] = "failed"
<1>1. ASSUME NEW c \in Containers, Stop(c)
      PROVE  /\ Interrupt({c}) /\ pc'[c] = "down"
             /\ \A d \in Containers \ {c} : pc'[d] = pc[d]
             /\ UNCHANGED <<up, calm>>
  BY <1>1, GotoType DEF Stop, Stages, Off
<1>2. CASE ServerStops
  <2> DEFINE Broken == {c \in Containers : pc[c] \in Migrating}
  <2>1. /\ Interrupt(Broken)
        /\ \A c \in Broken : pc'[c] = "failed"
        /\ \A c \in Containers \ Broken : pc'[c] = pc[c]
        /\ \A c \in Containers : ~calm'[c]
    BY <1>2 DEF ServerStops
  <2>2. QED
    BY <2>1 DEF Off
<1>3. ASSUME NEW c \in Containers, Stop(c)
      PROVE  \E S \in SUBSET Containers :
              /\ Interrupt(S)
              /\ \A d \in S : pc'[d] \in Off
              /\ \A d \in Containers \ S : pc'[d] = pc[d]
              /\ UNCHANGED <<up, calm>>
              /\ \A d \in Containers : pc'[d] # "failed" \/ pc[d] = "failed"
  <2>1. {c} \in SUBSET Containers
    OBVIOUS
  <2>2. QED
    BY <1>1, <1>3, <2>1 DEF Off
<1>4. QED
  BY <1>2, <1>3

\* LockInv is inductive.
LEMMA LockStep == TypeOK /\ LockInv /\ [Next]_vars => LockInv'
<1> SUFFICES ASSUME TypeOK, LockInv, [Next]_vars PROVE LockInv'
  OBVIOUS
<1> USE ContainersAssumption DEF LockInv
<1>1. ASSUME NEW c \in Containers,
             \/ Launch(c) \/ AskExists(c) \/ CreateDatabase(c) \/ Connect(c) \/ Import(c)
             \/ Refresh(c) \/ EndRefresh(c) \/ Main(c) \/ Work(c) \/ EndWork(c)
      PROVE  LockInv'
  BY <1>1, OutsideMoves
<1>2. ASSUME NEW c \in Containers, Lock(c) \/ Plan(c) \/ Apply(c) \/ Mark(c) \/ Unlock(c)
      PROVE  LockInv'
  <2> USE GotoType DEF Migrating, Stages, Off, At, Nobody, world
  <2>1. CASE Lock(c)
    BY <2>1 DEF Lock
  <2>2. CASE Plan(c)
    BY <2>2 DEF Plan
  <2>3. CASE Apply(c)
    BY <2>3 DEF Apply
  <2>4. CASE Mark(c)
    BY <2>4 DEF Mark
  <2>5. CASE Unlock(c)
    BY <2>5 DEF Unlock, AfterMigrate
  <2>6. QED
    BY <1>2, <2>1, <2>2, <2>3, <2>4, <2>5
<1>3. CASE ServerStops \/ \E c \in Containers : Stop(c)
  <2>1. PICK S \in SUBSET Containers :
           /\ Interrupt(S)
           /\ \A c \in S : pc'[c] \in Off
           /\ \A c \in Containers \ S : pc'[c] = pc[c]
    BY <1>3, StopMoves
  <2>2. lock' = IF lock \in S THEN "orphan" ELSE lock
    BY <2>1, InterruptMoves
  <2>3. ("migration" \in cut \/ \E c \in S : pc[c] \in Migrating) => "migration" \in cut'
    BY <2>1, InterruptMoves
  <2>4. \A c \in S : pc'[c] \notin Migrating
    BY <2>1 DEF Off, Migrating
  <2>5. QED
    BY <2>1, <2>2, <2>3, <2>4
<1>4. CASE ServerStarts \/ UNCHANGED vars
  BY <1>4 DEF ServerStarts, vars
<1>5. QED
  BY <1>1, <1>2, <1>3, <1>4 DEF Next, Step

\* Nobody changes the arguments of a start, drops the database or unmarks the migration.
LEMMA DatabaseMoves ==
    ASSUME TypeOK, [Next]_vars
    PROVE  /\ UNCHANGED command
           /\ database = "marked" => database' = "marked"
           /\ database # "absent" => database' # "absent"
<1>1. ASSUME NEW c \in Containers, Step(c)
      PROVE  /\ UNCHANGED command
             /\ database = "marked" => database' = "marked"
             /\ database # "absent" => database' # "absent"
  BY <1>1 DEF Step, AskExists, CreateDatabase, Connect, Lock, Plan, Apply, Mark, Unlock,
              Import, Refresh, EndRefresh, Main, HasTables, world
<1>2. ASSUME NEW c \in Containers, Launch(c) \/ Work(c) \/ EndWork(c)
      PROVE  UNCHANGED <<command, database>>
  BY <1>2 DEF Launch, Work, EndWork, world
<1>3. ASSUME ServerStops \/ \E c \in Containers : Stop(c)
      PROVE  UNCHANGED <<command, database>>
  BY <1>3 DEF ServerStops, Stop, Interrupt
<1>4. CASE ServerStarts \/ UNCHANGED vars
  BY <1>4 DEF ServerStarts, vars
<1>5. QED
  BY <1>1, <1>2, <1>3, <1>4 DEF Next

\* TablesInv is inductive, given who has the lock.
LEMMA TablesStep == TypeOK /\ LockInv /\ TablesInv /\ [Next]_vars => TablesInv'
<1> SUFFICES ASSUME TypeOK, LockInv, TablesInv, [Next]_vars PROVE TablesInv'
  OBVIOUS
<1>1. ASSUME NEW c \in Containers,
             \/ Launch(c) \/ AskExists(c) \/ CreateDatabase(c) \/ Connect(c) \/ Import(c)
             \/ Refresh(c) \/ EndRefresh(c) \/ Main(c) \/ Work(c) \/ EndWork(c)
      PROVE  TablesInv'
  <2>1. /\ "migration" \in cut' <=> "migration" \in cut
        /\ pc[c] \notin {"apply", "mark", "unlock"} /\ pc'[c] \notin {"apply", "mark", "unlock"}
        /\ \A d \in Containers \ {c} : pc'[d] = pc[d]
    BY <1>1, OutsideMoves DEF Migrating
  <2>2. database' = database \/ (database = "absent" /\ database' = "empty")
    BY <1>1 DEF Launch, AskExists, CreateDatabase, Connect, Import, Refresh, EndRefresh,
                Main, Work, EndWork
  <2>3. \A d \in Containers \ {c} : plan'[d] = plan[d]
    BY <1>1 DEF Launch, AskExists, CreateDatabase, Connect, Import, Refresh, EndRefresh,
                Main, Work, EndWork, TypeOK
  <2>4. QED
    BY <2>1, <2>2, <2>3 DEF TablesInv
<1>2. ASSUME NEW c \in Containers, Lock(c) \/ Plan(c) \/ Apply(c) \/ Mark(c) \/ Unlock(c)
      PROVE  TablesInv'
  <2> USE DEF At, Stages, Off, Migrating, world
  <2>1. pc[c] # "lock" => \A d \in Containers \ {c} : pc[d] \notin Migrating
    BY <1>2 DEF LockInv, Lock, Plan, Apply, Mark, Unlock
  <2>2. CASE Lock(c)
    <3>1. pc'[c] \in {"plan", "failed"} /\ \A d \in Containers \ {c} : pc'[d] = pc[d]
      BY <2>2, GotoType DEF Lock
    <3>2. UNCHANGED <<plan, database, cut>>
      BY <2>2 DEF Lock
    <3>3. pc[c] = "lock"
      BY <2>2 DEF Lock
    <3>4. QED
      BY <3>1, <3>2, <3>3 DEF TablesInv
  <2>3. CASE Plan(c)
    <3>1. pc[c] = "plan" /\ pc'[c] = "apply" /\ \A d \in Containers \ {c} : pc'[d] = pc[d]
      BY <2>3, GotoType DEF Plan
    <3>2. UNCHANGED <<database, cut>> /\ (plan'[c] <=> database # "marked")
      BY <2>3 DEF Plan, TypeOK
    <3>3. QED
      BY <2>1, <3>1, <3>2 DEF TablesInv
  <2>4. CASE Apply(c)
    <3>1. pc[c] = "apply" /\ \A d \in Containers \ {c} : pc'[d] = pc[d]
      BY <2>4, GotoType DEF Apply
    <3>2. CASE ~plan[c] /\ Goto(c, "unlock") /\ UNCHANGED <<database, lock>>
      <4>1. pc'[c] = "unlock" /\ database = "marked"
        BY <3>1, <3>2, GotoType DEF TablesInv
      <4>2. QED
        BY <2>1, <3>1, <3>2, <4>1 DEF TablesInv
    <3>3. CASE database' = "tables" /\ Goto(c, "mark")
      <4>1. pc'[c] = "mark"
        BY <3>3, GotoType
      <4>2. QED
        BY <2>1, <3>1, <3>3, <4>1 DEF TablesInv
    <3>4. CASE Goto(c, "failed") /\ UNCHANGED database
      <4>1. pc'[c] = "failed" /\ UNCHANGED cut
        BY <2>4, <3>4, GotoType DEF Apply
      <4>2. QED
        BY <2>1, <3>1, <3>4, <4>1 DEF TablesInv
    <3>5. QED
      BY <2>4, <3>2, <3>3, <3>4 DEF Apply
  <2>5. CASE Mark(c) \/ Unlock(c)
    <3>1. /\ pc[c] \in {"mark", "unlock"} /\ \A d \in Containers \ {c} : pc'[d] = pc[d]
          /\ pc'[c] \in {"unlock", "import", "main"}
      BY <2>5, GotoType DEF Mark, Unlock, AfterMigrate
    <3>2. database' = "marked"
      BY <2>5 DEF Mark, Unlock, TablesInv
    <3>3. QED
      BY <2>1, <3>1, <3>2 DEF TablesInv
  <2>6. QED
    BY <1>2, <2>2, <2>3, <2>4, <2>5
<1>3. CASE ServerStops \/ \E c \in Containers : Stop(c)
  <2>1. PICK S \in SUBSET Containers :
           /\ Interrupt(S)
           /\ \A c \in S : pc'[c] \in Off
           /\ \A c \in Containers \ S : pc'[c] = pc[c]
    BY <1>3, StopMoves
  <2>2. UNCHANGED <<plan, database>> /\ cut \subseteq cut'
    BY <2>1, InterruptMoves
  <2>3. (\E c \in S : pc[c] \in Migrating) => "migration" \in cut'
    BY <2>1, InterruptMoves
  <2>4. \A c \in S : pc'[c] \notin {"apply", "unlock"}
    BY <2>1 DEF Off
  <2>5. (\E c \in Containers : pc[c] = "mark") => "migration" \in cut' \/ \E c \in Containers : pc'[c] = "mark"
    BY <2>1, <2>3 DEF Migrating
  <2>6. QED
    BY <2>1, <2>2, <2>4, <2>5 DEF TablesInv
<1>4. CASE ServerStarts \/ UNCHANGED vars
  BY <1>4 DEF ServerStarts, vars, TablesInv
<1>5. QED
  BY <1>1, <1>2, <1>3, <1>4 DEF Next, Step

\* A container that stays where it is stays in order, and so does one that stops.
LEMMA StageFrame ==
    ASSUME TypeOK, [Next]_vars, StageInv, NEW d \in Containers,
           refreshed'[d] = refreshed[d],
           pc'[d] = pc[d] \/ pc'[d] \in Off
    PROVE  StageOK(d)'
BY DatabaseMoves DEF StageInv, StageOK, Off, Waiting, Migrated, Serving

\* StageInv is inductive: each stage is reached only through those before it.
LEMMA StageStep == TypeOK /\ TablesInv /\ StageInv /\ [Next]_vars => StageInv'
<1> SUFFICES ASSUME TypeOK, TablesInv, StageInv, [Next]_vars PROVE StageInv'
  OBVIOUS
<1>1. ASSUME NEW c \in Containers, UNCHANGED refreshed,
             \A d \in Containers \ {c} : pc'[d] = pc[d], StageOK(c)'
      PROVE  StageInv'
  BY <1>1, StageFrame DEF StageInv
<1> USE DatabaseMoves, GotoType DEF At, Stages, Off, Waiting, Migrated, Migrating, Serving, world
<1>2. ASSUME NEW c \in Containers, Launch(c)
      PROVE  StageInv'
  <2>1. \A d \in Containers \ {c} : /\ pc'[d] = pc[d]
                                    /\ refreshed'[d] = refreshed[d]
    BY <1>2, OutsideMoves DEF Launch, TypeOK
  <2>2. CASE ~Accepted(command[c])
    <3>1. pc'[c] = "failed"
      BY <1>2, <2>2 DEF Launch
    <3>2. QED
      BY <2>1, <3>1, StageFrame DEF StageInv, StageOK
  <2>3. CASE Accepted(command[c]) /\ command[c].wait
    <3>1. pc'[c] = "exists"
      BY <1>2, <2>3 DEF Launch
    <3>2. QED
      BY <2>1, <2>3, <3>1, StageFrame DEF StageInv, StageOK
  <2>4. CASE Accepted(command[c]) /\ ~command[c].wait
    <3>1. pc'[c] = "main"
      BY <1>2, <2>4 DEF Launch
    <3>2. ~command[c].migrate /\ command[c].update = "no"
      BY <2>4 DEF Accepted
    <3>3. QED
      BY <2>1, <2>4, <3>1, <3>2, StageFrame DEF StageInv, StageOK
  <2>5. QED
    BY <2>2, <2>3, <2>4
<1>3. ASSUME NEW c \in Containers, AskExists(c) \/ CreateDatabase(c) \/ Connect(c)
      PROVE  StageInv'
  <2>1. UNCHANGED refreshed /\ \A d \in Containers \ {c} : pc'[d] = pc[d]
    BY <1>3, OutsideMoves DEF AskExists, CreateDatabase, Connect
  <2>2. pc[c] \in Waiting /\ Accepted(command[c]) /\ command[c].wait
    BY <1>3 DEF AskExists, CreateDatabase, Connect, StageInv, StageOK
  <2>3. CASE pc'[c] \in Waiting \cup {"failed"}
    <3>1. StageOK(c)'
      BY <2>2, <2>3 DEF StageOK
    <3>2. QED
      BY <1>1, <2>1, <3>1
  <2>4. CASE Goto(c, AfterWait(c))
    <3>1. \/ pc'[c] = "lock"
          \/ pc'[c] = "main" /\ ~command[c].migrate /\ command[c].update = "no"
      BY <2>2, <2>4 DEF AfterWait, Accepted
    <3>2. StageOK(c)'
      BY <2>2, <3>1 DEF StageOK
    <3>3. QED
      BY <1>1, <2>1, <3>2
  <2>5. pc'[c] \in Waiting \cup {"failed"} \/ Goto(c, AfterWait(c))
    BY <1>3, RetryMoves DEF AskExists, CreateDatabase, Connect
  <2>6. QED
    BY <2>3, <2>4, <2>5
<1>4. ASSUME NEW c \in Containers, Lock(c) \/ Plan(c) \/ Apply(c) \/ Mark(c) \/ Unlock(c)
      PROVE  StageInv'
  <2>1. UNCHANGED refreshed /\ \A d \in Containers \ {c} : pc'[d] = pc[d]
    BY <1>4 DEF Lock, Plan, Apply, Mark, Unlock, AfterMigrate
  <2>2. Accepted(command[c])
    BY <1>4 DEF Lock, Plan, Apply, Mark, Unlock, StageInv, StageOK
  <2>3. CASE pc'[c] \in Migrating \cup {"failed"}
    <3>1. StageOK(c)'
      BY <2>2, <2>3 DEF StageOK
    <3>2. QED
      BY <1>1, <2>1, <3>1
  <2>4. CASE Unlock(c)
    <3>1. database = "marked"
      BY <2>4 DEF Unlock, TablesInv
    <3>2. pc'[c] = "import" \/ (pc'[c] = "main" /\ command[c].update = "no")
      BY <2>4 DEF Unlock, AfterMigrate
    <3>3. StageOK(c)'
      BY <2>2, <3>1, <3>2 DEF StageOK
    <3>4. QED
      BY <1>1, <2>1, <3>3
  <2>5. pc'[c] \in Migrating \cup {"failed"} \/ Unlock(c)
    BY <1>4 DEF Lock, Plan, Apply, Mark
  <2>6. QED
    BY <2>3, <2>4, <2>5
<1>5. ASSUME NEW c \in Containers, Import(c) \/ Refresh(c) \/ EndRefresh(c)
      PROVE  StageInv'
  <2>1. \A d \in Containers \ {c} : pc'[d] = pc[d] /\ refreshed'[d] = refreshed[d]
    BY <1>5, OutsideMoves DEF Import, Refresh, EndRefresh, TypeOK
  <2>2. /\ Accepted(command[c])
        /\ command[c].migrate => database = "marked"
    BY <1>5 DEF Import, Refresh, EndRefresh, StageInv, StageOK
  <2>3. \/ pc'[c] \in {"failed", "refresh", "refreshing"}
        \/ pc'[c] = "main" /\ command[c].update # "strict"
        \/ pc'[c] = "main" /\ refreshed'[c]
    BY <1>5 DEF Import, Refresh, EndRefresh, Raised, TypeOK
  <2>4. StageOK(c)'
    BY <2>2, <2>3 DEF StageOK
  <2>5. QED
    BY <2>1, <2>4, StageFrame DEF StageInv
<1>6. ASSUME NEW c \in Containers, Main(c)
      PROVE  StageInv'
  <2>1. UNCHANGED refreshed /\ \A d \in Containers \ {c} : pc'[d] = pc[d]
    BY <1>6, OutsideMoves DEF Main
  <2>2. pc'[c] \in {"failed", "running"} /\ pc[c] = "main" /\ StageOK(c)
    BY <1>6 DEF Main, StageInv
  <2>3. StageOK(c)'
    BY <2>1, <2>2 DEF StageOK
  <2>4. QED
    BY <1>1, <2>1, <2>3
<1>7. ASSUME NEW c \in Containers, Work(c) \/ EndWork(c)
      PROVE  StageInv'
  <2>1. UNCHANGED refreshed /\ \A d \in Containers \ {c} : pc'[d] = pc[d]
    BY <1>7, OutsideMoves DEF Work, EndWork
  <2>2. pc[c] \in Serving /\ pc'[c] \in Serving
    BY <1>7 DEF Work, EndWork
  <2>3. StageOK(c)'
    BY <2>1, <2>2 DEF StageInv, StageOK
  <2>4. QED
    BY <1>1, <2>1, <2>3
<1>8. CASE ServerStops \/ \E c \in Containers : Stop(c)
  <2>1. PICK S \in SUBSET Containers :
           /\ Interrupt(S)
           /\ \A c \in S : pc'[c] \in Off
           /\ \A c \in Containers \ S : pc'[c] = pc[c]
    BY <1>8, StopMoves
  <2>2. UNCHANGED refreshed
    BY <2>1, InterruptMoves
  <2>3. QED
    BY <2>1, <2>2, StageFrame DEF StageInv
<1>9. CASE ServerStarts \/ UNCHANGED vars
  BY <1>9, StageFrame DEF ServerStarts, vars, StageInv
<1>10. QED
  BY <1>2, <1>3, <1>4, <1>5, <1>6, <1>7, <1>8, <1>9 DEF Next, Step

\* Nothing that leaves a container and PostgreSQL where they are disturbs its calm.
LEMMA CalmFrame ==
    ASSUME TypeOK, [Next]_vars, CalmInv, NEW d \in Containers,
           waited'[d] = waited[d], UNCHANGED <<up, calm>> \/ (UNCHANGED up /\ calm'[d] = calm[d]) \/ ~calm'[d],
           pc'[d] = pc[d] \/ pc'[d] \in Off
    PROVE  CalmOK(d)'
BY DatabaseMoves DEF CalmInv, CalmOK, Off, Later, Migrated, Migrating, Serving

\* CalmInv is inductive: with PostgreSQL there, an attempt fails only because the
\* database has just been created by another container, and it stays created.
LEMMA CalmStep == TypeOK /\ StageInv /\ CalmInv /\ [Next]_vars => CalmInv'
<1> SUFFICES ASSUME TypeOK, StageInv, CalmInv, [Next]_vars PROVE CalmInv'
  OBVIOUS
<1>1. ASSUME NEW c \in Containers, UNCHANGED <<up, calm>>,
             \A d \in Containers \ {c} : pc'[d] = pc[d] /\ waited'[d] = waited[d], CalmOK(c)'
      PROVE  CalmInv'
  BY <1>1, CalmFrame DEF CalmInv
<1> USE DatabaseMoves, GotoType DEF At, Stages, Off, Migrated, Later, Migrating, Serving, world
<1>2. ASSUME NEW c \in Containers, Launch(c)
      PROVE  CalmInv'
  <2>1. UNCHANGED up /\ \A d \in Containers \ {c} :
            pc'[d] = pc[d] /\ waited'[d] = waited[d] /\ calm'[d] = calm[d]
    BY <1>2, OutsideMoves DEF Launch, TypeOK
  <2>2. waited'[c] = 0 /\ (calm'[c] => up)
    BY <1>2 DEF Launch, TypeOK
  <2>3. \/ pc'[c] \in {"failed", "exists"}
        \/ pc'[c] = "main" /\ ~command[c].wait
    BY <1>2 DEF Launch
  <2>4. CalmOK(c)'
    BY <2>1, <2>2, <2>3 DEF CalmOK
  <2>5. QED
    BY <2>1, <2>4, CalmFrame DEF CalmInv
<1>3. ASSUME NEW c \in Containers, AskExists(c) \/ CreateDatabase(c) \/ Connect(c)
      PROVE  CalmInv'
  <2>1. UNCHANGED <<up, calm>>
    BY <1>3 DEF AskExists, CreateDatabase, Connect
  <2>2. \A d \in Containers \ {c} : pc'[d] = pc[d] /\ waited'[d] = waited[d]
    BY <1>3, OutsideMoves, RetryMoves DEF AskExists, CreateDatabase, Connect, TypeOK
  <2>3. CASE AskExists(c)
    <3>1. /\ UNCHANGED <<waited, database>> /\ pc[c] = "exists"
          /\ \/ pc'[c] = "connect" /\ database # "absent"
             \/ pc'[c] = "create" /\ (up => database = "absent")
      BY <2>3 DEF AskExists
    <3>2. CalmOK(c)'
      BY <2>1, <3>1 DEF CalmInv, CalmOK
    <3>3. QED
      BY <1>1, <2>1, <2>2, <3>2
  <2>4. CASE CreateDatabase(c)
    <3>1. CASE up /\ database = "absent"
      <4>1. pc'[c] = "connect" /\ database' = "empty"
        BY <2>4, <3>1 DEF CreateDatabase
      <4>2. CalmOK(c)'
        BY <2>1, <4>1 DEF CalmInv, CalmOK
      <4>3. QED
        BY <1>1, <2>1, <2>2, <4>2
    <3>2. CASE ~(up /\ database = "absent")
      <4>1. pc'[c] \in {"exists", "failed"} /\ UNCHANGED database
        BY <2>4, <3>2, RetryMoves DEF CreateDatabase
      <4>2. CalmOK(c)'
        BY <2>1, <3>2, <4>1 DEF CalmInv, CalmOK
      <4>3. QED
        BY <1>1, <2>1, <2>2, <4>2
    <3>3. QED
      BY <3>1, <3>2
  <2>5. CASE Connect(c)
    <3>1. pc[c] = "connect" /\ command[c].wait /\ database # "absent"
      BY <2>5 DEF Connect, CalmInv, CalmOK, StageInv, StageOK, Waiting
    <3>2. UNCHANGED database /\ (pc'[c] \in {"lock", "main"} \/ (~up /\ pc'[c] \in {"exists", "failed"}))
      BY <2>5, RetryMoves DEF Connect, AfterWait
    <3>3. CalmOK(c)'
      BY <2>1, <3>1, <3>2 DEF CalmInv, CalmOK
    <3>4. QED
      BY <1>1, <2>1, <2>2, <3>3
  <2>6. QED
    BY <1>3, <2>3, <2>4, <2>5
<1>4. ASSUME NEW c \in Containers, UNCHANGED <<up, calm, waited>>, pc[c] \in Later,
             pc'[c] \in Later \cup {"failed"}, \A d \in Containers \ {c} : pc'[d] = pc[d]
      PROVE  CalmInv'
  <2>1. CalmOK(c)'
    BY <1>4 DEF CalmInv, CalmOK
  <2>2. QED
    BY <1>1, <1>4, <2>1
<1>5. ASSUME NEW c \in Containers, Lock(c) \/ Plan(c) \/ Apply(c) \/ Mark(c) \/ Unlock(c)
      PROVE  CalmInv'
  <2>1. \A d \in Containers \ {c} : pc'[d] = pc[d]
    BY <1>5 DEF Lock, Plan, Apply, Mark, Unlock, AfterMigrate
  <2>2. pc[c] \in Later /\ pc'[c] \in Later \cup {"failed"} /\ UNCHANGED <<up, calm, waited>>
    BY <1>5 DEF Lock, Plan, Apply, Mark, Unlock, AfterMigrate
  <2>3. QED
    BY <1>4, <2>1, <2>2
<1>6. ASSUME NEW c \in Containers, Import(c) \/ Refresh(c) \/ EndRefresh(c)
      PROVE  CalmInv'
  <2>1. \A d \in Containers \ {c} : pc'[d] = pc[d]
    BY <1>6, OutsideMoves
  <2>2. pc[c] \in Later /\ pc'[c] \in Later \cup {"failed"} /\ UNCHANGED <<up, calm, waited>>
    BY <1>6 DEF Import, Refresh, EndRefresh, Raised
  <2>3. QED
    BY <1>4, <2>1, <2>2
<1>7. ASSUME NEW c \in Containers, Main(c) \/ Work(c) \/ EndWork(c)
      PROVE  CalmInv'
  <2>1. \A d \in Containers \ {c} : pc'[d] = pc[d]
    BY <1>7, OutsideMoves
  <2>2. pc[c] \in Later /\ pc'[c] \in Later \cup {"failed"} /\ UNCHANGED <<up, calm, waited>>
    BY <1>7 DEF Main, Work, EndWork
  <2>3. QED
    BY <1>4, <2>1, <2>2
<1>8. CASE ServerStops \/ \E c \in Containers : Stop(c)
  <2>1. PICK S \in SUBSET Containers :
           /\ Interrupt(S)
           /\ \A c \in S : pc'[c] \in Off
           /\ \A c \in Containers \ S : pc'[c] = pc[c]
           /\ UNCHANGED <<up, calm>> \/ \A c \in Containers : ~calm'[c]
    BY <1>8, StopMoves
  <2>2. UNCHANGED waited
    BY <2>1, InterruptMoves
  <2>3. QED
    BY <2>1, <2>2, CalmFrame DEF CalmInv
<1>9. CASE ServerStarts
  <2>1. UNCHANGED <<pc, waited, calm, database, command>> /\ up'
    BY <1>9 DEF ServerStarts
  <2>2. QED
    BY <2>1 DEF CalmInv, CalmOK
<1>10. CASE UNCHANGED vars
  BY <1>10, CalmFrame DEF vars, CalmInv
<1>11. QED
  BY <1>2, <1>3, <1>5, <1>6, <1>7, <1>8, <1>9, <1>10 DEF Next, Step

\* KeyInv is inductive: whoever SETs the key is refreshing from then on.
LEMMA KeyStep == TypeOK /\ KeyInv /\ [Next]_vars => KeyInv'
<1> SUFFICES ASSUME TypeOK, KeyInv, [Next]_vars PROVE KeyInv'
  OBVIOUS
<1> USE DEF KeyInv
<1>1. ASSUME NEW c \in Containers, UNCHANGED key, cut \subseteq cut',
             pc[c] \notin Updating, \A d \in Containers \ {c} : pc'[d] = pc[d]
      PROVE  KeyInv'
  BY <1>1
<1> USE GotoType DEF At, Stages, Off, Migrating, Updating, Serving, world
<1>2. ASSUME NEW c \in Containers,
             \/ Launch(c) \/ AskExists(c) \/ CreateDatabase(c) \/ Connect(c) \/ Import(c)
      PROVE  KeyInv'
  <2>1. UNCHANGED <<key, cut>> /\ pc[c] \notin Updating
    BY <1>2 DEF Launch, AskExists, CreateDatabase, Connect, Import
  <2>2. QED
    BY <1>1, <1>2, <2>1, OutsideMoves
<1>3. ASSUME NEW c \in Containers, Lock(c) \/ Plan(c) \/ Apply(c) \/ Mark(c) \/ Unlock(c)
      PROVE  KeyInv'
  <2>1. UNCHANGED <<key, cut>> /\ pc[c] \notin Updating
    BY <1>3 DEF Lock, Plan, Apply, Mark, Unlock
  <2>2. \A d \in Containers \ {c} : pc'[d] = pc[d]
    BY <1>3 DEF Lock, Plan, Apply, Mark, Unlock, AfterMigrate
  <2>3. QED
    BY <1>1, <2>1, <2>2
<1>4. ASSUME NEW c \in Containers, Refresh(c) \/ Work(c)
      PROVE  KeyInv'
  <2>1. CASE pc'[c] \in Updating
    BY <2>1
  <2>2. CASE pc'[c] \notin Updating
    <3>1. Refresh(c) /\ pc[c] = "refresh"
      BY <1>4, <2>2 DEF Refresh, Work
    <3>2. CASE UNCHANGED <<key, cut>>
      BY <1>1, <3>1, <3>2, OutsideMoves
    <3>3. CASE key' = "free" \/ "refresh" \in cut'
      BY <3>3
    <3>4. QED
      BY <2>2, <3>1, <3>2, <3>3 DEF Refresh, Release
  <2>3. QED
    BY <2>1, <2>2
<1>5. ASSUME NEW c \in Containers, EndRefresh(c) \/ EndWork(c)
      PROVE  KeyInv'
  BY <1>5 DEF EndRefresh, EndWork, Release
<1>6. ASSUME NEW c \in Containers, Main(c)
      PROVE  KeyInv'
  <2>1. pc[c] \notin Updating /\ UNCHANGED cut /\ (UNCHANGED key \/ key' = "free")
    BY <1>6 DEF Main
  <2>2. QED
    BY <1>1, <1>6, <2>1, OutsideMoves
<1>7. CASE ServerStops \/ \E c \in Containers : Stop(c)
  <2>1. PICK S \in SUBSET Containers :
           /\ Interrupt(S)
           /\ \A c \in Containers \ S : pc'[c] = pc[c]
    BY <1>7, StopMoves
  <2>2. UNCHANGED key /\ cut \subseteq cut'
    BY <2>1, InterruptMoves
  <2>3. (\E c \in S : pc[c] \in Updating) => "refresh" \in cut'
    BY <2>1, InterruptMoves
  <2>4. QED
    BY <2>1, <2>2, <2>3
<1>8. CASE ServerStarts \/ UNCHANGED vars
  BY <1>8 DEF ServerStarts, vars
<1>9. QED
  BY <1>2, <1>3, <1>4, <1>5, <1>6, <1>7, <1>8 DEF Next, Step

\* The inductive invariant.
IInv == TypeOK /\ LockInv /\ TablesInv /\ StageInv /\ CalmInv /\ KeyInv

\* Its parts are inductive together.
LEMMA Invariance == Spec => []IInv
<1>1. Init => LockInv /\ TablesInv /\ StageInv /\ CalmInv /\ KeyInv
  BY ContainersAssumption DEF Init, LockInv, TablesInv, StageInv, StageOK, CalmInv, CalmOK,
     KeyInv, Off, Waiting, Migrated, Migrating, Serving, Later, Nobody
<1>2. IInv /\ [Next]_vars => IInv'
  BY TypeStep, LockStep, TablesStep, StageStep, CalmStep, KeyStep DEF IInv
<1>3. QED
  BY <1>1, <1>2, TypeInvariant, PTL DEF Spec, IInv

-----------------------------------------------------------------------------
(* What a deployment may rely on                                           *)

\* A main program behind --migrate finds its tables, and behind a strict
\* --update-glossary a refreshed glossary (pre_launch.py:98-124).
THEOREM ReadyBeforeServing == Spec => []ServesOnlyWhenReady
<1>1. IInv => ServesOnlyWhenReady
  BY DEF IInv, StageInv, StageOK, Migrated, ServesOnlyWhenReady
<1>2. QED
  BY <1>1, Invariance, PTL

\* While PostgreSQL runs, containers that create the database, migrate or refresh at the
\* same time trip over each other only as FailsForAReason says, if there is a time-out
\* at all (pre_launch.py:23-43, 55-56, 113-124).
THEOREM FailuresHaveReasons ==
    ASSUME Timeout # 0
    PROVE  Spec => FailsForAReason
<1> DEFINE Fails(c) == calm'[c] /\ pc[c] # "failed" /\ pc'[c] = "failed"
           Reason(c) ==
             \/ ~Accepted(command[c]) \/ ~command[c].wait
             \/ pc[c] = "main" /\ c \in Gunicorn
             \/ pc[c] = "lock" /\ \E d \in Containers \ {c} : pc[d] \in Migrating
             \/ pc[c] = "lock" /\ lock = "orphan" /\ "migration" \in cut
             \/ pc[c] = "apply" /\ database = "tables" /\ "migration" \in cut
             \/ /\ command[c].update = "strict"
                /\ \/ pc[c] = "refreshing"
                   \/ pc[c] = "refresh" /\ key # "updating"
                   \/ pc[c] = "refresh" /\ "refresh" \in cut
                   \/ pc[c] = "refresh" /\ \E d \in Containers \ {c} : pc[d] \in Updating
<1>1. IInv /\ [Next]_vars => \A c \in Containers : Fails(c) => Reason(c)
  <2> SUFFICES ASSUME IInv, [Next]_vars, NEW c \in Containers, Fails(c) PROVE Reason(c)
    OBVIOUS
  <2>a. \A l \in Stages : Goto(c, l) => l = "failed"
    BY GotoType DEF IInv
  <2>b. ~Goto(c, "plan") /\ ~Goto(c, "unlock") /\ ~Goto(c, "mark") /\ ~Goto(c, "connect")
        /\ ~Goto(c, "create") /\ ~Goto(c, "lock") /\ ~Goto(c, "main")
    BY <2>a DEF Stages, Migrating
  <2> USE GotoType DEF IInv, At, Stages, Off, world
  <2>0. CalmOK(c) /\ StageOK(c)
    BY DEF CalmInv, StageInv
  <2>1. ASSUME NEW d \in Containers \ {c}, Step(d) \/ Launch(d) \/ Work(d) \/ EndWork(d)
        PROVE  pc'[c] = pc[c]
    BY <2>1, OutsideMoves DEF Step, Lock, Plan, Apply, Mark, Unlock, AfterMigrate, Migrating
  <2>2. CASE Launch(c)
    BY <2>2 DEF Launch
  <2>3. CASE AskExists(c) \/ CreateDatabase(c) \/ Connect(c)
    <3>1. UNCHANGED calm
      BY <2>3 DEF AskExists, CreateDatabase, Connect
    <3>2. up
      BY <2>0, <3>1 DEF CalmOK
    <3>3. CreateDatabase(c) /\ database # "absent"
      <4>1. ~AskExists(c)
        BY <2>b DEF AskExists
      <4>2. ~Connect(c)
        BY <2>b, <3>2 DEF Connect, AfterWait
      <4>3. CreateDatabase(c) => database # "absent"
        BY <3>2 DEF CreateDatabase
      <4>4. QED
        BY <2>3, <4>1, <4>2, <4>3
    <3>4. Retry(c) /\ waited[c] = 0
      BY <2>0, <3>1, <3>3 DEF CreateDatabase, CalmOK
    <3>5. pc'[c] = "exists"
      BY <3>2, <3>4, RetryMoves
    <3>6. QED
      BY <3>5
  <2>4. CASE Lock(c)
    <3>1. pc[c] = "lock" /\ UNCHANGED calm
      BY <2>4 DEF Lock
    <3>2. up
      BY <2>0, <3>1 DEF CalmOK
    <3>3. lock # Nobody
      BY <2>b, <2>4, <3>2 DEF Lock
    <3>4. CASE lock \in Containers
      BY <3>1, <3>4 DEF LockInv, Migrating
    <3>5. CASE lock = "orphan"
      BY <3>1, <3>5 DEF LockInv
    <3>6. QED
      BY <3>3, <3>4, <3>5 DEF TypeOK
  <2>5. CASE Apply(c)
    <3>1. pc[c] = "apply" /\ plan[c] /\ HasTables
      BY <2>b, <2>5 DEF Apply
    <3>2. database = "tables"
      BY <3>1 DEF TablesInv, HasTables
    <3>3. \A d \in Containers : pc[d] # "mark"
      BY <3>1 DEF LockInv, Migrating
    <3>4. QED
      BY <3>1, <3>2, <3>3 DEF TablesInv
  <2>6. CASE Plan(c) \/ Mark(c) \/ Unlock(c)
    BY <2>6 DEF Plan, Mark, Unlock, AfterMigrate, Migrating
  <2>7. CASE Import(c) \/ Refresh(c) \/ EndRefresh(c)
    <3>1. CASE Import(c)
      BY <2>0, <3>1 DEF Import, CalmOK
    <3>2. CASE EndRefresh(c)
      BY <2>a, <3>2 DEF EndRefresh, Raised
    <3>3. CASE Refresh(c)
      <4>1. pc[c] = "refresh" /\ command[c].update = "strict"
        BY <2>b, <3>3 DEF Refresh, Raised
      <4>2. pc[c] \notin Updating
        BY <4>1 DEF Updating
      <4>3. QED
        BY <4>1, <4>2 DEF KeyInv
    <3>4. QED
      BY <2>7, <3>1, <3>2, <3>3
  <2>8. CASE Main(c) \/ Work(c) \/ EndWork(c)
    <3>1. pc[c] = "main" /\ UNCHANGED calm /\ Main(c)
      BY <2>8 DEF Main, Work, EndWork, Serving
    <3>2. up /\ (command[c].wait => database # "absent")
      BY <2>0, <3>1 DEF CalmOK, Later, Migrated
    <3>3. c \in Gunicorn \/ ~command[c].wait
      BY <3>1, <3>2 DEF Main, Serving
    <3>4. QED
      BY <3>1, <3>3
  <2>9. CASE ServerStops \/ \E d \in Containers : Stop(d)
    BY <2>9, StopMoves
  <2>10. CASE ServerStarts \/ UNCHANGED vars
    BY <2>10 DEF ServerStarts, vars
  <2>11. QED
    BY <2>1, <2>2, <2>3, <2>4, <2>5, <2>6, <2>7, <2>8, <2>9, <2>10 DEF Next, Step
<1>2. QED
  BY <1>1, Invariance, PTL DEF Spec, FailsForAReason
=============================================================================
