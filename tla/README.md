# A verification project for the glossary service

The repository is a small service that keeps a glossary (abbreviation, term,
definition) in PostgreSQL, searches it, lets clients edit it in bulk, and
refreshes it every night and on demand from an Excel sheet on an educational
portal (EDU). This directory models the parts of it where interleavings,
failures and data comparisons decide whether it is right, checks them with TLC
on small instances, and proves with TLAPS every safety property that the runs check,
the refinements included, for all values of the constants.

Paths below are relative to `src/`. `PROJECT.json` maps every definition to the
lines it models, and lists the runs, hazards, mutants and theorems.

## 1. The system

| Component | State | Operations | Talks to |
|---|---|---|---|
| Refresh (`app/services/glossary.py:123`) | the Redis key `glossary`; local `status`, `result` of a call | `update_glossary_from_xlsx` | Redis, EDU, PostgreSQL |
| Detached refresh (`glossary.py:218`, `app/api/v1/glossary.py:67`) | the arq queue and results in Redis, the open request | enqueue, wait, 408 | arq worker |
| arq worker (`app/infrastructure/background/instant`) | running jobs | run, retry, time out, shut down | the refresh |
| Scheduler (`.../deffered`) | the cron trigger | start a refresh | the refresh |
| Start of the containers (`pre_launch.py`, `docker-compose.yml`, `app/main.py`) | which processes run | wait for the database, migrate, first refresh, gunicorn workers; each worker deletes the key | Redis, PostgreSQL |
| Sheet (`app/infrastructure/adapters/excel.py`, `glossary.py:280`) | a data frame | clean, report errors, compare with the table | the refresh |
| Bulk request (`glossary.py:60`) | one transaction | check, update, insert | PostgreSQL |
| Table and view (migration) | `glossary_element`, materialised view `ge_splitted` | statement trigger that refreshes the view | writers, search |
| Search (`app/domain/repositories/glossary_element.py:20`) | none | eight levels over `ge_splitted`, pages | PostgreSQL |
| Listing (`glossary_element.py:107`) | none | total, page | PostgreSQL |
| Filter builder (`app/common/repositories/repository.py:117`) | none | filters to SQL conditions | every repository call |
| EDU adapter (`app/infrastructure/adapters/edu.py`) | none | download GLOSS.xlsx, upload ERRORS.xlsx | EDU over HTTP |
| DTOs and exception handlers | none | validation, exceptions to statuses | clients |

What is hard about it:

* **One key, many callers.** The scheduler, each arq job and `pre_launch.py`
  call the same refresh in different processes. The key is read and written by
  separate commands, carries no owner, and `updating` has no expiry. Every
  gunicorn worker deletes it when it starts.
* **Cut-off calls.** An arq timeout, a shutdown or a crash raises
  `CancelledError` or nothing at all; `except Exception` does not see it.
* **Concurrent transactions** at READ COMMITTED that read, wait for rows, look
  again, and refresh a materialised view in a statement trigger.
* **Data comparisons**: four masks over a sheet, a merge with the table, and
  a validation that strips what the comparisons did not.
* **Pages** read one after the other from a table that changes.
* **Starts** of three containers that wait for nothing but PostgreSQL: two may create the
  database at once, a migration may be cut off, and a first refresh may meet the key of
  another one, or of one that is long dead.
* **Answers** whose meaning a client has to trust: what was stored before the error, what
  still runs after 408, what an earlier try of the same job has done, which report lies on EDU, which elements a filter selects.

What makes each component correct is what the properties of section 3 say.

## 2. Modules

| Module | Models |
|---|---|
| `UpdateLock` | `update_glossary_from_xlsx`, one action per await, its `except` and `else`, cancellation, the key's expiry, the containers' start and the lifespan's DEL |
| `DetachedUpdate` (extends `UpdateLock`) | the detached request, the arq queue, its slots, tries, timeouts and shutdowns; gunicorn workers that die under a request |
| `ExcelSync` | cleaning of the sheet, comparison with the table, and the update, over several refreshes and bulk requests in a row |
| `GlossaryContract` | the abstract promise to those who change the glossary: what a request may do to the table, when, and what its answer says of it |
| `GlossaryDB` | bulk requests and refreshes as concurrent transactions, with row locks, the trigger, the view's lock and snapshot, deadlock victims, rollbacks, and searches that wait for the view; implements `GlossaryContract` |
| `Startup` | the three containers from `pre_launch.py` to their main programs: waiting, creating the database, migrations, the first refresh beside those of other containers and the key it leaves, stops of containers and of PostgreSQL |
| `HttpErrors` | the map from exceptions to statuses |
| `Filters` | the filter builder, and what a tree of filters says |
| `ApiRequests` (extends `HttpErrors`, `Filters`) | the routes that change the glossary from the body to the status, with EDU's answers to the refresh, and a job that arq runs again; implements `GlossaryContract` |
| `GlossaryReads` | the statements of the search and of the listing, and a client that walks through their pages while writers commit |
| `MCExcelSync`, `MCGlossaryDB`, `MCGlossaryReads`, `MCStartup`, `MCApiRequests` | small sheets, tables, requests, texts, deployments and filters for TLC |
| `UpdateLockProofs`, `DetachedUpdateProofs`, `ExcelSyncProofs`, `GlossaryDBProofs`, `StartupProofs`, `GlossaryReadsProofs`, `FiltersProofs`, `ApiRequestsProofs` | the theorems of section 5 about the module of that name |

The modules meet where the code does. `UpdateLock` treats the database
transaction as one await (`Sync`, `SyncFails`), `GlossaryDB` opens it up into
statements, `ExcelSync` computes what it deletes and inserts. `DetachedUpdate`
runs `UpdateLock`'s own actions in its slots. `ApiRequests` sees the whole from
outside: its transactions are atomic, its job runs alone (of other writers it keeps the one
exception they add, `NotFoundError`, which becomes 404), and what it adds are the body,
the statuses and EDU. `GlossaryDB` and `ApiRequests` implement the same contract, one
under concurrency, one up to the status. `GlossaryReads` takes the view to
agree with the table, which `GlossaryDB` shows for a writer that nobody overlaps
(`LoneWriterIsRight`). `Startup` ends where `UpdateLock` begins, with the containers
running.

How the state corresponds to the code:

* `UpdateLock`: `key` is the value in Redis; `pc[u]` is the await a call is
  suspended at (`ping` and `check` at lines 127-130, `acquire` at 136, `fetch`
  at 138-146, `sync` at 155-185, `upload` at 187, `cleanup` at 200, `finish` at
  205-211); `status[u]` is the local variable; `app` and `up` are the app
  container and its gunicorn workers. `committed` and `incidents` are history.
  A command whose answer is lost may or may not have reached Redis (`CutOff`).
* `DetachedUpdate`: `queue`, `running`, `tries`, `result` are what arq keeps
  in Redis and in its worker; `request` and `answer` are what a client sees.
  `commits` is history, and so is `guarded`, the jobs whose commit has left an `updating`
  that has been in Redis ever since.
* `ExcelSync`: `frame` is the data frame, `clean` and `errors` what
  `clean_up_df_and_identify_errors` returns, `missing` and `added` the two lists
  of `_prepare_glossary_data_to_update`, `table` the rows with their ids. A cell
  is a model of what the code asks of it: blank, only spaces, padded, too long,
  a number.
* `GlossaryDB`: `table` and `view` are the committed relations, `writes` the
  row versions of open transactions (their writer holds the row locks),
  `viewLock` the ACCESS EXCLUSIVE lock of REFRESH, and `tx[w]` the session:
  its statement, its snapshot, and its local lists as sets of positions in the request
  (no property depends on the order of what one statement inserts). `search[r]` is a
  reader of the view. `alone`, `base` (the table its SELECT saw) and `since` (the rows
  others have committed after that) are history. A client knows an id that the service
  made up only after the answer that told it (`Known`).
* `GlossaryContract`: `request` and `reply` are what a client has asked and was last
  told, `landed` whether an open request has taken effect, `loose` the jobs whose
  clients were told not to wait. A refresh may land more than once (`Repeats`), because arq
  may run its job again; a bulk request may not. `GlossaryDB` maps `request[w]` to the job of
  `tx[w]`, and a transaction lands in the step that answers it; `ApiRequests` maps
  `reply` to the meaning of the status (`Told`), where a refusal of a job that was run
  again means no more than a failure, and a job whose client got 408 to `loose`.
* `Startup`: `pc[c]` is the stage of a container (`exists`, `create`, `connect` at
  `pre_launch.py:23-30`, `lock` to `unlock` at 51-56, `import`, `refresh`,
  `refreshing` at 59-69, `main` the start of the main program), `database` how far the
  database has come, `lock` yoyo's row, `waited[c]` the elapsed time. `Release` is how a
  failed refresh leaves the key. `calm` and `cut` (whether a migration was interrupted, and
  whether a refresh has ended without releasing the key) are history.
* `Filters`: a filter is its condition, its own tests and its inner filters; a
  condition is the set of rows that satisfy it. `Layers` lists filters from the inside
  out, so that a tree of filters is finite in depth (not necessarily in width), as any
  pydantic object is.
* `ApiRequests`: `client` and `answer` are the open request and the last response,
  `job` the job in the worker with its tries, the exception it ends with and, as history,
  whether one of its tries has committed (`landed`); `report` what
  ERRORS.xlsx on EDU is about, `crowded` whether EDU's list of attachments ends
  before it. The elements to insert are a set of positions in the body; two of them that
  get one id are the conflict of line 295 of `repository.py`, so every id has one text.
* `GlossaryReads`: `walk` is the client's request, offset and what it has seen.
  A synonym is known by how it contains the query, whether it has a space, and
  whether one of its words fits the query as an ILIKE pattern. Rows with equal
  keys come in any order.

Operators named "Variant" state a plausible bug in the code; `PROJECT.json`
names for each property the variant it must detect.

### External behaviour that is assumed

* **arq**: a job stays in Redis until its result is stored; a job interrupted
  by a shutdown or a crash, or whose result could not be stored, is run again,
  at most `max_tries` times; a job over its time limit is cancelled for good with
  `TimeoutError`; results outlive the time a client waits.
* **PostgreSQL**: READ COMMITTED as documented: a statement's snapshot, waiting
  for row locks, re-checking the WHERE clause on the newest version; REFRESH takes
  its snapshot before it waits for the view's lock; the deadlock detector finds
  every cycle of waits.
  A database does not go away once it is created.
* **Redis** executes single commands atomically.
* **yoyo** keeps its lock as a row of a table, so it outlives the process and the server;
  a migration runs in one transaction, its mark is written in the next.
* **sqlalchemy_utils**: `database_exists` answers "no" when it cannot connect.
* **EDU** refuses to create an attachment whose name exists, and lists attachments in
  pages of which the code reads the first.

## 3. Runs

| Run | Question | Bounds |
|---|---|---|
| `lock_faults` | Is the key exclusive, released and truthfully reported under every failure? | three callers, one of them `pre_launch.py`; one gunicorn worker; Redis, EDU, database failures, cancellation, workers that die, restarts |
| `lock_live` | What remains of the hazards when Redis answers and nobody is cut off? | the same callers, EDU and database failures; fair event loops |
| `lock_race` (violation) | Is there at most one update? | no failures |
| `lock_cancel` (violation) | Is the key always released? | cancellation only, fair event loops |
| `detached_queue` | Are jobs kept, ended and truthfully answered? Is an interrupted job applied twice? | two slots, one other caller, one client, two jobs of two tries; cancellation, worker death, failures of the queue's Redis |
| `excel_refresh` | Does a refresh clean, report and apply the sheet exactly? | every sheet of up to 3 rows out of 7, two rounds |
| `db_pair` | What has a transaction done, whatever ran beside it, and what may a lone writer rely on? | two writers, three requests out of ten, broken connections |
| `db_live` | Does every request and every search end? | two writers, two requests, one reader; no broken connections |
| `db_view` (violation) | Does the view show the table? | two writers, two requests |
| `reads_pages` | What may a client that walks through pages miss, see twice or miscount? | every table of up to 3 elements out of 8 contents, page sizes none, 1 and 2, one commit that may replace the whole table |
| `startup` | Do main programs find what they need, do starts fail, and are strict refreshes refused, only for a reason, do they end? | two containers, four deployments, four launches, two stops; PostgreSQL late, away or never there; three seconds of waiting |
| `api` | Are statuses true, and do filters select what they say? | two requests out of 54 bodies and 6 sheets, jobs of two tries, every failure of PostgreSQL, Redis and EDU; 2500 filters of up to three layers |

What they show:

* **Lock.** `ExclusiveUntilMishap`: two refreshes run at once only after one of
  two incidents, a *race* (two callers saw the key free) or a *theft* (the key was
  taken from under a running call, by a losing caller's `except`/`else` or by a
  starting gunicorn worker). `HeldOrCut`: an `updating` in Redis has a caller
  that will release it unless some call was cut off. `ReplyHonest`: "modified"
  comes after the commit and a refused call has touched nothing. The `failed`
  reply is not conclusive, and the model shows that it can follow a commit.
  `RaceIsTheOnlyHole` and `OnlyTheAdmittedRelease` say that in a healthy
  environment the check-then-set race is the only hole, and that a refused
  call leaves the key alone (the `isinstance` test of line 199).
  `KeyIsReleased` and `EveryCallEnds` are the liveness of that environment.
* **Queue.** `JobsAreKept`: a job is in the queue, in exactly one slot or has its
  result. `AnswerHonest`: a 200 stands for a commit of that very job; a 423
  for none, *unless the job was tried again*: then the refusal may come from the
  key its own first try left behind, and that try may have committed.
  `NotAppliedTwice` is the other side of that: while this key is there, the second try
  does not apply the sheet again. The key is all that tells the second try, so nothing is
  said of what comes after the key is gone: a gunicorn worker that starts takes it away,
  and the sheet may be applied twice. `EveryJobEnds` holds although a job
  may be interrupted in every try.
* **Sheet.** `CleaningIsExact` and `ErrorsAreTrue` compare the masks with an
  independent definition of a good row; `TableFollowsSheet` and `KeptElementsStay`
  relate the table to the sheet across refreshes, so that a second refresh from the same
  sheet changes nothing. Copies arise from padded cells only (`DuplicatesNeedPadding`).
* **Transactions.** `KeepsThePromise` is a refinement of `GlossaryContract`: a
  transaction lands as a whole and with its answer; "modified" means that each element of a
  bulk request is stored and no other row touched, or that a refresh removed only what
  its sheet lacks and added only what the sheet has, each once; a refusal has left no
  trace. This holds although the rows a statement waited for have been changed by others.
  The contract has no order in it and is weaker than serialisability:
  `RefreshRemovesTheRest` and `CopiesAreConcurrent` bound what is lost by that: what
  remains after a refresh and is not in its sheet stands in a row that others have
  committed since its SELECT (perhaps with the very text it had at the SELECT, changed
  and put back meanwhile), and a copy is one of an element that appeared after it. `LoneWriterIsRight`: whoever writes
  while nobody else does is served, refused only for a reason in the request, and
  leaves a view that shows the table, even after others have left copies or a stale
  view. `EveryRequestEnds`: the deadlock detector and nothing else is
  needed to end the waits, of writers for rows, of writers for the view and of
  searches for writers.
* **Start.** `ServesOnlyWhenReady`: behind `--migrate` a main program finds the tables and
  behind `strict` a refreshed glossary. `FailsForAReason`: while PostgreSQL runs, containers that
  create the database or migrate at once do not make each other fail, except for yoyo's
  lock; a start that fails for a lock nobody holds, or for tables without a mark, has
  an interrupted migration before it; and a strict first refresh is refused only while
  another container refreshes, or after a refresh that ended without releasing the key
  (it was cut off, or Redis did not answer). `EveryStartEnds`: no start hangs.
* **Requests.** `StatusContract`: 200 has taken effect, 408, 500 and 503 are open (after 408
  the job may still change the table while the client asks again), and any other 4xx has not
  taken effect and will not, *unless arq has run the job again*. Then it is as open as 408:
  a first try that committed and was cut off leaves `updating`, the second try meets it, and
  the client gets 423 for a refresh that is in the database. `AnswersAreTrue`: bodies get 200 exactly if they are acceptable in
  the sense of a definition beside the code, and a 200 with `parsing_error` has its own
  report on EDU, whatever was lost or refused on the way. `FiltersMean` compares the
  conditions the builder makes with what the tree of filters says.
* **Reads.** `ListMissesNothing` and `ListRepeatsNothing`: an insertion between
  pages cannot hide an element, a deletion cannot repeat one. `SearchShowsEachOnce`
  and `SearchBestFirst` compare one row per pair of synonyms, eight levels and
  `rn = 1` with a definition in terms of the elements' best synonyms.
  `TotalsMatchTheWalk`: totals of undisturbed walks agree with what is shown,
  with the search's 0 on an empty page as the only exception.

### Why the bounds are enough

Two callers suffice for every race on the key; the third (with
`raise_blocked=False`) lets a theft and a race meet. Two slots are the least that
let one job wait for the key of another and a retried job meet its own; two
tries are the least that let one succeed after an interruption. Row locks and the view
make cycles of two writers, and two requests that touch the same two rows in
opposite orders are among the ten; a third request finds what a pair has left. Two
containers suffice for the races for the database and for yoyo's lock, four launches for a
start after an interrupted one beside another; with two stops a container dies and
PostgreSQL goes away in one behaviour. Two requests let a job outlive
its client's patience beside a bulk request, two tries let a job commit and then be refused, or meet the report and the key of the one
before; filters of three layers have an empty one inside an inner one. Three rows are the least for a duplicate of a
duplicate, or of a faulty row, beside a good one. Three elements with page size 2 give a
full page, a short page and an exact fit.

### Fairness

`FairSpec` of `UpdateLock`, of `GlossaryDB` and of `Startup`, and `FairDetachedSpec`,
assume weak fairness of the steps of calls that have begun: an event loop resumes a
coroutine whose await is over, a process goes on, and PostgreSQL's deadlock
detector runs after `deadlock_timeout`. A search is fair only in its own statement: that it
gets the view follows from the writers' fairness. In `Startup` PostgreSQL need never come up. `FairDetachedSpec` also assumes that the arq worker, which polls
the queue for as long as it runs (`worker.py` restarts it after any exception), takes
jobs. Nothing else is fair: no client has to ask, to wait or to give up, no
failure has to happen or to stop, cron need not fire and `blocked` need not
expire.

`CHECK_DEADLOCK FALSE` is set where the system stops at a bound on jobs, rounds,
requests or launches.

## 4. Where the code and its words disagree

Each of these is a run that TLC finds violated (`findings` in `PROJECT.json`):

1. `lock_race`: GET and SET are two commands, so two callers can both be
   admitted (`glossary.py:130-136`).
2. `lock_cancel`: a cancelled call leaves `updating` for ever
   (`glossary.py:197`), and all on-demand and nightly refreshes are refused
   until a gunicorn worker starts.
3. `db_view`: of two overlapping writers the second replaces the view by one that
   lacks the first one's rows (migration, line 78), until the next write.

Seen while modelling, described by the models but not a run of their own:

* Duplicates are looked for before cells are stripped (`excel.py:117`), so rows that differ
  in padding become equal elements, although `excel.py:60` takes "дубликаты" out and the
  API refuses them (`DuplicatesNeedPadding` shows that nothing else makes copies).
* ERRORS.xlsx is looked for among the attachments EDU lists at once
  (`edu.py:104`). If it is further on, it is created again, refused, and every refresh
  of a sheet with errors is answered with 503 after its commit. It is also left as it is by a
  refresh without errors.
* A field of a bulk request may be null by its type (`requests/glossary.py:16-18`), but
  no element with a null field is ever stored: it is ignored in the check for existing
  elements, which may find another one (422), and then fails the DTO (500).
* The handler of `RedisConnectionError` is never reached: `create_pool` raises an error of
  redis itself (500), and in the job the exception becomes `UnboundLocalError`.
* A cancelled job is reported as 408, like one that is still running (`glossary.py:239`).
* A client may get 423 for a refresh that has committed: arq runs an interrupted job again,
  and the second try is refused for the key of the first (`glossary.py:131`, `235`). No doc or
  comment says what 423 stands for, so this is an exception in `AnswerHonest` and
  `StatusContract` and no violation.
* `GET /excel` may be answered with 404 (`repository.py:251-254`): when other writers have
  removed all the rows its DELETE was to remove.
* If Redis fails under the DEL of the `except` branch, its error takes the place of the one
  that led there (`glossary.py:200`).
* In strict mode an `updating` left behind by a killed refresh keeps the app from starting,
  and only the app's own start would delete it (`pre_launch.py:120`, `main.py:22`).
* A filter of a field takes no `condition`: its operators are joined with AND whatever it
  says (`repository.py:199-227`); `like` does not escape `%` and `_`.
* An upload of ERRORS.xlsx that fails after the commit reports the refresh as
  failed, and no cool-down follows (`glossary.py:187`).
* If the first PING fails, `pipe` is unbound in the `except` branch and the
  caller gets `UnboundLocalError` (`glossary.py:200`).
* One numeric cell stops a whole refresh: it passes the cleaning and fails
  validation (`glossary.py:305`).
* Two bulk requests can both insert the same new text; only the sheet's
  next refresh can remove them, and only if the text is not in the sheet
  (`CopiesAreConcurrent`).
* The search escapes the query and then uses it as the *subject* of ILIKE against
  the words of a synonym (`glossary_element.py:40, 44`): an underscore in a word
  fits any letter, so an element may be found that does not contain the query,
  and a query with an underscore never fits the word that equals it.
* A query made of garbage symbols only passes `min_length=1` and is then stripped
  to the empty text (`requests/glossary.py:51-61`), which every synonym contains:
  the whole glossary is found.
* Elements that differ in case only have no order in the search, so pages may
  repeat one and miss the other (`glossary_element.py:76-88`).

## 5. Theorems

Every invariant and every action property of the passing runs, and each of the two
refinements, is a theorem of its specification: it holds for every set of callers,
workers, slots, clients, writers, readers and containers, every table, sheet, page size
and tree of filters, and any number of jobs, rounds, commits, launches, requests and elements of a
request (`MaxItems`, 3 in the runs). What is assumed is what the modules' named ASSUMEs
say, which TLC evaluates in the runs: that constants have the expected kind, that the ids
made up by uuid4 are no ids that a client has of itself, and that elements of a sheet
differ (the merge has dropped duplicates). Three theorems have a hypothesis of their own,
given below.

The proofs follow one pattern. The property alone is seldom inductive; the invariant
(`IInv` where it is one formula) is a conjunction of named parts, each of them checked by
TLC in the bounds of the run before it was proved; each action has a lemma that says what
it does to the parts, and the theorem puts the actions together. Where a step is decided
by data, lemmas about the operators (what a statement returns, keeps and bounds) come first.

**`UpdateLock`** (`UpdateLockProofs`)

* `TypeInvariant`.
* `Exclusion` proves `ExclusiveUntilMishap`, which alone is not inductive: it
  does not say which value the key has while a call works. The invariant
  adds that without an incident a working call's key is `updating`, and that
  a call that is about to SET has read a value other than `updating`; then a SET
  that would make a second working call is a race by definition, and every other
  change of the key under a working call is a theft.
* `Release` proves `HeldOrCut`, which is inductive with the types.
* `Honesty` proves `ReplyHonest` from `RepliesKept`, which adds that a call
  commits only in `sync`, so that none has committed before, and all have in
  `upload` and `finish`.
* `OnlyTheRace` (`RaceIsTheOnlyHole`) and `AdmittedRelease` (`OnlyTheAdmittedRelease`) are
  about a healthy environment, and say so: Redis answers (`"redis" \notin Faults`), and
  for the first no gunicorn worker starts (`AppWorkers = {}`), because that one deletes the
  key. EDU, the database, cancellation and restarts may still fail. `Owned` adds that
  a call that holds the key has been admitted, and that until a race it holds it alone.

**`DetachedUpdate`** (`DetachedUpdateProofs`)

* `ExclusionUnderQueue`: the three invariants of `UpdateLock` hold of the composed system.
  Its slots take `UpdateLock`'s own actions, so that every step is one of `UpdateLock` or
  leaves its variables alone (the lemmas `StepRefines` and `StepsOfUpdateLock`: they follow
  from how the module is written, and carry the theorems above over).
* `NotTwice` proves `NotAppliedTwice` from `GuardInv`: while a job's commit is guarded, the key
  is `updating`, and a slot that runs the job is not on its way to a commit; for to be on
  the way it would have had to find another value in the key, after which the job is no
  longer guarded.
* `NoJobIsLost` proves `JobsAreKept` from `QueueInv`, which adds the types of
  the queue's variables, that nothing is known of jobs that were not issued, and that a
  slot has a job exactly while its call runs. `DetachedTypes` follows.
* `TruthfulAnswers` proves `AnswerHonest` from `CommitInv`: it relates a job's commits
  to what its slot knows of the present try (`committed`) and to its number of
  tries, and every answer to the result it came from.

**`ExcelSync`** (`ExcelSyncProofs`)

* `TypeInvariant`, `Cleaning` (`CleaningIsExact`), `Errors` (`ErrorsAreTrue`),
  `TableIsTheSheet` (`TableFollowsSheet`), `KeptElements` (`KeptElementsStay`),
  `NoNewCopies` (`DuplicatesNeedPadding`).
* The masks are compared with the definition of a good row by `MasksAreExact`, which rests on
  `TwoFilled` (counting filled fields is leaving none out alone) and on `FirstOfItsKind`:
  in a frame of any length every repeated row has a first occurrence, the one
  `duplicated` keeps. The invariant says of each stage what the refresh has computed so far
  (`ComputedInv`) and that no element has the number of the round that is going to insert
  (`FreshInv`); without it an insertion could overwrite an element.

**`GlossaryDB`** (`GlossaryDBProofs`)

* `Inductive`, `TypeInvariant`, and `KeepsPromise` (`KeepsThePromise`): concurrent
  transactions of any number of writers implement `GlossaryContract`. The request of a writer
  is the job of its session; a step that does not answer is a stutter, `Begin` is `Ask`, a
  rollback is `Refuse` or `Fail`, and the COMMIT is `Acknowledge`, or `Fail` when its answer
  is lost.
* What has to be known at the COMMIT is what all statements before it did, while others
  committed in between. `BulkOK` and `SyncOK` say it stage by stage: which elements the loop
  of UPDATEs has passed and which rows they are in, what is inserted, that a refresh has
  written Gone only over texts that the sheet lacks, and that a row nobody else has
  committed since the SELECT and that has to go is gone or among the rows the DELETE waits
  for. They hold because a written row is locked (`LockInv`), because a session that has not
  read has not written (`FreshInv`), and because nobody else has to do with the uuid4s of an
  open request (`NumberInv`).
* `RemovesTheRest`, `Copies` (`CopiesAreConcurrent`) and `LoneWriter` (`LoneWriterIsRight`)
  follow. The last needs `AloneOK`: for a writer that has met nobody the table is
  still what it read, each DELETE finds its row, and the view it filled last is what it
  will commit.
* Looking for the invariant showed that `RefreshRemovesTheRest` had said too much: that the
  row which remains must *differ* from what the refresh saw. TLC found the row that another
  writer changes and a third one puts back; the history `since` says what is meant.

**`Startup`** (`StartupProofs`)

* `TypeInvariant`, `ReadyBeforeServing` (`ServesOnlyWhenReady`).
* `FailuresHaveReasons` (`FailsForAReason`) assumes `Timeout # 0`: with a
  `wait_for_database_timeout` of 0 (the default is 20, `config.py:36`) the container that
  loses the race to create the database would fail at once, for no reason of those listed.
* `LockInv` is the mutual exclusion of migrations: the row of yoyo's lock names the one
  container that migrates, or an interrupted one left it. `TablesInv` says when there are tables
  without a mark, `StageInv` what a start has behind it at each stage, `CalmInv` that
  a container that has seen PostgreSQL all the time has retried at most once, and `KeyInv`
  that an `updating` in Redis belongs to a refresh that runs, or to one that ended without
  releasing it.

**`GlossaryReads`** (`GlossaryReadsProofs`)

* `TypeInvariant`, `MissesNothing`, `RepeatsNothing`, `Totals`, `ShowsEachOnce`, `BestFirst`
  for the properties of the run `reads_pages`.
* For the listing, the rank of an element is the number of elements before it. Without
  removals ranks do not fall, so an element that has not been shown has a rank of at
  least the offset (`NothingMissed`); without insertions they do not rise
  (`NothingRepeated`). For the search, rows with equal keys may change places between
  pages, so the invariant relates what was shown to *some* sorted sequence up to equal keys
  (`SearchInv`); that the element appears once and best first follows from counting the rows
  with smaller keys. The lemmas about sorted sequences, pages and cardinalities hold for
  sequences of any length.

**`Filters`** (`FiltersProofs`)

* `Builder` (`BuildsWhatItSays`): the WHERE clause selects what the tree describes. The
  builder is recursive, and the library's induction takes an operator as a parameter, which
  no prover here can use. `Layers` makes up for it: the lowest layer that fails
  (`FirstFailure`, from the well-foundedness of the naturals) has all layers below it right.
  In this way the recursive functions are shown to exist (`ConditionsDefined`, `SaysDefined`,
  `DescribesDefined`) and to agree (`AllCorrect`).

**`ApiRequests`** (`ApiRequestsProofs`)

* `FiltersSelect` (`FiltersMean`) is `Builder` in every state.
* `TypeInvariant`, from `Inductive`: the statuses of the two routes are 200, 404, 408, 409,
  422, 423, 500 and 503.
* `TrueAnswers` (`AnswersAreTrue`) rests on `AcceptsTheAcceptable`: the checks of the code
  (`minimum_two`, the copies, the filter of the bulk request, the DTO, INSERT's conflict) let
  through exactly the bodies that `Acceptable` describes. `ExistsMeans` gets from `Builder` what
  the filter of a body selects. `ReportOK` says that a job which did not fail has put its own
  errors on EDU.
* `Contract` (`StatusContract`): the two routes implement `GlossaryContract`. `JobOK` says
  when a job has landed, stage by stage, and that a job in its first try never ends with a
  refusal after it has; in a later try it may, and `Told` takes no refusal of it for final;
  `FreshOK` that the ids a transaction is going to make up are in no row, so that every
  inserted element gets a row of its own. A job that lands, perhaps again, after its client was told 408
  is `LandLate`, and so is one that ends without landing.

Checked by TLC only:

* All liveness (`KeyIsReleased`, `EveryCallEnds`, `EveryRequestEnds`, `EveryJobEnds`,
  `EveryStartEnds`): a prover without ENABLED cannot use the fairness.
* The three violations of section 4, which are traces.
* That the constants of the runs satisfy the assumptions.

No module has a RECURSIVE operator.

## 6. What is not modelled

* Filters on numbers, dates, booleans and JSONB, ordering and pagination of the
  filter builder: no filter of the service uses them.
* The generic `create`, `get_one` and `filter` of the repository, which nothing calls.
* Which wrong workbook fails how: a missing sheet or column, and a file that is not a
  workbook, are answers of EDU in `ApiRequests`.
* What the class that `models.py` maps can do before its table exists: the scheduler and arq
  may import it then (`docker-compose.yml:51`); whether it works is a static fact of
  SQLAlchemy's mapping, decided by the columns that the class names.
* Time: cool-downs, timeouts and cron fire at any moment; only the wait for PostgreSQL counts
  seconds.
* The arq pool that each detached request opens and leaves open
  (`glossary.py:222`), the engine and the Redis client of each request
  (`dependencies.py:16-23`), and connection limits in general.
* Settings, logging, authentication (used by no route), version, tests.

## 7. Plan

Done, in this order: `UpdateLock` and its proofs; `ExcelSync`; `GlossaryDB`;
`DetachedUpdate` and its proofs; `GlossaryReads`; `GlossaryContract` and the refinement;
`Startup`; `HttpErrors`, `Filters` and `ApiRequests`; then the theorems of `UpdateLock` about
the healthy environment and those of `Startup`, `ExcelSync`, `GlossaryDB`, `GlossaryReads`,
`Filters` and `ApiRequests`.

Next:

1. Theorems about what two transactions leave of each other's locks: that the view's lock is
   held by one writer at a time is so by the type of `viewLock`, but that a search never shows
   rows of an open transaction is only seen in `GlossaryDB`'s actions.
2. That each of the two halves of the system composes: `Startup` leaves behind a state in
   which `UpdateLock` may begin.
