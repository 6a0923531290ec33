----------------------------- MODULE GlossaryDB -----------------------------
(***************************************************************************)
(* Writers of glossary_element at the same time: bulk requests of the API  *)
(* (bulk_create_or_update_glossary_elements) and refreshes from the sheet  *)
(* (the `async with self.uow` of update_glossary_from_xlsx), each in one   *)
(* transaction of PostgreSQL at READ COMMITTED.                            *)
(*                                                                         *)
(* A statement sees what is committed when it starts, waits for the rows   *)
(* that others have written, and then looks at them again.  After every    *)
(* statement, even one that met no row, the trigger of the migration       *)
(* refreshes the view ge_splitted: the snapshot is taken first, then the   *)
(* view is locked until the end of the transaction.  Whoever closes a      *)
(* circle of waits may be chosen as the victim of the deadlock detector.   *)
(*                                                                         *)
(* An element is an id and a text, which stands for its three fields.      *)
(***************************************************************************)
EXTENDS Integers, Sequences

CONSTANTS
    Writers,    \* connections that serve one job after another
    Ids,        \* UUIDs that the clients of the API know or bring
    Texts,      \* abbreviation, term and definition of an element
    NoId,       \* `id` of an element that leaves it out
    Gone,       \* no row under this id
    Untouched,  \* this transaction has not written this id
    None,       \* no writer
    Tables,     \* contents the table may start with
    Jobs,       \* requests that may arrive
    Readers,    \* connections that search
    MaxJobs,    \* bound: requests in one behaviour
    MaxItems,   \* bound: elements of a request
    CanFail     \* whether a connection may break or a call be cancelled

NewIds   == (1..MaxJobs) \X (1..MaxItems)   \* uuid4 of the k-th element of a request
RowIds   == Ids \cup NewIds
Elements == [id : RowIds \cup {NoId}, text : Texts]

\* Parsed requests: check_duplicates lets no text come twice; a sheet has no
\* copies either once it is cleaned.
BulkJobs == [kind : {"bulk"}, elements : Seq(Elements)]
SyncJobs == [kind : {"sync"}, sheet : Seq(Texts)]

Distinct(s) == \A i, j \in DOMAIN s : s[i] = s[j] => i = j
ElementTexts(es) == [i \in DOMAIN es |-> es[i].text]
TextsOf(job) == IF job.kind = "bulk" THEN ElementTexts(job.elements) ELSE job.sheet
Positions(job) == DOMAIN TextsOf(job)

ASSUME NamesAssumption ==
    /\ NoId \notin RowIds /\ None \notin Writers
    /\ {Gone, Untouched} \cap Texts = {} /\ Gone # Untouched
    /\ Ids \cap NewIds = {}
ASSUME JobsAssumption ==
    \A j \in Jobs : /\ j \in BulkJobs \cup SyncJobs
                    /\ Positions(j) \subseteq 1..MaxItems /\ Distinct(TextsOf(j))
\* A uuid4 is new when it is drawn.
ASSUME TablesAssumption ==
    \A t \in Tables : /\ t \in [RowIds -> Texts \cup {Gone}]
                      /\ \A i \in NewIds : t[i] = Gone
ASSUME ItemsAssumption == MaxItems \in Nat
ASSUME BoundAssumption == MaxJobs \in Nat /\ CanFail \in BOOLEAN

VARIABLES
    table,     \* glossary_element as committed
    view,      \* ge_splitted as committed: the rows it was made from
    viewLock,  \* who holds the ACCESS EXCLUSIVE lock of the view
    writes,    \* rows written and not committed: the writer locks them
    tx,        \* the local state of each writer
    jobs,      \* requests so far
    reply,     \* how the last request of each writer ended
    search     \* what each reader does: idle, waiting for the view, reading

vars == <<table, view, viewLock, writes, tx, jobs, reply, search>>

Rows  == [RowIds -> Texts \cup {Gone}]
Empty == [i \in RowIds |-> Gone]
Clean == [i \in RowIds |-> Untouched]
NoJob == [kind |-> "none"]

Values(t) == {t[i] : i \in RowIds} \ {Gone}

\* A session between two requests.
Closed == [pc      |-> "idle",   \* the statement it is at
           job     |-> NoJob,    \* the request
           number  |-> 0,        \* its ordinal, which its uuid4s carry
           alone   |-> FALSE,    \* history: no other transaction was open so far
           base    |-> Empty,    \* history: the table its first SELECT saw
           since   |-> {},       \* history: rows others have committed since then
           todo    |-> {},       \* positions the loop or statement has yet to handle
           updated |-> {},       \* positions of updated_elements_ids
           missing |-> {},       \* texts to delete
           victims |-> {},       \* rows the DELETE selected and has not visited
           hit     |-> FALSE,    \* rowcount of the DELETE is not 0
           snap    |-> Empty,    \* what the last REFRESH saw
           next    |-> "idle"]   \* the statement after the trigger

At(w, label) == tx[w].pc = label

\* The element at position k of the request of session s: its text, whether the
\* client gave an id, and its row, under that id or a uuid4.
TextAt(s, k) == TextsOf(s.job)[k]
HasId(s, k)  == s.job.kind = "bulk" /\ s.job.elements[k].id # NoId

\* Variant: uuid4 is left to the database, which has no default.
RowIdWithoutUuid(s, k) ==
    IF s.job.kind = "bulk" THEN s.job.elements[k].id ELSE <<s.number, k>>

RowId(s, k) == IF HasId(s, k) THEN s.job.elements[k].id ELSE <<s.number, k>>

First(S) == CHOOSE k \in S : \A m \in S : k <= m

\* What transaction w sees: its own writes over what is committed.
Visible(w) == [i \in RowIds |-> IF writes[w][i] = Untouched THEN table[i] ELSE writes[w][i]]

\* The other writers that hold the lock of row i.
Owners(w, i) == {v \in Writers \ {w} : writes[v][i] # Untouched}

Free(w, i) == Owners(w, i) = {}

Write(w, i, value) == writes' = [writes EXCEPT ![w][i] = value]

Shared == <<table, view, viewLock, jobs, reply, search>>

-----------------------------------------------------------------------------

Init ==
    /\ table \in Tables
    /\ view = table
    /\ viewLock = None
    /\ writes = [w \in Writers |-> Clean]
    /\ tx = [w \in Writers |-> Closed]
    /\ jobs = 0
    /\ reply = [w \in Writers |-> "none"]
    /\ search = [r \in Readers |-> "idle"]

\* A client knows the uuid4s of requests that have come to their end.
Known(job) ==
    job.kind = "bulk" =>
        \A k \in DOMAIN job.elements, n \in 1..MaxJobs, m \in 1..MaxItems :
            job.elements[k].id = <<n, m>> => n <= jobs /\ \A u \in Writers : tx[u].number # n

\* A request arrives, or a refresh reaches its transaction.
Begin(w) ==
    /\ At(w, "idle")
    /\ jobs < MaxJobs
    /\ jobs' = jobs + 1
    /\ \E j \in Jobs :
        /\ Known(j)
        /\ tx' = [v \in Writers |->
                    IF v = w
                    THEN [Closed EXCEPT !.pc = IF j.kind = "bulk" THEN "check" ELSE "select",
                                        !.job = j,
                                        !.number = jobs + 1,
                                        !.alone = \A u \in Writers : At(u, "idle")]
                    ELSE [tx[v] EXCEPT !.alone = FALSE]]
    /\ UNCHANGED <<table, view, viewLock, writes, reply, search>>

\* COMMIT or ROLLBACK: the locks are released and the session is closed.
EndTx(w, answer, wrote) ==
    /\ tx' = [v \in Writers |->
                 IF v = w THEN Closed
                 ELSE IF tx[v].pc \in {"idle", "check", "select"} THEN tx[v]
                 ELSE [tx[v] EXCEPT !.since = @ \cup wrote]]
    /\ writes' = [writes EXCEPT ![w] = Clean]
    /\ viewLock' = IF viewLock = w THEN None ELSE viewLock
    /\ reply' = [reply EXCEPT ![w] = answer]
    /\ UNCHANGED <<jobs, search>>

RollBack(w, answer) == EndTx(w, answer, {}) /\ UNCHANGED <<table, view>>

-----------------------------------------------------------------------------
(* bulk_create_or_update_glossary_elements                                 *)

\* Variant: the nested filters are joined with AND.
ExistsAll(es) ==
    IF es = << >> THEN Values(table) # {}
    ELSE \A k \in DOMAIN es : es[k].text \in Values(table)

\* get_list on the OR of the texts; without an element there is no condition at
\* all and every row matches (_build_filter_query).
Exists(es) ==
    IF es = << >> THEN Values(table) # {}
    ELSE \E k \in DOMAIN es : es[k].text \in Values(table)

Check(w) ==
    /\ At(w, "check")
    /\ LET es == tx[w].job.elements IN
        \/ Exists(es) /\ RollBack(w, "exists")
        \/ /\ ~Exists(es)
           /\ tx' = [tx EXCEPT ![w].pc = "update",
                               ![w].base = table,
                               ![w].todo = {k \in DOMAIN es : HasId(tx[w], k)}]
           /\ UNCHANGED <<Shared, writes>>

\* Variant: after a NotFoundError the loop tries the same element again.
UpdateRetrying(w) ==
    /\ At(w, "update")
    /\ tx[w].todo # {}
    /\ LET k == First(tx[w].todo)
           i == RowId(tx[w], k)
       IN
        \/ /\ Visible(w)[i] = Gone
           /\ tx' = [tx EXCEPT ![w].pc = "snapshot", ![w].next = "update"]
           /\ UNCHANGED writes
        \/ /\ Visible(w)[i] # Gone /\ Free(w, i)
           /\ Write(w, i, TextAt(tx[w], k))
           /\ tx' = [tx EXCEPT ![w].pc = "snapshot", ![w].next = "update",
                               ![w].todo = @ \ {k}, ![w].updated = @ \cup {k}]
    /\ UNCHANGED Shared

\* UPDATE ... WHERE id = ... RETURNING, NotFoundError suppressed.  A row that is
\* not visible is not waited for, whoever may be inserting it.
Update(w) ==
    /\ At(w, "update")
    /\ tx[w].todo # {}
    /\ LET k == First(tx[w].todo)
           i == RowId(tx[w], k)
       IN
        \/ /\ Visible(w)[i] = Gone
           /\ tx' = [tx EXCEPT ![w].pc = "snapshot", ![w].next = "update",
                               ![w].todo = @ \ {k}]
           /\ UNCHANGED writes
        \/ /\ Visible(w)[i] # Gone /\ Free(w, i)
           /\ Write(w, i, TextAt(tx[w], k))
           /\ tx' = [tx EXCEPT ![w].pc = "snapshot", ![w].next = "update",
                               ![w].todo = @ \ {k}, ![w].updated = @ \cup {k}]
    /\ UNCHANGED Shared

\* The positions that still have to be inserted: `element.id not in
\* updated_elements_ids`.
UpdatedIds(s) == {RowId(s, k) : k \in s.updated}
ToInsert(s)   == {k \in Positions(s.job) : RowId(s, k) \notin UpdatedIds(s)}

\* The loop is over: compare the lengths and go on with INSERT or COMMIT.
Updated(w) ==
    /\ At(w, "update")
    /\ tx[w].todo = {}
    /\ IF tx[w].updated = Positions(tx[w].job)
       THEN tx' = [tx EXCEPT ![w].pc = "commit"]
       ELSE tx' = [tx EXCEPT ![w].pc = "insert", ![w].todo = ToInsert(tx[w])]
    /\ UNCHANGED <<Shared, writes>>

-----------------------------------------------------------------------------
(* The transaction of update_glossary_from_xlsx                            *)

\* Variant: delete or insert, not delete and then insert.
FirstStatementEither(missing, added) ==
    IF added # {} THEN "insert" ELSE IF missing # {} THEN "delete" ELSE "commit"

\* The two ifs in front of delete and bulk_create.
FirstStatement(missing, added) ==
    IF missing # {} THEN "delete" ELSE IF added # {} THEN "insert" ELSE "commit"

\* get_list() and _prepare_glossary_data_to_update.
Select(w) ==
    /\ At(w, "select")
    /\ LET sheet   == tx[w].job.sheet
           missing == Values(table) \ {sheet[k] : k \in DOMAIN sheet}
           added   == {k \in DOMAIN sheet : sheet[k] \notin Values(table)}
       IN  tx' = [tx EXCEPT
                    ![w].base = table,
                    ![w].missing = missing,
                    ![w].todo = added,
                    ![w].pc = FirstStatement(missing, added)]
    /\ UNCHANGED <<Shared, writes>>

\* DELETE selects its rows.
Delete(w) ==
    /\ At(w, "delete")
    /\ tx' = [tx EXCEPT ![w].pc = "deleting",
                        ![w].victims = {i \in RowIds : table[i] \in tx[w].missing}]
    /\ UNCHANGED <<Shared, writes>>

\* Variant: a row that was waited for is not looked at again.
DeleteRowBlindly(w) ==
    /\ At(w, "deleting")
    /\ \E i \in tx[w].victims :
        /\ Free(w, i)
        /\ Write(w, i, Gone)
        /\ tx' = [tx EXCEPT ![w].victims = @ \ {i}, ![w].hit = TRUE]
    /\ UNCHANGED Shared

\* ... and visits them in any order.  A row another transaction has changed in the
\* meantime is deleted only if its text still matches.
DeleteRow(w) ==
    /\ At(w, "deleting")
    /\ \E i \in tx[w].victims :
        /\ Free(w, i)
        /\ LET matches == table[i] \in tx[w].missing IN
           /\ IF matches THEN Write(w, i, Gone) ELSE UNCHANGED writes
           /\ tx' = [tx EXCEPT ![w].victims = @ \ {i}, ![w].hit = @ \/ matches]
    /\ UNCHANGED Shared

\* rowcount = 0 is a NotFoundError, raised after the trigger has run.
Deleted(w) ==
    /\ At(w, "deleting")
    /\ tx[w].victims = {}
    /\ tx' = [tx EXCEPT ![w].pc = "snapshot",
                        ![w].next = IF ~tx[w].hit THEN "not_found"
                                    ELSE IF tx[w].todo # {} THEN "insert"
                                    ELSE "commit"]
    /\ UNCHANGED <<Shared, writes>>

NotFound(w) == At(w, "not_found") /\ RollBack(w, "not_found")

-----------------------------------------------------------------------------
(* INSERT, the trigger, the end of a transaction                           *)

\* Variant: INSERT has no trigger.
InsertUntriggered(w) ==
    /\ At(w, "insert")
    /\ tx[w].todo # {}
    /\ LET k    == First(tx[w].todo)
           i    == RowId(tx[w], k)
           rest == tx[w].todo \ {k}
       IN  /\ Free(w, i)
           /\ \/ /\ Visible(w)[i] = Gone
                 /\ Write(w, i, TextAt(tx[w], k))
                 /\ tx' = [tx EXCEPT ![w].todo = rest,
                                     ![w].pc = IF rest = {} THEN "commit" ELSE "insert"]
                 /\ UNCHANGED Shared
              \/ Visible(w)[i] # Gone /\ RollBack(w, "conflict")

\* One row of INSERT ... VALUES: it waits for whoever has written its key and is an
\* IntegrityError, that is a ConflictError, if the key is there then.
Insert(w) ==
    /\ At(w, "insert")
    /\ tx[w].todo # {}
    /\ LET k    == First(tx[w].todo)
           i    == RowId(tx[w], k)
           rest == tx[w].todo \ {k}
       IN  /\ Free(w, i)
           /\ \/ /\ Visible(w)[i] = Gone
                 /\ Write(w, i, TextAt(tx[w], k))
                 /\ tx' = [tx EXCEPT ![w].todo = rest, ![w].next = "commit",
                                     ![w].pc = IF rest = {} THEN "snapshot" ELSE "insert"]
                 /\ UNCHANGED Shared
              \/ Visible(w)[i] # Gone /\ RollBack(w, "conflict")

\* Every element that was not updated at first has its id among the updated ones:
\* an id came twice and its row appeared between the two UPDATEs.  INSERT without
\* a row is DEFAULT VALUES, which violates the primary key's NOT NULL.
InsertNothing(w) ==
    /\ At(w, "insert")
    /\ tx[w].todo = {}
    /\ RollBack(w, "conflict")

\* refresh_glossary_view(): REFRESH takes its snapshot ...
Snapshot(w) ==
    /\ At(w, "snapshot")
    /\ tx' = [tx EXCEPT ![w].pc = "fill", ![w].snap = Visible(w)]
    /\ UNCHANGED <<Shared, writes>>

\* ... and only then waits for the view, and for those who read it.
Fill(w) ==
    /\ At(w, "fill")
    /\ viewLock \in {None, w}
    /\ \A r \in Readers : search[r] # "reading"
    /\ viewLock' = w
    /\ tx' = [tx EXCEPT ![w].pc = tx[w].next]
    /\ UNCHANGED <<table, view, writes, jobs, reply, search>>

Land(w, answer) ==
    /\ At(w, "commit")
    /\ table' = Visible(w)
    /\ view' = IF viewLock = w THEN tx[w].snap ELSE view
    /\ EndTx(w, answer, {i \in RowIds : writes[w][i] # Untouched})

\* self.uow.commit()
Commit(w) == Land(w, "modified")

\* Whom w is waiting for, or may be.
WaitsFor(w, v) ==
    \/ /\ At(w, "update") /\ tx[w].todo # {}
       /\ LET i == RowId(tx[w], First(tx[w].todo)) IN
          Visible(w)[i] # Gone /\ v \in Owners(w, i)
    \/ At(w, "insert") /\ tx[w].todo # {} /\ v \in Owners(w, RowId(tx[w], First(tx[w].todo)))
    \/ At(w, "deleting") /\ \E i \in tx[w].victims : v \in Owners(w, i)
    \/ At(w, "fill") /\ v = viewLock /\ v # w

Blockers(w) == {v \in Writers : WaitsFor(w, v)}

\* w waits for itself, over any number of others.
InDeadlock(w) ==
    \A S \in SUBSET Writers :
        Blockers(w) \subseteq S /\ (\A v \in S : Blockers(v) \subseteq S) => w \in S

\* PostgreSQL cancels a statement that closes a circle of waits; it is not an
\* IntegrityError and goes through to the caller.
Deadlock(w) == InDeadlock(w) /\ RollBack(w, "deadlock")

\* The connection breaks, or the call is cancelled: __aexit__ or the server rolls
\* back, unless COMMIT was on its way.
Fail(w) ==
    /\ CanFail
    /\ ~At(w, "idle")
    /\ RollBack(w, "failed") \/ Land(w, "failed")

-----------------------------------------------------------------------------
(* get_glossary_elements_by_text: readers of the view                      *)

SearchGoes(r, from, to) ==
    /\ search[r] = from
    /\ search' = [search EXCEPT ![r] = to]
    /\ UNCHANGED <<table, view, viewLock, writes, tx, jobs, reply>>

Search(r) == SearchGoes(r, "idle", "waiting")

\* The SELECT gets the view when nobody has it locked or queues for its lock.
ReadView(r) ==
    /\ viewLock = None
    /\ \A w \in Writers : ~At(w, "fill")
    /\ SearchGoes(r, "waiting", "reading")

\* The answer is built and the session closed.
EndSearch(r) == SearchGoes(r, "reading", "idle")

-----------------------------------------------------------------------------

Step(w) ==
    \/ Check(w) \/ Update(w) \/ Updated(w)
    \/ Select(w) \/ Delete(w) \/ DeleteRow(w) \/ Deleted(w) \/ NotFound(w)
    \/ Insert(w) \/ InsertNothing(w) \/ Snapshot(w) \/ Fill(w)
    \/ Commit(w) \/ Deadlock(w)

Next ==
    \/ \E w \in Writers : Begin(w) \/ Step(w) \/ Fail(w)
    \/ \E r \in Readers : Search(r) \/ ReadView(r) \/ EndSearch(r)

Spec == Init /\ [][Next]_vars

\* Statements that can run do run, and the deadlock detector does its work.
FairSpec ==
    /\ Spec
    /\ \A w \in Writers : WF_vars(Step(w))
    /\ \A r \in Readers : WF_vars(ReadView(r)) /\ WF_vars(EndSearch(r))

-----------------------------------------------------------------------------
(* Properties                                                              *)

Sessions ==
    [pc      : {"idle", "check", "update", "select", "delete", "deleting", "not_found",
                "insert", "snapshot", "fill", "commit"},
     job     : Jobs \cup {NoJob},
     number  : 0..MaxJobs,
     alone   : BOOLEAN,
     base    : Rows,
     since   : SUBSET RowIds,
     todo    : SUBSET (1..MaxItems),
     updated : SUBSET (1..MaxItems),
     missing : SUBSET Texts,
     victims : SUBSET RowIds,
     hit     : BOOLEAN,
     snap    : Rows,
     next    : {"idle", "update", "insert", "commit", "not_found"}]

TypeOK ==
    /\ table \in Rows /\ view \in Rows
    /\ viewLock \in Writers \cup {None}
    /\ writes \in [Writers -> [RowIds -> Texts \cup {Gone, Untouched}]]
    /\ jobs \in 0..MaxJobs
    /\ reply \in [Writers -> {"none", "exists", "modified", "not_found", "conflict",
                              "deadlock", "failed"}]
    /\ search \in [Readers -> {"idle", "waiting", "reading"}]
    /\ tx \in [Writers -> Sessions]
    /\ \A w \in Writers, k \in 1..MaxItems : k \in tx[w].todo => RowId(tx[w], k) \in RowIds

\* Writer w's transaction takes effect in this step, acknowledged or not.
Lands(w) == tx[w].pc = "commit" /\ tx'[w].pc = "idle" /\ writes[w] # Clean

\* What has been committed for a writer is what its answer says: a transaction lands
\* as a whole with its answer, "modified" means that every element of a bulk request
\* is stored and no other row touched, or that the refresh took only what the sheet
\* lacks and added only what it has, even if others wrote the rows it waited for, and
\* a refused request has left no trace (glossary.py:60-121, 155-185).
Promise == INSTANCE GlossaryContract WITH
    Clients <- Writers,
    request <- [w \in Writers |-> tx[w].job],
    landed  <- [w \in Writers |-> FALSE],
    loose   <- {}
KeepsThePromise == Promise!Spec

\* After a refresh, an element that is not in the sheet stands in a row that another
\* writer committed after the refresh had read the table (glossary.py:157, 165).
RefreshRemovesTheRest ==
    [][\A w \in Writers : At(w, "commit") /\ tx'[w].pc = "idle" /\ reply'[w] = "modified"
          /\ tx[w].job.kind = "sync" =>
        \A i \in RowIds :
            table'[i] \notin {Gone} \cup {tx[w].job.sheet[k] : k \in DOMAIN tx[w].job.sheet}
                => i \in tx[w].since]_vars

\* A transaction makes a copy of another element only if that element appeared after
\* its own SELECT: the check of bulk and the merge of the refresh are right about
\* what they have seen (glossary.py:65-81, 304).
CopiesAreConcurrent ==
    [][\A w \in Writers : Lands(w) =>
        \A i, j \in RowIds :
            (/\ writes[w][i] \in Texts /\ writes[w][j] = Untouched
             /\ table[j] = writes[w][i]) => tx[w].base[j] # table[j]]_vars

\* Between requests the search view shows the table.
ViewIsCurrent == (\A w \in Writers : At(w, "idle")) => view = table

\* Whoever writes while no other transaction is open is served well, even after others
\* have left a stale view or copies behind: a refresh succeeds, a bulk request fails
\* only for a text that is there or an id that it gives twice, and after a statement
\* the view shows the table again (glossary.py:85-113, migration 87-91).
LoneWriterIsRight ==
    [][\A w \in Writers : tx[w].alone /\ tx'[w].pc = "idle" =>
        LET es == tx[w].job.elements IN
        /\ \/ reply'[w] \in {"modified", "failed"}
           \/ tx[w].job.kind = "bulk" /\ reply'[w] = "exists"
           \/ /\ tx[w].job.kind = "bulk" /\ reply'[w] = "conflict"
              /\ \E m, n \in DOMAIN es : m # n /\ es[m].id = es[n].id
        /\ Lands(w) /\ (reply'[w] = "modified" \/ table' # table) => view' = table']_vars

\* Every request is answered: writers that wait for each other's rows and for the
\* view are told apart by the deadlock detector, searches get the view when the
\* writers that hold it or queue for it are done, and nothing else blocks.
EveryRequestEnds ==
    /\ \A w \in Writers : ~At(w, "idle") ~> At(w, "idle")
    /\ \A r \in Readers : search[r] # "idle" ~> search[r] = "idle"
=============================================================================
