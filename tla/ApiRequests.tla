----------------------------- MODULE ApiRequests -----------------------------
(***************************************************************************)
(* The two routes that change the glossary, from the HTTP request to the   *)
(* status: POST of a list of elements (validation, the check through the   *)
(* filter builder, update and insert) and GET /excel (the job of the arq   *)
(* worker with its answers from the portal EDU).                           *)
(*                                                                         *)
(* One client asks at a time, but a job it no longer waits for goes on     *)
(* while it asks again, and a job that is cut off is run again.  The       *)
(* transactions are atomic here: GlossaryDB opens them up and lets other   *)
(* writers in, of which only the one exception is left that they add.  The *)
(* queue and the races for the key are in DetachedUpdate and UpdateLock,   *)
(* the comparison of sheet and table is in ExcelSync.                      *)
(***************************************************************************)
EXTENDS HttpErrors, Filters, Sequences, FiniteSetsExt

CONSTANTS
    Raw,          \* what a client may send for a text, or Null
    Null,
    Blank,        \* the empty text
    Strip,        \* Raw \ {Null} -> Texts
    Long,         \* texts too long for an abbreviation
    Ids, NoId, Gone, NoJob,
    Requests,     \* bodies of POST: sequences of elements
    Sheets,       \* what GLOSS.xlsx may hold once it is cleaned
    Tables,       \* contents the table may start with
    MaxTries,     \* max_tries of the arq worker
    MaxRequests,  \* bound: requests in one behaviour
    MaxItems      \* bound: elements of a body, rows of a sheet

ASSUME TextsAssumption ==
    /\ Fields = {"abbreviation", "term", "definition"}
    /\ Null \in Raw /\ Null \notin Texts /\ Blank \in Texts /\ Long \subseteq Texts
    /\ Strip \in [Raw \ {Null} -> Texts]

NewIds == (1..MaxRequests) \X (1..MaxItems)
RowIds == Ids \cup NewIds

ASSUME IdsAssumption ==
    /\ Ids \cap NewIds = {} /\ NoId \notin RowIds   \* uuid4 makes no id a client has
    /\ Gone \notin Rows
ASSUME ItemsAssumption == MaxItems \in Nat
ASSUME RequestsAssumption ==
    /\ \A es \in Requests : Len(es) \in 0..MaxItems /\ DOMAIN es = 1..Len(es) /\ \A k \in DOMAIN es :
           es[k].id \in Ids \cup {NoId} /\ es[k].text \in [Fields -> Raw]
    /\ \A s \in Sheets : /\ Len(s.rows) \in 0..MaxItems /\ DOMAIN s.rows = 1..Len(s.rows)
                         /\ s.errors \in BOOLEAN
                         /\ \A k \in DOMAIN s.rows : s.rows[k] \in Rows
                         /\ \A k, n \in DOMAIN s.rows : s.rows[k] = s.rows[n] => k = n
    /\ Tables \subseteq [RowIds -> Rows \cup {Gone}] /\ \A t \in Tables, i \in NewIds : t[i] = Gone
    /\ MaxRequests \in Nat /\ MaxTries \in Nat

VARIABLES
    table,    \* glossary_element
    key,      \* the Redis key `glossary`
    report,   \* the request ERRORS.xlsx on EDU is about, 0: no such file
    crowded,  \* whether ERRORS.xlsx is beyond the attachments EDU lists at once
    client,   \* what the client waits for
    job,      \* the job of the arq worker
    asked,    \* requests so far
    answer    \* the last response

vars == <<table, key, report, crowded, client, job, asked, answer>>

OldReport == MaxRequests + 1
Idle == [pc |-> "idle", request |-> NoJob]
NoRun == [pc |-> "none", sheet |-> [rows |-> << >>, errors |-> FALSE], number |-> 0,
          tries |-> 0, file |-> "create", raised |-> "none", landed |-> FALSE]

Init ==
    /\ table \in Tables
    /\ key \in {"free", "updating"}   \* of a refresh by somebody else
    /\ report \in {0, OldReport}
    /\ crowded \in BOOLEAN
    /\ client = Idle
    /\ job = NoRun
    /\ asked = 0
    /\ answer = [status |-> 0, errors |-> FALSE, again |-> FALSE]

\* History: `again` says that the answer is that of a job which was run again.
Respond(status, errors, again) ==
    /\ client' = Idle
    /\ answer' = [status |-> status, errors |-> errors, again |-> again]

Fail(exception) == Respond(Status(exception), FALSE, FALSE)

-----------------------------------------------------------------------------
(* POST: the body                                                          *)

Cell(raw) == IF raw = Null THEN Null ELSE Strip[raw]

Parsed(es) == [k \in DOMAIN es |-> [id   |-> es[k].id,
                                    text |-> [f \in Fields |-> Cell(es[k].text[f])]]]

TooLong(e) == e.text["abbreviation"] \in Long

\* minimum_two
TooFew(e) == Cardinality({f \in Fields : e.text[f] \notin {Null, Blank}}) < 2

\* check_duplicates
Copies(es) == \E i, j \in DOMAIN es : i # j /\ es[i].text = es[j].text

Rejected(es) == Copies(es) \/ \E k \in DOMAIN es : TooLong(es[k]) \/ TooFew(es[k])

-----------------------------------------------------------------------------
(* POST: the transaction                                                   *)

\* GlossaryElementFilter: a field that is null has no operator and so no test.
ElementFilter(e) ==
    [condition |-> "and", inner |-> {},
     own |-> {[field |-> f, op |-> "eq", values |-> {e.text[f]}]
                 : f \in {g \in Fields : e.text[g] # Null}}]

BulkFilter(es) == [condition |-> "or", own |-> {},
                   inner |-> {ElementFilter(es[k]) : k \in DOMAIN es}]

ASSUME BulkAssumption == \A es \in Requests : BulkFilter(Parsed(es)) \in Trees

Exists(es, t) == Selection(BulkFilter(es)) \cap {t[i] : i \in RowIds} # {}

\* Variant: the DTO takes null.
IncompleteNever(es) == FALSE

\* Its GlossaryElementCreateUpdateDTO lacks a field.
Incomplete(es) == \E k \in DOMAIN es : \E f \in Fields : es[k].text[f] = Null

\* UPDATE of each element whose id is there; a later one overwrites an earlier one.
AfterUpdate(es, t) ==
    [i \in RowIds |->
        LET given == {k \in DOMAIN es : es[k].id = i}
        IN  IF t[i] # Gone /\ given # {} THEN es[Max(given)].text ELSE t[i]]

\* The elements to insert, and the ids they get.
ToInsert(es, t) == {k \in DOMAIN es : es[k].id = NoId \/ t[es[k].id] = Gone}
InsertId(es, k, number) == IF es[k].id = NoId THEN <<number, k>> ELSE es[k].id

\* INSERT of two rows with one id.
Conflict(es, t, number) ==
    \E j, k \in ToInsert(es, t) : j # k /\ InsertId(es, j, number) = InsertId(es, k, number)

AfterInsert(es, t, number) ==
    [i \in RowIds |->
        LET given == {k \in ToInsert(es, t) : InsertId(es, k, number) = i}
        IN  IF given # {} THEN es[CHOOSE k \in given : TRUE].text ELSE AfterUpdate(es, t)[i]]

\* Variant: every statement commits.
OutcomeByStatement(es, t, number) ==
    LET Raises(e) == [exception |-> e, table |-> t]
    IN  IF Rejected(es) THEN Raises("GlossaryCreateError")
        ELSE IF Exists(es, t) THEN Raises("AlreadyExistsError")
        ELSE IF Incomplete(es) THEN Raises("ValidationError")
        ELSE IF Conflict(es, t, number)
        THEN [exception |-> "ConflictError", table |-> AfterUpdate(es, t)]
        ELSE [exception |-> "none", table |-> AfterInsert(es, t, number)]

\* What the service raises, and the table it leaves.
Outcome(es, t, number) ==
    LET Raises(e) == [exception |-> e, table |-> t]
    IN  IF Rejected(es) THEN Raises("GlossaryCreateError")
        ELSE IF Exists(es, t) THEN Raises("AlreadyExistsError")
        ELSE IF Incomplete(es) THEN Raises("ValidationError")
        ELSE IF Conflict(es, t, number) THEN Raises("ConflictError")
        ELSE [exception |-> "none", table |-> AfterInsert(es, t, number)]

Post ==
    /\ client.pc = "idle" /\ asked < MaxRequests
    /\ asked' = asked + 1
    /\ \E es \in Requests :
        client' = [pc |-> "bulk", request |-> [kind |-> "bulk", elements |-> Parsed(es)]]
    /\ UNCHANGED <<table, key, report, crowded, job, answer>>

AnswerPost ==
    /\ client.pc = "bulk"
    /\ LET out == Outcome(client.request.elements, table, asked) IN
       /\ table' = out.table
       /\ IF out.exception = "none" THEN Respond(200, FALSE, FALSE) ELSE Fail(out.exception)
    /\ UNCHANGED <<key, report, crowded, job, asked>>

\* PostgreSQL fails under the transaction, or in the COMMIT of one that would do.
PostFails ==
    /\ client.pc = "bulk"
    /\ ~Rejected(client.request.elements)
    /\ table' \in {table, Outcome(client.request.elements, table, asked).table}
    /\ Fail("DBAPIError")
    /\ UNCHANGED <<key, report, crowded, job, asked>>

-----------------------------------------------------------------------------
(* GET /excel: the client                                                  *)

\* Bound: the last job is over before the next is enqueued.
Get ==
    /\ client.pc = "idle" /\ asked < MaxRequests
    /\ job.pc \in {"none", "done"}
    /\ asked' = asked + 1
    /\ \E s \in Sheets :
        /\ client' = [pc |-> "excel", request |-> [kind |-> "sync", sheet |-> s.rows]]
        /\ job' = [NoRun EXCEPT !.pc = "queued", !.sheet = s, !.number = asked + 1]
    /\ UNCHANGED <<table, key, report, crowded, answer>>

\* job.result raises what the job has raised; TimeoutError becomes RequestTimeoutError.
JobStatus(raised) ==
    IF raised = "none" THEN 200
    ELSE IF raised = "TimeoutError" THEN Status("RequestTimeoutError")
    ELSE Status(raised)

AnswerGet ==
    /\ client.pc = "excel" /\ job.pc = "done"
    /\ Respond(JobStatus(job.raised), job.raised = "none" /\ job.sheet.errors, job.tries > 1)
    /\ UNCHANGED <<table, key, report, crowded, job, asked>>

\* The client is not to wait any longer, or Redis fails under the wait.
GiveUp ==
    /\ client.pc = "excel"
    /\ Fail("RequestTimeoutError") \/ Fail("ConnectionError")
    /\ UNCHANGED <<table, key, report, crowded, job, asked>>

\* create_pool or enqueue_job fails, and the job is not enqueued.
EnqueueFails ==
    /\ client.pc = "excel" /\ job.pc = "queued" /\ job.tries = 0
    /\ job' = NoRun
    /\ Fail("ConnectionError")
    /\ UNCHANGED <<table, key, report, crowded, asked>>

-----------------------------------------------------------------------------
(* GET /excel: the job                                                     *)

JobAt(label) == job.pc = label

Goto(label) == job' = [job EXCEPT !.pc = label]

Over(run, exception) == [run EXCEPT !.pc = "over", !.raised = exception]
EndJob(exception) == job' = Over(job, exception)

\* except: the key is deleted.  If Redis fails there, its error takes the place of the
\* exception.
Raise(run, exception) ==
    \/ job' = Over(run, exception) /\ key' = "free"
    \/ job' = Over(run, "ConnectionError") /\ key' \in {"free", key}

\* arq counts the tries.  A key of another refresh, a cool-down and what an earlier try
\* of this job has left are all the same to the test.
Take ==
    /\ JobAt("queued") /\ job.tries < MaxTries
    /\ LET run == [job EXCEPT !.tries = @ + 1] IN
       \/ key = "free" /\ key' = "updating" /\ job' = [run EXCEPT !.pc = "fetch"]
       \/ key # "free" /\ job' = Over(run, "GlossaryUpdateFromXlsxError") /\ UNCHANGED key
       \/ job' = Over(run, "UnboundLocalError") /\ UNCHANGED key   \* PING fails
       \/ Raise(run, "ConnectionError")                            \* GET or SET fails
       \/ \* SET arrives, its answer and the DEL do not
          key = "free" /\ key' = "updating" /\ job' = Over(run, "ConnectionError")
    /\ UNCHANGED <<table, report, crowded, client, asked, answer>>

Exhaust ==
    /\ JobAt("queued") /\ job.tries = MaxTries
    /\ EndJob("JobExecutionFailed")
    /\ UNCHANGED <<table, key, report, crowded, client, asked, answer>>

\* What the answers of EDU become, to a download and to the two requests of an upload.
EduError == [status |-> "RequestError", type |-> "RequestError", zip |-> "RequestError",
             connect |-> "RequestError", timeout |-> "RequestTimeoutError",
             broken |-> "ClientError", columns |-> "KeyError"]

Fetch ==
    /\ JobAt("fetch")
    /\ \/ Goto("sync") /\ UNCHANGED key
       \/ \E response \in DOMAIN EduError : Raise(job, EduError[response])
    /\ UNCHANGED <<table, report, crowded, client, asked, answer>>

\* Rows that the sheet lacks go, rows that the table lacks come.
Merged(rows, t, number) ==
    [i \in RowIds |->
        IF t[i] # Gone
        THEN IF \E k \in DOMAIN rows : rows[k] = t[i] THEN t[i] ELSE Gone
        ELSE IF \E k \in DOMAIN rows : i = <<number, k>> /\ \A j \in RowIds : t[j] # rows[k]
        THEN rows[i[2]] ELSE Gone]

Sync ==
    /\ JobAt("sync")
    /\ \/ /\ table' = Merged(job.sheet.rows, table, job.number)
          /\ job' = [job EXCEPT !.pc = IF job.sheet.errors THEN "lookup" ELSE "finish",
                                !.landed = TRUE]
          /\ UNCHANGED key
       \/ Raise(job, "DBAPIError") /\ UNCHANGED table
       \/ \* only the answer to COMMIT is lost
          /\ table' = Merged(job.sheet.rows, table, job.number)
          /\ Raise([job EXCEPT !.landed = TRUE], "DBAPIError")
       \/ \* other writers have been faster with all that the DELETE was to remove
          /\ \E i \in RowIds : /\ table[i] # Gone
                              /\ \A k \in DOMAIN job.sheet.rows : job.sheet.rows[k] # table[i]
          /\ Raise(job, "NotFoundError") /\ UNCHANGED table
    /\ UNCHANGED <<report, crowded, client, asked, answer>>

\* get_attachment_id_from_edu: only what EDU lists at once is looked at.
Lookup ==
    /\ JobAt("lookup")
    /\ \/ /\ job' = [job EXCEPT !.pc = "upload",
                                !.file = IF report # 0 /\ ~crowded THEN "update" ELSE "create"]
          /\ UNCHANGED key
       \/ \E response \in {"status", "connect", "timeout", "broken"} : Raise(job, EduError[response])
    /\ UNCHANGED <<table, report, crowded, client, asked, answer>>

\* Variant: the status of the upload is not looked at.
UploadUnchecked ==
    /\ JobAt("upload")
    /\ report' = IF job.file = "create" /\ report # 0 THEN report ELSE job.number
    /\ Goto("finish") /\ UNCHANGED key
    /\ UNCHANGED <<table, crowded, client, asked, answer>>

\* EDU refuses to create what exists.  If the answer is late or broken, the file may
\* or may not have arrived.
Upload ==
    /\ JobAt("upload")
    /\ LET refused == job.file = "create" /\ report # 0
           stored  == IF refused THEN report ELSE job.number
       IN
        \/ ~refused /\ report' = stored /\ Goto("finish") /\ UNCHANGED key
        \/ Raise(job, EduError["status"]) /\ UNCHANGED report
        \/ Raise(job, EduError["connect"]) /\ UNCHANGED report
        \/ /\ \E response \in {"timeout", "broken"} : Raise(job, EduError[response])
           /\ report' \in {report, stored}
    /\ UNCHANGED <<table, crowded, client, asked, answer>>

\* else: the cool-down.  If Redis fails there, the job fails; the command may arrive.
Finish ==
    /\ JobAt("finish")
    /\ \/ key' \in {"free", "blocked"} /\ EndJob("none")
       \/ key' \in {"free", "blocked", key} /\ EndJob("ConnectionError")
    /\ UNCHANGED <<table, report, crowded, client, asked, answer>>

\* job_timeout of arq.
JobTimeout ==
    /\ job.pc \in {"fetch", "sync", "lookup", "upload", "finish"}
    /\ EndJob("TimeoutError")
    /\ UNCHANGED <<table, key, report, crowded, client, asked, answer>>

Store ==
    /\ JobAt("over")
    /\ Goto("done")
    /\ UNCHANGED <<table, key, report, crowded, client, asked, answer>>

\* The arq worker is shut down or dies, or the result cannot be stored: the key stays
\* as it is and the job in the queue.  Bound: the sheet on EDU stays the same, too.
Interrupt ==
    /\ job.pc \in {"fetch", "sync", "lookup", "upload", "finish", "over"}
    /\ job' = [job EXCEPT !.pc = "queued", !.file = "create", !.raised = "none"]
    /\ UNCHANGED <<table, key, report, crowded, client, asked, answer>>

\* Cool-downs end, other refreshes end, and gunicorn workers start.
KeyFree ==
    /\ key # "free"
    /\ key' = "free"
    /\ UNCHANGED <<table, report, crowded, client, job, asked, answer>>

-----------------------------------------------------------------------------

Next ==
    \/ Post \/ AnswerPost \/ PostFails
    \/ Get \/ AnswerGet \/ GiveUp \/ EnqueueFails
    \/ Take \/ Exhaust \/ Fetch \/ Sync \/ Lookup \/ Upload \/ Finish
    \/ JobTimeout \/ Store \/ Interrupt
    \/ KeyFree

Spec == Init /\ [][Next]_vars

-----------------------------------------------------------------------------
(* Properties                                                              *)

TypeOK ==
    /\ table \in [RowIds -> Rows \cup {Gone}]
    /\ key \in {"free", "blocked", "updating"}
    /\ report \in 0..OldReport /\ crowded \in BOOLEAN
    /\ client.pc \in {"idle", "bulk", "excel"}
    /\ job.pc \in {"none", "queued", "fetch", "sync", "lookup", "upload", "finish", "over", "done"}
    /\ job.tries \in 0..MaxTries
    /\ job.number \in 0..MaxRequests /\ job.file \in {"create", "update"}
    /\ job.landed \in BOOLEAN
    /\ asked \in 0..MaxRequests
    /\ answer.status \in {0, 200, 404, 408, 409, 422, 423, 500, 503}
    /\ answer.errors \in BOOLEAN /\ answer.again \in BOOLEAN

\* What a client may ask for.
Jobs == {[kind |-> "bulk", elements |-> Parsed(es)] : es \in Requests}
        \cup {[kind |-> "sync", sheet |-> s.rows] : s \in Sheets}

ASSUME NoJobAssumption == NoJob \notin Jobs

\* What a client may conclude from its answer.  No refusal is final of a job that was
\* run again: an earlier try may have committed, and the later one met its key.
Told == IF answer.status = 0 THEN "none"
        ELSE IF answer.again /\ Meaning(answer.status) = "refused" THEN "failed"
        ELSE Meaning(answer.status)

\* The contract with statuses for answers: 200 says that the request has taken effect,
\* and a 4xx other than 408 that it has not and will not, unless arq has run the job
\* again: then it may have, as after 408, 500 and 503, or may still do so while the client
\* asks again (exception_handler.py:134-146, glossary.py:131, 197, 235-240).
Promise == INSTANCE GlossaryContract WITH
    Clients <- {"client"},
    Texts   <- [Fields -> Texts \cup {Null}],
    request <- [c \in {"client"} |-> client.request],
    landed  <- [c \in {"client"} |-> client.pc = "excel" /\ job.landed],
    loose   <- IF client.pc = "excel" \/ job.pc \in {"none", "done"} THEN {}
               ELSE {[kind |-> "sync", sheet |-> job.sheet.rows]},
    reply   <- [c \in {"client"} |-> Told]
StatusContract == Promise!Spec

\* What makes a body acceptable: two fields that are more than white space in each
\* element, no field null, an abbreviation that fits, elements that differ in more than
\* white space, from each other and from the table, and ids that are new once at most.
Acceptable(es, t) ==
    /\ \A k \in DOMAIN es :
        /\ \E f, g \in Fields : f # g /\ Blank \notin {es[k].text[f], es[k].text[g]}
        /\ \A f \in Fields : es[k].text[f] # Null
        /\ es[k].text["abbreviation"] \notin Long
        /\ \A n \in DOMAIN es : n # k => es[n].text # es[k].text
        /\ \A i \in RowIds : t[i] # es[k].text
        /\ \A n \in DOMAIN es : n # k /\ es[n].id = es[k].id =>
               es[k].id = NoId \/ t[es[k].id] # Gone
    /\ es # << >> \/ \A i \in RowIds : t[i] = Gone

\* 200 is given to acceptable bodies only and to all of them, unless PostgreSQL fails; a
\* refresh that reports errors has put its own, and no older ones, on EDU, and one that
\* reports none had none (requests/glossary.py:12-45, edu.py:55-115, glossary.py:186-216).
AnswersAreTrue ==
    [][LET status == answer'.status IN
       /\ client.pc = "bulk" /\ client'.pc = "idle" =>
            IF Acceptable(client.request.elements, table) THEN status \in {200, 500}
            ELSE status \in {409, 422, 500}
       /\ client.pc = "excel" /\ client'.pc = "idle" /\ status = 200 =>
            /\ answer'.errors = job.sheet.errors
            /\ answer'.errors => report' = job.number]_vars

\* The filter builder on a sample of trees, those of bulk requests among them.
FiltersMean == asked = 0 => BuildsWhatItSays
=============================================================================
