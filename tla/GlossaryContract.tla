--------------------------- MODULE GlossaryContract ---------------------------
(***************************************************************************)
(* What the service promises those who change the glossary, whatever the   *)
(* database, the portal and other callers do meanwhile.                    *)
(*                                                                         *)
(* A request takes effect all at once, and a bulk request at most once; a *)
(* refresh may be run again before it is answered or after its client was  *)
(* told not to wait.  "modified" says that a request has taken effect, a   *)
(* refusal that it has not and never will; "failed" leaves it open.  The   *)
(* effect is no more than was asked for: a bulk request touches the rows   *)
(* of its own elements, a refresh removes elements that are not in the     *)
(* sheet and adds elements that are.                                       *)
(*                                                                         *)
(* The promise has no order in it: requests do not see each other's        *)
(* effects for certain, so it is weaker than serialisability.              *)
(***************************************************************************)
EXTENDS Integers, Sequences

CONSTANTS
    Clients,  \* those who may have a request open
    RowIds,   \* ids an element may have
    NewIds,   \* ids that the service makes up
    NoId,     \* `id` of an element that leaves it out
    Gone,     \* no element under this id
    Texts,    \* contents of an element
    Jobs,     \* [kind |-> "bulk", elements] or [kind |-> "sync", sheet]
    NoJob

VARIABLES
    table,    \* the glossary: id -> text or Gone
    request,  \* the job of each client
    landed,   \* whether it has taken effect
    loose,    \* jobs whose clients were told not to wait any longer
    reply     \* the last answer of each client

vars == <<table, request, landed, loose, reply>>

Refusals == {"exists", "conflict", "not_found", "deadlock", "refused"}
Open(c)  == request[c] # NoJob

\* A refresh that is run again starts from the table it finds then.
Repeats(job) == job.kind = "sync"

InSheet(job, text) == \E k \in DOMAIN job.sheet : job.sheet[k] = text

-----------------------------------------------------------------------------

\* Every element is stored: under its id, unless a later one has the same id, or
\* in a row of its own.
Stored(es, new) ==
    \A k \in DOMAIN es :
        IF es[k].id = NoId
        THEN \E i \in NewIds : table[i] = Gone /\ new[i] = es[k].text
        ELSE \E n \in DOMAIN es : n >= k /\ es[n].id = es[k].id /\ new[es[k].id] = es[n].text

\* Nothing else is touched.
OnlyTheirRows(es, new) ==
    \A i \in RowIds : new[i] # table[i] =>
        \E k \in DOMAIN es : /\ new[i] = es[k].text
                             /\ \/ i = es[k].id
                                \/ es[k].id = NoId /\ i \in NewIds /\ table[i] = Gone

\* Rows go only if the sheet lacks them, and come only from the sheet, each once.
Merges(job, new) ==
    LET Added == {i \in RowIds : table[i] = Gone /\ new[i] # Gone} IN
    /\ \A i \in RowIds : new[i] # table[i] /\ table[i] # Gone =>
           new[i] = Gone /\ ~InSheet(job, table[i])
    /\ \A i \in Added : i \in NewIds /\ InSheet(job, new[i])
    /\ \A i, j \in Added : new[i] = new[j] => i = j

Effect(job, new) ==
    IF job.kind = "bulk" THEN Stored(job.elements, new) /\ OnlyTheirRows(job.elements, new)
    ELSE Merges(job, new)

-----------------------------------------------------------------------------

Init ==
    /\ table \in [RowIds -> Texts \cup {Gone}]
    /\ request = [c \in Clients |-> NoJob]
    /\ landed = [c \in Clients |-> FALSE]
    /\ loose = {}
    /\ reply = [c \in Clients |-> "none"]

Ask(c) ==
    /\ ~Open(c)
    /\ \E j \in Jobs : request' = [request EXCEPT ![c] = j]
    /\ UNCHANGED <<table, landed, loose, reply>>

\* The request takes effect, and its answer is still to come.
Land(c) ==
    /\ Open(c) /\ (landed[c] => Repeats(request[c]))
    /\ Effect(request[c], table')
    /\ landed' = [landed EXCEPT ![c] = TRUE]
    /\ UNCHANGED <<request, loose, reply>>

Answer(c, what) ==
    /\ Open(c)
    /\ request' = [request EXCEPT ![c] = NoJob]
    /\ landed' = [landed EXCEPT ![c] = FALSE]
    /\ reply' = [reply EXCEPT ![c] = what]

\* It takes effect now or has done so before.
Acknowledge(c) ==
    /\ Answer(c, "modified")
    /\ IF landed[c] THEN UNCHANGED table ELSE Effect(request[c], table')
    /\ UNCHANGED loose

Refuse(c) ==
    /\ \E what \in Refusals : Answer(c, what)
    /\ ~landed[c]
    /\ UNCHANGED <<table, loose>>

Fail(c) ==
    /\ Answer(c, "failed")
    /\ UNCHANGED table \/ (~landed[c] /\ Effect(request[c], table'))
    /\ UNCHANGED loose

\* The client is told of a failure while the request goes on ...
GiveUp(c) ==
    /\ Answer(c, "failed")
    /\ landed[c] => Repeats(request[c])
    /\ loose' = loose \cup {request[c]}
    /\ UNCHANGED table

\* ... and takes effect later, or never.
LandLate ==
    /\ \E job \in loose :
        /\ loose' = loose \ {job} \/ (Repeats(job) /\ UNCHANGED loose)
        /\ UNCHANGED table \/ Effect(job, table')
    /\ UNCHANGED <<request, landed, reply>>

Next ==
    \/ \E c \in Clients :
        Ask(c) \/ Land(c) \/ Acknowledge(c) \/ Refuse(c) \/ Fail(c) \/ GiveUp(c)
    \/ LandLate

Spec == Init /\ [][Next]_vars
=============================================================================
