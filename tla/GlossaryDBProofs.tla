-------------------------- MODULE GlossaryDBProofs --------------------------
(* Theorems about the writers of glossary_element, for any tables, requests,  *)
(* writers and readers.                                                       *)
EXTENDS GlossaryDB, WellFoundedInduction, TLAPS

\* Positions in a request are numbers.
USE ItemsAssumption

\* Where a session is, whether or not the trigger is running in between.
Stage(s) == IF s.pc \in {"snapshot", "fill"} THEN s.next ELSE s.pc

IsBulk(s) == s.job.kind = "bulk"

\* The transaction has read the table, which `base` remembers.
HasRead(s) == s.pc \notin {"idle", "check", "select"}

\* A table under the rows that a transaction has written: Visible, on values.
Over(t, wrote) == [i \in RowIds |-> IF wrote[i] = Untouched THEN t[i] ELSE wrote[i]]

-----------------------------------------------------------------------------
(* The inductive invariant                                                  *)

\* What a session holds at its stage, after n requests.
SessionOK(s, n) ==
    /\ s.pc = "idle" => s = Closed
    /\ s.pc \in {"check", "select"} => s.since = {} /\ s.todo = {} /\ s.updated = {}
    /\ s.pc # "idle" =>
        /\ s.job \in Jobs /\ s.number \in 1..n
        /\ s.todo \subseteq Positions(s.job) /\ s.updated \subseteq Positions(s.job)
        /\ Stage(s) \in IF IsBulk(s) THEN {"check", "update", "insert", "commit"}
                         ELSE {"select", "delete", "deleting", "not_found", "insert", "commit"}
        /\ Stage(s) = "commit" => s.todo = {}
SessionInv == \A w \in Writers : SessionOK(tx[w], jobs)

\* A session that has not read the table has written nothing and locked nothing.
FreshInv == \A w \in Writers : ~HasRead(tx[w]) => writes[w] = Clean /\ viewLock # w

\* A row has one writer at a time.
LockInv == \A v, w \in Writers, i \in RowIds :
    v # w => writes[v][i] = Untouched \/ writes[w][i] = Untouched

\* Nobody else has to do with the uuid4s of an open request, and nobody with those
\* of requests to come: not the table, not the writers, not the clients.
NumbersDiffer == \A v, w \in Writers :
    v # w /\ tx[v].pc # "idle" => tx[v].number # tx[w].number
UuidsFree == \A n \in 1..MaxJobs, m \in 1..MaxItems :
    n > jobs \/ (\E w \in Writers : tx[w].number = n) => table[<<n, m>>] = Gone
UuidsUnwritten == \A w \in Writers, n \in 1..MaxJobs, m \in 1..MaxItems :
    writes[w][<<n, m>>] # Untouched => n <= jobs /\ \A u \in Writers \ {w} : tx[u].number # n
UuidsUnknown == \A w \in Writers : IsBulk(tx[w]) =>
    \A k \in DOMAIN tx[w].job.elements, n \in 1..MaxJobs, m \in 1..MaxItems :
        tx[w].job.elements[k].id = <<n, m>> =>
            n < tx[w].number /\ \A u \in Writers : tx[u].number # n
NumberInv == NumbersDiffer /\ UuidsFree /\ UuidsUnwritten /\ UuidsUnknown

\* Positions of a bulk request that the UPDATE loop has passed, and that INSERT has.
Handled(s)  == {k \in Positions(s.job) :
                  HasId(s, k) /\ (Stage(s) = "update" => k \notin s.todo)}
Inserted(s) == {k \in ToInsert(s) : Stage(s) \in {"insert", "commit"} /\ k \notin s.todo}

\* A bulk request has written the elements it has handled, the last of those that
\* have the same id, and nothing else; none of its texts was in the table.
BulkOK(s, wrote) ==
    /\ \A k \in Positions(s.job) : TextAt(s, k) \notin Values(s.base)
    /\ s.updated \subseteq Handled(s)
    /\ Stage(s) = "update" => \A k \in s.todo : HasId(s, k) /\ \A m \in Handled(s) : m < k
    /\ Stage(s) = "insert" =>
        /\ s.todo \subseteq ToInsert(s)
        /\ s.todo = {} => ToInsert(s) = {} /\ s.updated # Positions(s.job)
    /\ \A k \in Handled(s) : RowId(s, k) \in UpdatedIds(s) =>
        \E n \in s.updated : /\ n >= k /\ RowId(s, n) = RowId(s, k)
                             /\ wrote[RowId(s, k)] = TextAt(s, n)
    /\ \A k \in Inserted(s) : wrote[RowId(s, k)] = TextAt(s, k)
    /\ \A i \in RowIds : wrote[i] # Untouched =>
        \E k \in s.updated \cup Inserted(s) : i = RowId(s, k) /\ wrote[i] = TextAt(s, k)
BulkInv == \A w \in Writers : IsBulk(tx[w]) /\ HasRead(tx[w]) => BulkOK(tx[w], writes[w])

\* A refresh deletes only rows with a text that the sheet lacks and inserts only what
\* it did not see; a row to delete that nobody else has written is a victim or deleted.
SyncOK(s, wrote, t) ==
    /\ s.missing = Values(s.base) \ {TextAt(s, k) : k \in Positions(s.job)}
    /\ \A k \in s.todo : TextAt(s, k) \notin Values(s.base)
    /\ Stage(s) = "insert" => s.todo # {}
    /\ Stage(s) \in {"delete", "deleting"} => s.missing # {}
    /\ \A i \in RowIds :
        /\ wrote[i] = Gone => t[i] \in s.missing
        /\ wrote[i] \in Texts =>
            \E k \in Positions(s.job) \ s.todo :
                /\ i = <<s.number, k>>
                /\ wrote[i] = TextAt(s, k) /\ TextAt(s, k) \notin Values(s.base)
        /\ i \notin s.since =>
            /\ t[i] = s.base[i]
            /\ Stage(s) # "delete" /\ t[i] \in s.missing =>
                wrote[i] = Gone \/ (Stage(s) = "deleting" /\ i \in s.victims)
SyncInv == \A w \in Writers :
    ~IsBulk(tx[w]) /\ HasRead(tx[w]) => SyncOK(tx[w], writes[w], table)

\* A lone writer meets nobody: its table stays, its DELETE hits, and its last trigger
\* has shown what it will commit.
AloneOK(s, wrote, t, lock, w) ==
    /\ Stage(s) # "not_found"
    /\ HasRead(s) => t = s.base /\ s.since = {}
    /\ Stage(s) = "deleting" =>
        s.hit \/ \A i \in RowIds : t[i] \in s.missing => i \in s.victims
    /\ IsBulk(s) /\ HasRead(s) =>
        \A k \in Handled(s) : RowId(s, k) \in UpdatedIds(s) \/ t[RowId(s, k)] = Gone
    /\ s.pc = "fill" => s.snap = Over(t, wrote)
    /\ s.pc \in {"update", "commit"} =>
        wrote = Clean \/ (lock = w /\ s.snap = Over(t, wrote))
AloneInv == \A w \in Writers : tx[w].alone =>
    /\ \A u \in Writers \ {w} : At(u, "idle")
    /\ AloneOK(tx[w], writes[w], table, viewLock, w)

IInv == /\ TypeOK /\ SessionInv /\ FreshInv /\ LockInv /\ NumberInv
        /\ BulkInv /\ SyncInv /\ AloneInv
-----------------------------------------------------------------------------
(* What the operators of the model return                                   *)

\* A request has at most MaxItems elements, with different texts (JobsAssumption).
LEMMA JobFacts ==
    ASSUME NEW j \in Jobs
    PROVE  /\ j.kind \in {"bulk", "sync"} /\ j # NoJob
           /\ Positions(j) \subseteq 1..MaxItems
           /\ \A k \in Positions(j) : TextsOf(j)[k] \in Texts
           /\ \A k, m \in Positions(j) : TextsOf(j)[k] = TextsOf(j)[m] => k = m
           /\ j.kind = "bulk" =>
                /\ Positions(j) = DOMAIN j.elements
                /\ \A k \in Positions(j) : /\ TextsOf(j)[k] = j.elements[k].text
                                           /\ j.elements[k].id \in RowIds \cup {NoId}
           /\ j.kind = "sync" => TextsOf(j) = j.sheet
<1>1. j \in BulkJobs \cup SyncJobs /\ Positions(j) \subseteq 1..MaxItems /\ Distinct(TextsOf(j))
  BY JobsAssumption
<1>2. CASE j \in BulkJobs
  <2>1. j.kind = "bulk" /\ j.elements \in Seq(Elements) /\ TextsOf(j) = ElementTexts(j.elements)
    BY <1>2 DEF BulkJobs, TextsOf
  <2>2. /\ Positions(j) = DOMAIN j.elements
        /\ \A k \in DOMAIN j.elements : /\ TextsOf(j)[k] = j.elements[k].text
                                        /\ j.elements[k] \in Elements
    BY <2>1 DEF ElementTexts, Positions
  <2> QED
    BY <1>1, <2>1, <2>2 DEF Elements, NoJob, Distinct, Positions
<1>3. CASE j \in SyncJobs
  <2>1. j.kind = "sync" /\ j.sheet \in Seq(Texts) /\ TextsOf(j) = j.sheet
    BY <1>3 DEF SyncJobs, TextsOf
  <2>2. \A k \in DOMAIN j.sheet : j.sheet[k] \in Texts
    BY <2>1
  <2> QED
    BY <1>1, <2>1, <2>2 DEF NoJob, Distinct, Positions
<1> QED
  BY <1>1, <1>2, <1>3

\* Statements handle the elements of a request in its order.
LEMMA FirstIsLeast ==
    ASSUME NEW S \in SUBSET (1..MaxItems), S # {}
    PROVE  First(S) \in S /\ \A m \in S : First(S) <= m
<1>1. \E k \in S : \A m \in S : k <= m
  <2> DEFINE Lt(x, y) == x < y
             R == OpToRel(Lt, Nat)
  <2>1. \A x, y \in Nat : <<x, y>> \in R <=> x < y
    BY Zenon DEF OpToRel
  <2>2. IsWellFoundedOn(R, Nat)
    BY <2>1, NatLessThanWellFounded, Zenon
  <2>3. S \subseteq Nat
    OBVIOUS
  <2>4. PICK k \in S : \A m \in S : ~(<<m, k>> \in R)
    <3> HIDE DEF R
    <3> QED
      BY <2>2, <2>3, WFMin
  <2>5. \A m \in S : ~(m < k)
    BY <2>1, <2>3, <2>4
  <2> QED
    BY <2>3, <2>5
<1> QED
  BY <1>1 DEF First

\* Every element of an open request has a row and a text.
LEMMA RowFacts ==
    ASSUME NEW s \in Sessions, s.job \in Jobs, s.number \in 1..MaxJobs,
           NEW k \in Positions(s.job)
    PROVE  /\ RowId(s, k) \in RowIds
           /\ TextAt(s, k) \in Texts
           /\ ~HasId(s, k) => RowId(s, k) = <<s.number, k>>
           /\ HasId(s, k) => RowId(s, k) = s.job.elements[k].id /\ IsBulk(s)
<1>1. k \in 1..MaxItems /\ <<s.number, k>> \in NewIds
  BY JobFacts DEF NewIds
<1>2. TextAt(s, k) \in Texts
  BY JobFacts DEF TextAt
<1>3. HasId(s, k) => s.job.elements[k].id \in RowIds
  BY JobFacts DEF HasId
<1> QED
  BY <1>1, <1>2, <1>3 DEF RowId, RowIds, IsBulk, HasId

\* Operators of a session look at its request, its number and its updated positions.
LEMMA SameRequest ==
    ASSUME NEW s, NEW r, s.job = r.job, s.number = r.number
    PROVE  /\ \A k : /\ TextAt(s, k) = TextAt(r, k) /\ HasId(s, k) = HasId(r, k)
                     /\ RowId(s, k) = RowId(r, k)
           /\ IsBulk(s) = IsBulk(r)
           /\ s.updated = r.updated =>
                UpdatedIds(s) = UpdatedIds(r) /\ ToInsert(s) = ToInsert(r)
<1>1. \A k : TextAt(s, k) = TextAt(r, k) /\ HasId(s, k) = HasId(r, k)
  BY DEF TextAt, HasId
<1>2. \A k : RowId(s, k) = RowId(r, k)
  BY <1>1 DEF RowId
<1>3. s.updated = r.updated => UpdatedIds(s) = UpdatedIds(r)
  BY <1>2 DEF UpdatedIds
<1>4. s.updated = r.updated => ToInsert(s) = ToInsert(r)
  BY <1>2, <1>3 DEF ToInsert
<1> QED
  BY <1>1, <1>2, <1>3, <1>4 DEF IsBulk

-----------------------------------------------------------------------------
(* What each action does to the sessions                                    *)

\* What a statement of w leaves alone, and what remains of its session: r, with
\* the rows that w has written then.
Statement(w, r) ==
    /\ r \in Sessions
    /\ tx' = [tx EXCEPT ![w] = r]
    /\ \A u \in Writers \ {w} : writes'[u] = writes[u]
    /\ UNCHANGED <<table, view, jobs, reply, search>>

\* One round of the UPDATE loop passes the first element that is left, and writes its
\* row if it sees one (glossary.py:84-96).
LEMMA UpdateMoves ==
    ASSUME TypeOK, NEW w \in Writers, Update(w)
    PROVE  LET s == tx[w]
               k == First(s.todo)
               i == RowId(s, k)
           IN  /\ s.pc = "update" /\ s.todo # {}
               /\ viewLock' = viewLock
               /\ \/ /\ Visible(w)[i] = Gone /\ writes' = writes
                     /\ Statement(w, [s EXCEPT !.pc = "snapshot", !.next = "update",
                                               !.todo = @ \ {k}])
                  \/ /\ Visible(w)[i] # Gone /\ Free(w, i)
                     /\ writes' = [writes EXCEPT ![w][i] = TextAt(s, k)]
                     /\ Statement(w, [s EXCEPT !.pc = "snapshot", !.next = "update",
                                               !.todo = @ \ {k}, !.updated = @ \cup {k}])
<1> DEFINE k == First(tx[w].todo)
<1>1. tx[w] \in Sessions /\ tx[w].todo \in SUBSET (1..MaxItems) /\ tx[w].todo # {} /\ At(w, "update")
  BY DEF TypeOK, Sessions, Update
<1>2. k \in 1..MaxItems
  BY <1>1, FirstIsLeast
<1>3. [tx[w] EXCEPT !.pc = "snapshot", !.next = "update", !.todo = @ \ {k}] \in Sessions
  BY <1>1, <1>2 DEF Sessions
<1>4. [tx[w] EXCEPT !.pc = "snapshot", !.next = "update",
                    !.todo = @ \ {k}, !.updated = @ \cup {k}] \in Sessions
  BY <1>1, <1>2 DEF Sessions
<1>5. /\ tx \in [Writers -> Sessions]
      /\ writes \in [Writers -> [RowIds -> Texts \cup {Gone, Untouched}]]
  BY DEF TypeOK
<1> HIDE DEF k
<1> QED
  BY <1>1, <1>3, <1>4, <1>5 DEF Update, Write, Shared, At, Statement, k

\* The check refuses the request, or opens the UPDATE loop with every element that has
\* an id (glossary.py:65-81).
LEMMA CheckMoves ==
    ASSUME TypeOK, SessionInv, NEW w \in Writers, Check(w)
    PROVE  LET s == tx[w]
           IN  /\ s.pc = "check" /\ IsBulk(s)
               /\ \/ Exists(s.job.elements) /\ RollBack(w, "exists")
                  \/ /\ ~Exists(s.job.elements)
                     /\ writes' = writes /\ viewLock' = viewLock
                     /\ Statement(w, [s EXCEPT !.pc = "update", !.base = table,
                            !.todo = {k \in Positions(s.job) : HasId(s, k)}])
<1>1. /\ tx \in [Writers -> Sessions] /\ tx[w] \in Sessions /\ table \in Rows
      /\ tx[w].pc = "check"
  BY DEF TypeOK, Check, At
<1>2. IsBulk(tx[w]) /\ tx[w].job \in Jobs
  BY <1>1, JobFacts DEF SessionInv, SessionOK, Stage, IsBulk
<1>3. /\ Positions(tx[w].job) = DOMAIN tx[w].job.elements
      /\ Positions(tx[w].job) \subseteq 1..MaxItems
  BY <1>2, JobFacts DEF IsBulk
<1> DEFINE T == {k \in Positions(tx[w].job) : HasId(tx[w], k)}
<1>4. T \in SUBSET (1..MaxItems) /\ T = {k \in DOMAIN tx[w].job.elements : HasId(tx[w], k)}
  BY <1>3
<1> HIDE DEF T
<1>5. [tx[w] EXCEPT !.pc = "update", !.base = table, !.todo = T] \in Sessions
  BY <1>1, <1>4 DEF Sessions
<1> SUFFICES ASSUME ~(Exists(tx[w].job.elements) /\ RollBack(w, "exists"))
             PROVE  /\ ~Exists(tx[w].job.elements)
                    /\ writes' = writes /\ viewLock' = viewLock
                    /\ Statement(w, [tx[w] EXCEPT !.pc = "update", !.base = table, !.todo = T])
  BY <1>1, <1>2, Zenon DEF T
<1>6. /\ ~Exists(tx[w].job.elements)
      /\ tx' = [tx EXCEPT ![w].pc = "update", ![w].base = table, ![w].todo = T]
      /\ UNCHANGED <<Shared, writes>>
  BY <1>4 DEF Check
<1> QED
  BY <1>1, <1>5, <1>6 DEF Statement, Shared

\* When the loop is over there is nothing left, or the INSERT of what was not updated
\* (glossary.py:98-115).
LEMMA UpdatedMoves ==
    ASSUME TypeOK, SessionInv, NEW w \in Writers, Updated(w)
    PROVE  LET s == tx[w]
           IN  /\ s.pc = "update" /\ s.todo = {}
               /\ writes' = writes /\ viewLock' = viewLock
               /\ \/ /\ s.updated = Positions(s.job)
                     /\ Statement(w, [s EXCEPT !.pc = "commit"])
                  \/ /\ s.updated # Positions(s.job)
                     /\ Statement(w, [s EXCEPT !.pc = "insert", !.todo = ToInsert(s)])
<1>1. /\ tx \in [Writers -> Sessions] /\ tx[w] \in Sessions
      /\ tx[w].pc = "update"
  BY DEF TypeOK, Updated, At
<1>2. ToInsert(tx[w]) \in SUBSET (1..MaxItems)
  BY <1>1, JobFacts DEF SessionInv, SessionOK, ToInsert
<1>3. [tx[w] EXCEPT !.pc = "insert", !.todo = ToInsert(tx[w])] \in Sessions
  BY <1>1, <1>2 DEF Sessions
<1>4. [tx[w] EXCEPT !.pc = "commit"] \in Sessions
  BY <1>1 DEF Sessions
<1> QED
  BY <1>1, <1>3, <1>4 DEF Updated, Shared, Statement

\* A refresh compares the sheet with the table it sees (glossary.py:157, 284-310).
LEMMA SelectMoves ==
    ASSUME TypeOK, SessionInv, NEW w \in Writers, Select(w)
    PROVE  LET s == tx[w]
               missing == Values(table) \ {TextAt(s, k) : k \in Positions(s.job)}
               added   == {k \in Positions(s.job) : TextAt(s, k) \notin Values(table)}
           IN  /\ s.pc = "select" /\ ~IsBulk(s)
               /\ writes' = writes /\ viewLock' = viewLock
               /\ Statement(w, [s EXCEPT !.base = table, !.missing = missing, !.todo = added,
                                         !.pc = FirstStatement(missing, added)])
<1> DEFINE sheet   == tx[w].job.sheet
           missing == Values(table) \ {sheet[k] : k \in DOMAIN sheet}
           added   == {k \in DOMAIN sheet : sheet[k] \notin Values(table)}
<1>1. /\ tx \in [Writers -> Sessions] /\ tx[w] \in Sessions /\ table \in Rows
      /\ tx[w].pc = "select"
  BY DEF TypeOK, Select, At
<1>2. ~IsBulk(tx[w]) /\ tx[w].job \in Jobs /\ tx[w].job.kind = "sync"
  BY <1>1, JobFacts DEF SessionInv, SessionOK, Stage, IsBulk
<1>3. Positions(tx[w].job) = DOMAIN sheet /\ \A k : TextAt(tx[w], k) = sheet[k]
  BY <1>2, JobFacts DEF TextAt, Positions
<1>4. /\ missing = Values(table) \ {TextAt(tx[w], k) : k \in Positions(tx[w].job)}
      /\ added = {k \in Positions(tx[w].job) : TextAt(tx[w], k) \notin Values(table)}
  BY <1>3
<1>5. added \in SUBSET (1..MaxItems) /\ missing \in SUBSET Texts
  <2>1. Values(table) \subseteq Texts
    BY <1>1 DEF Values, Rows
  <2> QED
    BY <2>1, <1>2, <1>3, JobFacts
<1>6. tx' = [tx EXCEPT ![w].base = table, ![w].missing = missing, ![w].todo = added,
                       ![w].pc = FirstStatement(missing, added)]
  BY DEF Select
<1>7. UNCHANGED <<Shared, writes>>
  BY DEF Select
<1> HIDE DEF missing, added
<1>8. FirstStatement(missing, added) \in {"delete", "insert", "commit"}
  BY DEF FirstStatement
<1>9. [tx[w] EXCEPT !.base = table, !.missing = missing, !.todo = added,
                    !.pc = FirstStatement(missing, added)] \in Sessions
  BY <1>1, <1>5, <1>8 DEF Sessions
<1>10. Statement(w, [tx[w] EXCEPT !.base = table, !.missing = missing, !.todo = added,
                                  !.pc = FirstStatement(missing, added)])
  BY <1>1, <1>6, <1>7, <1>9 DEF Statement, Shared
<1> QED
  BY <1>1, <1>2, <1>4, <1>7, <1>10 DEF Shared

\* DELETE selects the rows with a text to delete, as committed.
LEMMA DeleteMoves ==
    ASSUME TypeOK, NEW w \in Writers, Delete(w)
    PROVE  LET s == tx[w]
           IN  /\ s.pc = "delete"
               /\ writes' = writes /\ viewLock' = viewLock
               /\ Statement(w, [s EXCEPT !.pc = "deleting",
                                         !.victims = {i \in RowIds : table[i] \in s.missing}])
<1>1. tx \in [Writers -> Sessions] /\ tx[w] \in Sessions /\ tx[w].pc = "delete"
  BY DEF TypeOK, Delete, At
<1> DEFINE V == {i \in RowIds : table[i] \in tx[w].missing}
<1>2. tx' = [tx EXCEPT ![w].pc = "deleting", ![w].victims = V] /\ UNCHANGED <<Shared, writes>>
  BY DEF Delete
<1>3. V \in SUBSET RowIds
  OBVIOUS
<1> HIDE DEF V
<1>4. [tx[w] EXCEPT !.pc = "deleting", !.victims = V] \in Sessions
  BY <1>1, <1>3 DEF Sessions
<1>5. Statement(w, [tx[w] EXCEPT !.pc = "deleting", !.victims = V])
  BY <1>1, <1>2, <1>4 DEF Statement, Shared
<1> QED
  BY <1>1, <1>2, <1>5 DEF Shared, V

\* DELETE visits one of its rows, and deletes it if it still matches.
LEMMA DeleteRowMoves ==
    ASSUME TypeOK, NEW w \in Writers, DeleteRow(w)
    PROVE  LET s == tx[w]
           IN  /\ s.pc = "deleting" /\ viewLock' = viewLock
               /\ \E i \in s.victims :
                    /\ Free(w, i)
                    /\ \/ /\ table[i] \in s.missing
                          /\ writes' = [writes EXCEPT ![w][i] = Gone]
                          /\ Statement(w, [s EXCEPT !.victims = @ \ {i}, !.hit = TRUE])
                       \/ /\ table[i] \notin s.missing
                          /\ writes' = writes
                          /\ Statement(w, [s EXCEPT !.victims = @ \ {i}])
<1>1. /\ tx \in [Writers -> Sessions] /\ tx[w] \in Sessions /\ tx[w].pc = "deleting"
      /\ writes \in [Writers -> [RowIds -> Texts \cup {Gone, Untouched}]]
      /\ viewLock' = viewLock
  BY DEF TypeOK, DeleteRow, At, Shared
<1>2. tx[w].hit \in BOOLEAN
  BY <1>1 DEF Sessions
<1>3. PICK i \in tx[w].victims :
         /\ Free(w, i)
         /\ IF table[i] \in tx[w].missing THEN Write(w, i, Gone) ELSE UNCHANGED writes
         /\ tx' = [tx EXCEPT ![w].victims = @ \ {i},
                             ![w].hit = @ \/ table[i] \in tx[w].missing]
  BY DEF DeleteRow
<1>4. [tx[w] EXCEPT !.victims = @ \ {i}, !.hit = TRUE] \in Sessions
  BY <1>1 DEF Sessions
<1>5. [tx[w] EXCEPT !.victims = @ \ {i}] \in Sessions
  BY <1>1 DEF Sessions
<1>6. UNCHANGED <<table, view, jobs, reply, search>>
  BY DEF DeleteRow, Shared
<1>7. CASE table[i] \in tx[w].missing
  <2>1. tx' = [tx EXCEPT ![w] = [tx[w] EXCEPT !.victims = @ \ {i}, !.hit = TRUE]]
    <3>1. (tx[w].hit \/ table[i] \in tx[w].missing) = TRUE
      BY <1>2, <1>7, Zenon
    <3>2. tx' = [tx EXCEPT ![w].victims = @ \ {i}, ![w].hit = TRUE]
      BY <1>3, <3>1, Zenon
    <3> QED
      BY <1>1, <3>2
  <2>2. writes' = [writes EXCEPT ![w][i] = Gone]
    BY <1>3, <1>7 DEF Write
  <2> QED
    BY <1>1, <1>3, <1>4, <1>6, <1>7, <2>1, <2>2 DEF Statement
<1>8. CASE table[i] \notin tx[w].missing
  <2>1. tx' = [tx EXCEPT ![w] = [tx[w] EXCEPT !.victims = @ \ {i}]]
    <3>1. (tx[w].hit \/ table[i] \in tx[w].missing) = tx[w].hit
      BY <1>2, <1>8, Zenon
    <3>2. tx' = [tx EXCEPT ![w].victims = @ \ {i}, ![w].hit = tx[w].hit]
      BY <1>3, <3>1, Zenon
    <3>3. [tx[w] EXCEPT !.victims = @ \ {i}, !.hit = tx[w].hit]
            = [tx[w] EXCEPT !.victims = @ \ {i}]
      BY <1>1 DEF Sessions
    <3> QED
      BY <1>1, <3>2, <3>3
  <2>2. writes' = writes
    BY <1>3, <1>8
  <2> QED
    BY <1>1, <1>3, <1>5, <1>6, <1>8, <2>1, <2>2 DEF Statement
<1> QED
  BY <1>7, <1>8

\* After its last row, DELETE goes on by what it has hit and what is to be inserted
\* (glossary.py:165-183).
LEMMA DeletedMoves ==
    ASSUME TypeOK, NEW w \in Writers, Deleted(w)
    PROVE  LET s == tx[w]
           IN  /\ s.pc = "deleting" /\ s.victims = {}
               /\ writes' = writes /\ viewLock' = viewLock
               /\ \E next \in {"not_found", "insert", "commit"} :
                    /\ next = "not_found" => ~s.hit
                    /\ next = "insert" => s.todo # {}
                    /\ next = "commit" => s.todo = {}
                    /\ Statement(w, [s EXCEPT !.pc = "snapshot", !.next = next])
<1> DEFINE next == IF ~tx[w].hit THEN "not_found"
                   ELSE IF tx[w].todo # {} THEN "insert" ELSE "commit"
<1>1. tx \in [Writers -> Sessions] /\ tx[w] \in Sessions /\ tx[w].pc = "deleting"
  BY DEF TypeOK, Deleted, At
<1>2. /\ tx' = [tx EXCEPT ![w].pc = "snapshot", ![w].next = next]
      /\ UNCHANGED <<Shared, writes>> /\ tx[w].victims = {}
  BY DEF Deleted
<1>3. /\ next \in {"not_found", "insert", "commit"}
      /\ next = "not_found" => ~tx[w].hit
      /\ next = "insert" => tx[w].todo # {}
      /\ next = "commit" => tx[w].todo = {}
  OBVIOUS
<1> HIDE DEF next
<1>4. [tx[w] EXCEPT !.pc = "snapshot", !.next = next] \in Sessions
  BY <1>1, <1>3 DEF Sessions
<1>5. Statement(w, [tx[w] EXCEPT !.pc = "snapshot", !.next = next])
  BY <1>1, <1>2, <1>4 DEF Statement, Shared
<1> QED
  BY <1>1, <1>2, <1>3, <1>5 DEF Shared

\* One row of INSERT writes a row that nobody has, or is a conflict.
LEMMA InsertMoves ==
    ASSUME TypeOK, NEW w \in Writers, Insert(w)
    PROVE  LET s == tx[w]
               k == First(s.todo)
               i == RowId(s, k)
               rest == s.todo \ {k}
           IN  /\ s.pc = "insert" /\ s.todo # {} /\ Free(w, i)
               /\ \/ Visible(w)[i] # Gone /\ RollBack(w, "conflict")
                  \/ /\ Visible(w)[i] = Gone /\ viewLock' = viewLock
                     /\ writes' = [writes EXCEPT ![w][i] = TextAt(s, k)]
                     /\ \/ rest = {} /\ Statement(w, [s EXCEPT !.todo = rest, !.next = "commit",
                                                              !.pc = "snapshot"])
                        \/ rest # {} /\ Statement(w, [s EXCEPT !.todo = rest, !.next = "commit",
                                                              !.pc = "insert"])
<1> DEFINE k == First(tx[w].todo)
           i == RowId(tx[w], k)
           rest == tx[w].todo \ {k}
<1>1. /\ tx \in [Writers -> Sessions] /\ tx[w] \in Sessions /\ tx[w].pc = "insert"
      /\ tx[w].todo # {} /\ Free(w, i)
      /\ writes \in [Writers -> [RowIds -> Texts \cup {Gone, Untouched}]]
  BY DEF TypeOK, Insert, At
<1>2. [tx[w] EXCEPT !.todo = rest, !.next = "commit", !.pc = "snapshot"] \in Sessions
  BY <1>1 DEF Sessions
<1>3. [tx[w] EXCEPT !.todo = rest, !.next = "commit", !.pc = "insert"] \in Sessions
  BY <1>1 DEF Sessions
<1>4. \/ Visible(w)[i] # Gone /\ RollBack(w, "conflict")
      \/ /\ Visible(w)[i] = Gone
         /\ Write(w, i, TextAt(tx[w], k))
         /\ tx' = [tx EXCEPT ![w].todo = rest, ![w].next = "commit",
                             ![w].pc = IF rest = {} THEN "snapshot" ELSE "insert"]
         /\ UNCHANGED Shared
  BY DEF Insert
<1> HIDE DEF i, rest, k
<1>5. CASE /\ Visible(w)[i] = Gone
           /\ Write(w, i, TextAt(tx[w], k))
           /\ tx' = [tx EXCEPT ![w].todo = rest, ![w].next = "commit",
                               ![w].pc = IF rest = {} THEN "snapshot" ELSE "insert"]
           /\ UNCHANGED Shared
  <2>1. writes' = [writes EXCEPT ![w][i] = TextAt(tx[w], k)] /\ viewLock' = viewLock
    BY <1>5 DEF Write, Shared
  <2>2. CASE rest = {}
    BY <1>1, <1>2, <1>5, <2>1, <2>2 DEF Statement, Shared, i, k, rest
  <2>3. CASE rest # {}
    BY <1>1, <1>3, <1>5, <2>1, <2>3 DEF Statement, Shared, i, k, rest
  <2> QED
    BY <2>2, <2>3
<1>6. CASE Visible(w)[i] # Gone /\ RollBack(w, "conflict")
  BY <1>1, <1>6 DEF i, k, rest
<1> QED
  BY <1>4, <1>5, <1>6

\* The trigger takes its snapshot of what the transaction sees.
LEMMA SnapshotMoves ==
    ASSUME TypeOK, NEW w \in Writers, Snapshot(w)
    PROVE  /\ tx[w].pc = "snapshot"
           /\ writes' = writes /\ viewLock' = viewLock
           /\ Statement(w, [tx[w] EXCEPT !.pc = "fill", !.snap = Visible(w)])
<1>1. /\ tx \in [Writers -> Sessions] /\ tx[w] \in Sessions /\ tx[w].pc = "snapshot"
      /\ writes \in [Writers -> [RowIds -> Texts \cup {Gone, Untouched}]]
      /\ table \in Rows
  BY DEF TypeOK, Snapshot, At
<1>2. Visible(w) \in Rows
  BY <1>1 DEF Visible, Rows
<1>3. [tx[w] EXCEPT !.pc = "fill", !.snap = Visible(w)] \in Sessions
  BY <1>1, <1>2 DEF Sessions
<1> QED
  BY <1>1, <1>3 DEF Snapshot, Shared, Statement

\* The trigger has the view from here on, and the next statement follows.
LEMMA FillMoves ==
    ASSUME TypeOK, SessionInv, NEW w \in Writers, Fill(w)
    PROVE  /\ tx[w].pc = "fill"
           /\ writes' = writes /\ viewLock' = w
           /\ Statement(w, [tx[w] EXCEPT !.pc = tx[w].next])
<1>1. /\ tx \in [Writers -> Sessions] /\ tx[w] \in Sessions /\ tx[w].pc = "fill"
  BY DEF TypeOK, Fill, At
<1>2. tx[w].next \in {"idle", "update", "insert", "commit", "not_found"}
  BY <1>1 DEF Sessions
<1>3. [tx[w] EXCEPT !.pc = tx[w].next] \in Sessions
  BY <1>1, <1>2 DEF Sessions
<1> QED
  BY <1>1, <1>3 DEF Fill, Statement

\* A closed session and an empty set of writes have their types.
LEMMA ClosedIsTyped ==
    Closed \in Sessions /\ Clean \in [RowIds -> Texts \cup {Gone, Untouched}]
  BY BoundAssumption DEF Closed, Sessions, Empty, Rows, Clean

\* The end of a transaction: the other sessions note what it wrote if they have read
\* the table.
LEMMA EndMoves ==
    ASSUME TypeOK, NEW w \in Writers, NEW answer, NEW wrote \in SUBSET RowIds,
           EndTx(w, answer, wrote)
    PROVE  /\ tx' \in [Writers -> Sessions] /\ tx'[w] = Closed
           /\ writes' = [writes EXCEPT ![w] = Clean] /\ reply' = [reply EXCEPT ![w] = answer]
           /\ viewLock' = (IF viewLock = w THEN None ELSE viewLock)
           /\ UNCHANGED <<jobs, search>>
           /\ \A u \in Writers \ {w} :
                IF HasRead(tx[u]) THEN tx'[u] = [tx[u] EXCEPT !.since = @ \cup wrote]
                ELSE tx'[u] = tx[u]
<1>1. tx \in [Writers -> Sessions] /\ \A u \in Writers : tx[u] \in Sessions
  BY DEF TypeOK
<1>2. tx' = [v \in Writers |->
               IF v = w THEN Closed
               ELSE IF tx[v].pc \in {"idle", "check", "select"} THEN tx[v]
               ELSE [tx[v] EXCEPT !.since = @ \cup wrote]]
  BY DEF EndTx
<1>3. ASSUME NEW s \in Sessions
      PROVE  [s EXCEPT !.since = @ \cup wrote] \in Sessions
  BY Zenon DEF Sessions
<1>4. tx' \in [Writers -> Sessions]
  BY <1>1, <1>2, <1>3, ClosedIsTyped
<1> QED
  BY <1>2, <1>4 DEF EndTx, HasRead

\* A request opens an empty session with the next number, alone if all others are idle,
\* and ends the solitude of the others.
LEMMA BeginMoves ==
    ASSUME TypeOK, NEW w \in Writers, Begin(w)
    PROVE  /\ tx[w].pc = "idle" /\ tx' \in [Writers -> Sessions]
           /\ jobs' = jobs + 1 /\ jobs' \in 1..MaxJobs
           /\ UNCHANGED <<table, view, viewLock, writes, reply, search>>
           /\ \A u \in Writers \ {w} : tx'[u] = [tx[u] EXCEPT !.alone = FALSE]
           /\ \E j \in Jobs, alone \in BOOLEAN :
                /\ Known(j)
                /\ alone => \A u \in Writers : tx[u].pc = "idle"
                /\ tx'[w] = [Closed EXCEPT !.pc = IF j.kind = "bulk" THEN "check" ELSE "select",
                                           !.job = j, !.number = jobs + 1, !.alone = alone]
<1> DEFINE alone == \A u \in Writers : At(u, "idle")
           Opened(j) == [Closed EXCEPT !.pc = IF j.kind = "bulk" THEN "check" ELSE "select",
                                       !.job = j, !.number = jobs + 1, !.alone = alone]
<1>1. /\ tx \in [Writers -> Sessions] /\ \A u \in Writers : tx[u] \in Sessions
      /\ jobs \in 0..MaxJobs /\ jobs < MaxJobs /\ MaxJobs \in Nat /\ alone \in BOOLEAN
  BY BoundAssumption DEF TypeOK, Begin
<1>2. PICK j \in Jobs :
        /\ Known(j)
        /\ tx' = [v \in Writers |-> IF v = w THEN Opened(j) ELSE [tx[v] EXCEPT !.alone = FALSE]]
  BY DEF Begin
<1> HIDE DEF alone
<1>3. Opened(j) \in Sessions
  <2>1. (IF j.kind = "bulk" THEN "check" ELSE "select") \in {"check", "select"}
    OBVIOUS
  <2>2. jobs + 1 \in 0..MaxJobs
    BY <1>1
  <2> QED
    BY <1>1, <2>1, <2>2, ClosedIsTyped DEF Sessions
<1>4. ASSUME NEW s \in Sessions
      PROVE  [s EXCEPT !.alone = FALSE] \in Sessions
  BY DEF Sessions
<1> HIDE DEF Opened
<1>5. /\ tx' \in [Writers -> Sessions] /\ tx'[w] = Opened(j)
      /\ \A u \in Writers \ {w} : tx'[u] = [tx[u] EXCEPT !.alone = FALSE]
  <2>1. \A v \in Writers : [tx[v] EXCEPT !.alone = FALSE] \in Sessions
    BY <1>1, <1>4
  <2> QED
    BY <1>2, <1>3, <2>1
<1>6. /\ tx[w].pc = "idle" /\ jobs' = jobs + 1 /\ jobs' \in 1..MaxJobs
      /\ UNCHANGED <<table, view, viewLock, writes, reply, search>>
  <2>1. /\ tx[w].pc = "idle" /\ jobs' = jobs + 1
        /\ UNCHANGED <<table, view, viewLock, writes, reply, search>>
    BY DEF Begin, At
  <2> QED
    BY <1>1, <2>1
<1>7. alone => \A u \in Writers : tx[u].pc = "idle"
  BY DEF alone, At
<1> QED
  BY <1>1, <1>2, <1>5, <1>6, <1>7 DEF Opened

\* Whoever is chosen as the victim was waiting for somebody.
LEMMA VictimsWait ==
    ASSUME NEW w \in Writers, InDeadlock(w)
    PROVE  \E v \in Writers : WaitsFor(w, v)
<1>1. Blockers(w) # {}
  BY DEF InDeadlock
<1> QED
  BY <1>1 DEF Blockers

-----------------------------------------------------------------------------
(* What a statement keeps                                                   *)

\* Elements still to handle have rows.
LEMMA TodoHasRows ==
    ASSUME NEW s \in Sessions, NEW n \in 0..MaxJobs, SessionOK(s, n), NEW k \in s.todo
    PROVE  RowId(s, k) \in RowIds /\ TextAt(s, k) \in Texts /\ k \in 1..MaxItems
<1>1. s.pc # "idle"
  BY DEF SessionOK, Closed
<1>2. s.job \in Jobs /\ s.number \in 1..MaxJobs /\ k \in Positions(s.job)
  BY <1>1, BoundAssumption DEF SessionOK
<1> QED
  BY <1>2, RowFacts, JobFacts

\* Row i is nobody else's uuid4, and none of a request to come.
NobodysUuid(w, i) ==
    \A n \in 1..MaxJobs, m \in 1..MaxItems : i = <<n, m>> =>
        n <= jobs /\ \A u \in Writers \ {w} : tx[u].number # n

\* A statement that leaves its session as r, which is as it should be with its
\* writes, and writes only free rows that are nobody else's uuid4s.
GoodStatement(w, r) ==
    /\ Statement(w, r)
    /\ viewLock' \in {viewLock, w}
    /\ writes' \in [Writers -> [RowIds -> Texts \cup {Gone, Untouched}]]
    /\ \A i \in RowIds : writes'[w][i] = writes[w][i] \/ (Free(w, i) /\ NobodysUuid(w, i))
    /\ tx[w].pc # "idle" /\ HasRead(r)
    /\ r.job = tx[w].job /\ r.number = tx[w].number /\ r.alone = tx[w].alone
    /\ SessionOK(r, jobs)
    /\ IsBulk(r) => BulkOK(r, writes'[w])
    /\ ~IsBulk(r) => SyncOK(r, writes'[w], table)
    /\ r.alone => AloneOK(r, writes'[w], table, viewLock', w)

\* Good statements keep the invariant: the other writers still own their rows and their
\* uuid4s, and see the same table.
LEMMA StatementKeeps ==
    ASSUME IInv, NEW w \in Writers, NEW r, GoodStatement(w, r)
    PROVE  IInv'
<1> USE DEF GoodStatement
<1>1. /\ tx \in [Writers -> Sessions] /\ r \in Sessions
      /\ tx' \in [Writers -> Sessions] /\ tx'[w] = r
      /\ \A u \in Writers \ {w} : tx'[u] = tx[u] /\ writes'[u] = writes[u]
      /\ table' = table /\ jobs' = jobs /\ view' = view /\ reply' = reply /\ search' = search
      /\ jobs \in 0..MaxJobs
  BY DEF IInv, TypeOK, Statement
<1>2. SessionInv'
  BY <1>1 DEF IInv, SessionInv
<1>3. TypeOK'
  <2>1. \A u \in Writers, k \in 1..MaxItems : k \in tx'[u].todo => RowId(tx'[u], k) \in RowIds
    BY <1>1, <1>2, TodoHasRows DEF SessionInv
  <2>2. viewLock' \in Writers \cup {None}
    BY DEF IInv, TypeOK
  <2> QED
    BY <1>1, <2>1, <2>2 DEF IInv, TypeOK
<1>4. FreshInv'
  BY <1>1 DEF IInv, FreshInv
<1>5. LockInv'
  <2> SUFFICES ASSUME NEW v \in Writers, NEW u \in Writers, NEW i \in RowIds, v # u
               PROVE  writes'[v][i] = Untouched \/ writes'[u][i] = Untouched
    BY DEF LockInv
  <2>1. writes[v][i] = Untouched \/ writes[u][i] = Untouched
    BY DEF IInv, LockInv
  <2>2. CASE writes'[w][i] = writes[w][i]
    BY <1>1, <2>1, <2>2
  <2>3. CASE Free(w, i)
    <3>1. \A x \in Writers \ {w} : writes[x][i] = Untouched
      BY <2>3 DEF Free, Owners
    <3> QED
      BY <1>1, <3>1
  <2> QED
    BY <2>2, <2>3
<1>6. NumberInv'
  <2>1. \A u \in Writers : tx'[u].number = tx[u].number /\ tx'[u].job = tx[u].job
    BY <1>1
  <2>2. \A u \in Writers : tx'[u].pc # "idle" => tx[u].pc # "idle"
    BY <1>1
  <2>3. ASSUME NEW u \in Writers, NEW n \in 1..MaxJobs, NEW m \in 1..MaxItems,
               writes'[u][<<n, m>>] # Untouched
        PROVE  n <= jobs /\ \A x \in Writers \ {u} : tx[x].number # n
    <3>1. CASE writes'[u][<<n, m>>] = writes[u][<<n, m>>]
      <4>1. writes[u][<<n, m>>] # Untouched
        BY <2>3, <3>1
      <4> QED
        BY <4>1 DEF IInv, NumberInv, UuidsUnwritten
    <3>2. CASE u = w /\ writes'[w][<<n, m>>] # writes[w][<<n, m>>]
      <4>1. <<n, m>> \in RowIds
        BY DEF RowIds, NewIds
      <4>2. NobodysUuid(w, <<n, m>>)
        BY <3>2, <4>1
      <4> QED
        BY <3>2, <4>2 DEF NobodysUuid
    <3> QED
      BY <1>1, <3>1, <3>2
  <2>4. NumbersDiffer'
    BY <2>1, <2>2 DEF IInv, NumberInv, NumbersDiffer
  <2>5. UuidsFree'
    BY <1>1, <2>1 DEF IInv, NumberInv, UuidsFree
  <2>6. UuidsUnwritten'
    <3> SUFFICES ASSUME NEW u \in Writers, NEW n \in 1..MaxJobs, NEW m \in 1..MaxItems,
                        writes'[u][<<n, m>>] # Untouched
                 PROVE  n <= jobs' /\ \A x \in Writers \ {u} : tx'[x].number # n
      BY DEF UuidsUnwritten
    <3>1. n <= jobs /\ \A x \in Writers \ {u} : tx[x].number # n
      BY <2>3
    <3> QED
      BY <1>1, <2>1, <3>1
  <2>7. UuidsUnknown'
    BY <2>1 DEF IInv, NumberInv, UuidsUnknown, IsBulk
  <2> QED
    BY <2>4, <2>5, <2>6, <2>7 DEF NumberInv
<1>7. BulkInv'
  BY <1>1 DEF IInv, BulkInv
<1>8. SyncInv'
  BY <1>1 DEF IInv, SyncInv
<1>9. AloneInv'
  <2> SUFFICES ASSUME NEW u \in Writers, tx'[u].alone
               PROVE  /\ \A x \in Writers \ {u} : tx'[x].pc = "idle"
                      /\ AloneOK(tx'[u], writes'[u], table', viewLock', u)
    BY DEF AloneInv, At
  <2>1. CASE u = w
    BY <1>1, <2>1 DEF IInv, AloneInv, At
  <2>2. CASE u # w
    BY <1>1, <2>2 DEF IInv, AloneInv, At
  <2> QED
    BY <2>1, <2>2
<1> QED
  BY <1>2, <1>3, <1>4, <1>5, <1>6, <1>7, <1>8, <1>9 DEF IInv

\* The parts of the invariant that are about the session of w.
WriterOK(w, s) ==
    /\ s \in Sessions /\ SessionOK(s, jobs) /\ jobs \in 0..MaxJobs
    /\ writes \in [Writers -> [RowIds -> Texts \cup {Gone, Untouched}]]
    /\ writes[w] \in [RowIds -> Texts \cup {Gone, Untouched}]
    /\ table \in Rows
    /\ s.pc # "idle" => s.job \in Jobs /\ s.number \in 1..MaxJobs
    /\ ~HasRead(s) => writes[w] = Clean
    /\ IsBulk(s) /\ HasRead(s) => BulkOK(s, writes[w])
    /\ ~IsBulk(s) /\ HasRead(s) => SyncOK(s, writes[w], table)
    /\ s.alone => AloneOK(s, writes[w], table, viewLock, w)
    /\ Visible(w) = Over(table, writes[w])

\* They follow from the invariant.
LEMMA SessionFacts == ASSUME IInv, NEW w \in Writers PROVE WriterOK(w, tx[w])
<1>1. tx[w].pc # "idle" => tx[w].job \in Jobs /\ tx[w].number \in 1..MaxJobs
  BY BoundAssumption DEF IInv, TypeOK, SessionInv, SessionOK
<1>2. Visible(w) = Over(table, writes[w])
  BY DEF Visible, Over
<1>3. tx[w] \in Sessions /\ SessionOK(tx[w], jobs)
  BY DEF IInv, TypeOK, SessionInv
<1> QED
  BY <1>1, <1>2, <1>3
     DEF IInv, TypeOK, FreshInv, BulkInv, SyncInv, AloneInv, At, WriterOK

\* Nothing but the stage matters to what a session holds.
LEMMA SessionKept ==
    ASSUME NEW s, NEW r, NEW n, SessionOK(s, n), s.pc # "idle",
           r.job = s.job, r.number = s.number, HasRead(r),
           r.todo \subseteq Positions(s.job), r.updated \subseteq Positions(s.job),
           Stage(r) \in IF IsBulk(s) THEN {"check", "update", "insert", "commit"}
                        ELSE {"select", "delete", "deleting", "not_found", "insert", "commit"},
           Stage(r) = "commit" => r.todo = {}
    PROVE  SessionOK(r, n)
BY DEF SessionOK, HasRead, IsBulk

\* A session at the same stage, with the same elements handled, is as good as before.
LEMMA SameStage ==
    ASSUME NEW s, NEW r, NEW wrote, NEW t,
           r.job = s.job, r.number = s.number, r.base = s.base,
           r.todo = s.todo, r.updated = s.updated, Stage(r) = Stage(s)
    PROVE  /\ Handled(r) = Handled(s)
           /\ BulkOK(s, wrote) => BulkOK(r, wrote)
           /\ r.since = s.since /\ r.missing = s.missing /\ r.victims = s.victims =>
                (SyncOK(s, wrote, t) => SyncOK(r, wrote, t))
<1>1. /\ \A k : /\ TextAt(r, k) = TextAt(s, k) /\ HasId(r, k) = HasId(s, k)
                /\ RowId(r, k) = RowId(s, k)
      /\ UpdatedIds(r) = UpdatedIds(s) /\ ToInsert(r) = ToInsert(s)
  BY SameRequest
<1>2. Handled(r) = Handled(s) /\ Inserted(r) = Inserted(s)
  BY <1>1 DEF Handled, Inserted
<1>3. BulkOK(s, wrote) => BulkOK(r, wrote)
  BY <1>1, <1>2 DEF BulkOK
<1>4. r.since = s.since /\ r.missing = s.missing /\ r.victims = s.victims =>
        (SyncOK(s, wrote, t) => SyncOK(r, wrote, t))
  BY <1>1 DEF SyncOK
<1> QED
  BY <1>2, <1>3, <1>4

\* Taking the snapshot keeps the invariant: the stage is that of the statement after.
LEMMA SnapshotKeeps == ASSUME IInv, NEW w \in Writers, Snapshot(w) PROVE IInv'
<1> DEFINE s == tx[w]
           r == [s EXCEPT !.pc = "fill", !.snap = Visible(w)]
<1>1. s.pc = "snapshot" /\ writes' = writes /\ viewLock' = viewLock /\ Statement(w, r)
  BY SnapshotMoves DEF IInv
<1>2. WriterOK(w, s)
  BY SessionFacts
<1>3. /\ r.pc = "fill" /\ r.snap = Visible(w) /\ r.job = s.job /\ r.number = s.number
      /\ r.alone = s.alone /\ r.base = s.base /\ r.since = s.since /\ r.todo = s.todo
      /\ r.updated = s.updated /\ r.missing = s.missing /\ r.victims = s.victims
      /\ r.hit = s.hit /\ r.next = s.next
  BY <1>2 DEF WriterOK, Sessions
<1> HIDE DEF r, s
<1>4. Stage(r) = Stage(s) /\ HasRead(r) /\ HasRead(s) /\ (IsBulk(r) <=> IsBulk(s))
  BY <1>1, <1>3 DEF Stage, HasRead, IsBulk
<1>5. SessionOK(r, jobs)
  BY <1>1, <1>2, <1>3, <1>4, SessionKept DEF SessionOK, WriterOK
<1>6. IsBulk(r) => BulkOK(r, writes'[w])
  BY <1>1, <1>2, <1>3, <1>4, SameStage DEF WriterOK
<1>7. ~IsBulk(r) => SyncOK(r, writes'[w], table)
  BY <1>1, <1>2, <1>3, <1>4, SameStage DEF WriterOK
<1>8. r.alone => AloneOK(r, writes'[w], table, viewLock', w)
  <2>1. /\ Handled(r) = Handled(s) /\ UpdatedIds(r) = UpdatedIds(s)
        /\ \A k : RowId(r, k) = RowId(s, k)
    BY <1>3, <1>4, SameStage, SameRequest
  <2> QED
    BY <1>1, <1>2, <1>3, <1>4, <2>1 DEF AloneOK, WriterOK
<1>9. /\ writes' \in [Writers -> [RowIds -> Texts \cup {Gone, Untouched}]]
      /\ \A i \in RowIds : writes'[w][i] = writes[w][i]
      /\ s.pc # "idle" /\ viewLock' \in {viewLock, w}
  BY <1>1, <1>2 DEF WriterOK
<1> QED
  <2>1. GoodStatement(w, r)
    BY <1>1, <1>3, <1>4, <1>5, <1>6, <1>7, <1>8, <1>9 DEF GoodStatement, s
  <2> QED
    BY <2>1, StatementKeeps

\* Filling the view keeps the invariant: a lone writer now holds the view, with a
\* snapshot of what it will commit.
LEMMA FillKeeps == ASSUME IInv, NEW w \in Writers, Fill(w) PROVE IInv'
<1> DEFINE s == tx[w]
           r == [s EXCEPT !.pc = s.next]
<1>1. s.pc = "fill" /\ writes' = writes /\ viewLock' = w /\ Statement(w, r)
  BY FillMoves DEF IInv
<1>2. WriterOK(w, s)
  BY SessionFacts
<1>3. /\ r.pc = s.next /\ r.snap = s.snap /\ r.job = s.job /\ r.number = s.number
      /\ r.alone = s.alone /\ r.base = s.base /\ r.since = s.since /\ r.todo = s.todo
      /\ r.updated = s.updated /\ r.missing = s.missing /\ r.victims = s.victims
      /\ r.hit = s.hit /\ r.next = s.next
  BY <1>2 DEF WriterOK, Sessions
<1>4. s.next \in {"update", "insert", "commit", "not_found"}
  BY <1>1, <1>2 DEF WriterOK, SessionOK, Stage, Sessions
<1> HIDE DEF r, s
<1>5. Stage(r) = Stage(s) /\ HasRead(r) /\ HasRead(s) /\ (IsBulk(r) <=> IsBulk(s))
  BY <1>1, <1>3, <1>4 DEF Stage, HasRead, IsBulk
<1>6. SessionOK(r, jobs)
  BY <1>1, <1>2, <1>3, <1>5, SessionKept DEF SessionOK, WriterOK
<1>7. IsBulk(r) => BulkOK(r, writes'[w])
  BY <1>1, <1>2, <1>3, <1>5, SameStage DEF WriterOK
<1>8. ~IsBulk(r) => SyncOK(r, writes'[w], table)
  BY <1>1, <1>2, <1>3, <1>5, SameStage DEF WriterOK
<1>9. r.alone => AloneOK(r, writes'[w], table, viewLock', w)
  <2>1. /\ Handled(r) = Handled(s) /\ UpdatedIds(r) = UpdatedIds(s)
        /\ \A k : RowId(r, k) = RowId(s, k)
    BY <1>3, <1>5, SameStage, SameRequest
  <2> QED
    BY <1>1, <1>2, <1>3, <1>4, <1>5, <2>1 DEF AloneOK, WriterOK
<1>10. /\ writes' \in [Writers -> [RowIds -> Texts \cup {Gone, Untouched}]]
       /\ \A i \in RowIds : writes'[w][i] = writes[w][i]
       /\ s.pc # "idle" /\ viewLock' \in {viewLock, w}
  BY <1>1, <1>2 DEF WriterOK
<1> QED
  <2>1. GoodStatement(w, r)
    BY <1>1, <1>3, <1>5, <1>6, <1>7, <1>8, <1>9, <1>10 DEF GoodStatement, s
  <2> QED
    BY <2>1, StatementKeeps

\* A check that lets the request through keeps the invariant: none of its texts is in
\* the table it remembers (glossary.py:65-81).
LEMMA CheckKeeps ==
    ASSUME IInv, NEW w \in Writers, Check(w), ~RollBack(w, "exists")
    PROVE  IInv'
<1> DEFINE s == tx[w]
           T == {k \in Positions(s.job) : HasId(s, k)}
           r == [s EXCEPT !.pc = "update", !.base = table, !.todo = T]
<1>1. /\ s.pc = "check" /\ IsBulk(s) /\ ~Exists(s.job.elements)
      /\ writes' = writes /\ viewLock' = viewLock /\ Statement(w, r)
  BY CheckMoves, Zenon DEF IInv
<1>2. WriterOK(w, s)
  BY SessionFacts
<1> HIDE DEF s
<1> HIDE DEF T
<1>3. /\ r.pc = "update" /\ r.base = table /\ r.todo = T /\ r.job = s.job /\ r.number = s.number
      /\ r.alone = s.alone /\ r.since = s.since /\ r.updated = s.updated
  BY <1>2 DEF WriterOK, Sessions
<1>4. T = {k \in Positions(s.job) : HasId(s, k)}
  BY DEF T
<1> HIDE DEF r
<1>5. /\ s.job \in Jobs /\ s.since = {} /\ s.updated = {} /\ writes[w] = Clean
      /\ HasRead(r) /\ IsBulk(r) /\ Stage(r) = "update"
      /\ \A k : TextAt(r, k) = TextAt(s, k) /\ HasId(r, k) = HasId(s, k)
  BY <1>1, <1>2, <1>3, SameRequest DEF WriterOK, SessionOK, HasRead, IsBulk, Stage
<1>6. SessionOK(r, jobs)
  BY <1>1, <1>2, <1>3, <1>4, <1>5, SessionKept DEF SessionOK, WriterOK
<1>7. Handled(r) = {} /\ Inserted(r) = {}
  BY <1>3, <1>4, <1>5 DEF Handled, Inserted
<1>8. \A k \in Positions(s.job) : TextAt(s, k) \notin Values(table)
  <2>1. /\ Positions(s.job) = DOMAIN s.job.elements
        /\ \A k \in Positions(s.job) : TextAt(s, k) = s.job.elements[k].text
    BY <1>1, <1>5, JobFacts DEF TextAt, IsBulk
  <2> QED
    BY <1>1, <2>1 DEF Exists
<1>9. BulkOK(r, writes'[w])
  BY <1>1, <1>3, <1>4, <1>5, <1>7, <1>8 DEF BulkOK, Clean
<1>10. AloneOK(r, writes'[w], table, viewLock', w)
  BY <1>1, <1>3, <1>5, <1>7 DEF AloneOK
<1>11. /\ writes' \in [Writers -> [RowIds -> Texts \cup {Gone, Untouched}]]
       /\ \A i \in RowIds : writes'[w][i] = writes[w][i]
  BY <1>1, <1>2 DEF WriterOK
<1> QED
  <2>1. GoodStatement(w, r)
    BY <1>1, <1>3, <1>5, <1>6, <1>9, <1>10, <1>11 DEF GoodStatement, s
  <2> QED
    BY <2>1, StatementKeeps

\* The end of the UPDATE loop keeps the invariant: what remains to be inserted is what
\* has no updated id (glossary.py:98-111).
LEMMA UpdatedKeeps == ASSUME IInv, NEW w \in Writers, Updated(w) PROVE IInv'
<1> DEFINE s == tx[w]
           Enough == [s EXCEPT !.pc = "commit"]
           Rest   == [s EXCEPT !.pc = "insert", !.todo = ToInsert(s)]
<1>1. /\ s.pc = "update" /\ s.todo = {} /\ writes' = writes /\ viewLock' = viewLock
      /\ \/ s.updated = Positions(s.job) /\ Statement(w, Enough)
         \/ s.updated # Positions(s.job) /\ Statement(w, Rest)
  BY UpdatedMoves DEF IInv
<1>2. WriterOK(w, s)
  BY SessionFacts
<1>3. /\ writes' \in [Writers -> [RowIds -> Texts \cup {Gone, Untouched}]]
      /\ \A i \in RowIds : writes'[w][i] = writes[w][i]
  BY <1>1, <1>2 DEF WriterOK
<1> HIDE DEF s
<1>4. /\ IsBulk(s) /\ HasRead(s) /\ Stage(s) = "update" /\ BulkOK(s, writes[w])
      /\ s.job \in Jobs /\ s.updated \subseteq Positions(s.job)
  BY <1>1, <1>2 DEF WriterOK, SessionOK, HasRead, Stage
<1>5. Handled(s) = {k \in Positions(s.job) : HasId(s, k)} /\ Inserted(s) = {}
  BY <1>1, <1>4 DEF Handled, Inserted
<1>6. ASSUME NEW r, NEW stage \in {"insert", "commit"}, r.pc = stage, r.job = s.job,
             r.number = s.number, r.base = s.base, r.updated = s.updated
      PROVE  /\ HasRead(r) /\ IsBulk(r) /\ Stage(r) = stage /\ Handled(r) = Handled(s)
             /\ \A k : /\ TextAt(r, k) = TextAt(s, k) /\ HasId(r, k) = HasId(s, k)
                      /\ RowId(r, k) = RowId(s, k)
             /\ UpdatedIds(r) = UpdatedIds(s) /\ ToInsert(r) = ToInsert(s)
             /\ /\ Inserted(r) = {}
                /\ stage = "insert" => r.todo = ToInsert(s) /\ s.updated # Positions(s.job)
                => BulkOK(r, writes[w])
  <2>1. HasRead(r) /\ IsBulk(r) /\ Stage(r) = stage
    BY <1>4, <1>6 DEF HasRead, IsBulk, Stage
  <2>2. /\ \A k : /\ TextAt(r, k) = TextAt(s, k) /\ HasId(r, k) = HasId(s, k)
                  /\ RowId(r, k) = RowId(s, k)
        /\ UpdatedIds(r) = UpdatedIds(s) /\ ToInsert(r) = ToInsert(s)
    BY <1>6, SameRequest
  <2>3. Handled(r) = Handled(s)
    BY <1>5, <1>6, <2>1, <2>2 DEF Handled
  <2>4. ASSUME Inserted(r) = {},
               stage = "insert" => r.todo = ToInsert(s) /\ s.updated # Positions(s.job)
        PROVE  BulkOK(r, writes[w])
    BY <1>4, <1>5, <1>6, <2>1, <2>2, <2>3, <2>4 DEF BulkOK
  <2> QED
    BY <2>1, <2>2, <2>3, <2>4
<1>7. CASE s.updated = Positions(s.job) /\ Statement(w, Enough)
  <2>1. /\ Enough.pc = "commit" /\ Enough.job = s.job /\ Enough.number = s.number
        /\ Enough.alone = s.alone /\ Enough.base = s.base /\ Enough.since = s.since
        /\ Enough.todo = s.todo /\ Enough.updated = s.updated /\ Enough.snap = s.snap
    BY <1>2 DEF WriterOK, Sessions
  <2> HIDE DEF Enough
  <2>2. ToInsert(s) = {}
    BY <1>7 DEF ToInsert, UpdatedIds
  <2>3. Inserted(Enough) = {}
    BY <1>6, <2>1, <2>2 DEF Inserted
  <2>4. BulkOK(Enough, writes'[w])
    BY <1>1, <1>6, <2>1, <2>3
  <2>5. SessionOK(Enough, jobs)
    BY <1>1, <1>2, <1>4, <1>6, <2>1, SessionKept DEF WriterOK
  <2>6. Enough.alone => AloneOK(Enough, writes'[w], table, viewLock', w)
    <3>1. Handled(Enough) = Handled(s) /\ UpdatedIds(Enough) = UpdatedIds(s)
          /\ \A k : RowId(Enough, k) = RowId(s, k)
      BY <1>6, <2>1
    <3>2. Enough.alone => AloneOK(s, writes[w], table, viewLock, w)
      BY <1>2, <2>1 DEF WriterOK
    <3> QED
      BY <1>1, <1>4, <1>6, <2>1, <3>1, <3>2 DEF AloneOK
  <2>7. GoodStatement(w, Enough)
    BY <1>1, <1>3, <1>6, <1>7, <2>1, <2>4, <2>5, <2>6 DEF GoodStatement, s
  <2> QED
    BY <2>7, StatementKeeps
<1>8. CASE s.updated # Positions(s.job) /\ Statement(w, Rest)
  <2>1. /\ Rest.pc = "insert" /\ Rest.job = s.job /\ Rest.number = s.number
        /\ Rest.alone = s.alone /\ Rest.base = s.base /\ Rest.since = s.since
        /\ Rest.todo = ToInsert(s) /\ Rest.updated = s.updated /\ Rest.snap = s.snap
    BY <1>2 DEF WriterOK, Sessions
  <2> HIDE DEF Rest
  <2>2. ToInsert(s) \subseteq Positions(s.job)
    BY DEF ToInsert
  <2>3. Inserted(Rest) = {}
    BY <1>6, <2>1 DEF Inserted
  <2>4. BulkOK(Rest, writes'[w])
    BY <1>1, <1>6, <1>8, <2>1, <2>3
  <2>5. SessionOK(Rest, jobs)
    BY <1>1, <1>2, <1>4, <1>6, <2>1, <2>2, SessionKept DEF WriterOK
  <2>6. Rest.alone => AloneOK(Rest, writes'[w], table, viewLock', w)
    <3>1. Handled(Rest) = Handled(s) /\ UpdatedIds(Rest) = UpdatedIds(s)
          /\ \A k : RowId(Rest, k) = RowId(s, k)
      BY <1>6, <2>1
    <3>2. Rest.alone => AloneOK(s, writes[w], table, viewLock, w)
      BY <1>2, <2>1 DEF WriterOK
    <3> QED
      BY <1>1, <1>4, <1>6, <2>1, <3>1, <3>2 DEF AloneOK
  <2>7. GoodStatement(w, Rest)
    BY <1>1, <1>3, <1>6, <1>8, <2>1, <2>4, <2>5, <2>6 DEF GoodStatement, s
  <2> QED
    BY <2>7, StatementKeeps
<1> QED
  BY <1>1, <1>7, <1>8

\* A round of the UPDATE loop keeps the invariant: a row that is written is the one of
\* the last element so far with its id, and one that is passed over was not there.
LEMMA UpdateKeeps == ASSUME IInv, NEW w \in Writers, Update(w) PROVE IInv'
<1> DEFINE s == tx[w]
           k == First(s.todo)
           i == RowId(s, k)
           Missed == [s EXCEPT !.pc = "snapshot", !.next = "update", !.todo = @ \ {k}]
           Hit    == [s EXCEPT !.pc = "snapshot", !.next = "update",
                               !.todo = @ \ {k}, !.updated = @ \cup {k}]
<1>1. /\ s.pc = "update" /\ s.todo # {} /\ viewLock' = viewLock
      /\ \/ /\ Visible(w)[i] = Gone /\ writes' = writes /\ Statement(w, Missed)
         \/ /\ Visible(w)[i] # Gone /\ Free(w, i) /\ Statement(w, Hit)
            /\ writes' = [writes EXCEPT ![w][i] = TextAt(s, k)]
  BY UpdateMoves DEF IInv
<1>2. WriterOK(w, s)
  BY SessionFacts
<1> HIDE DEF s
<1>3. /\ IsBulk(s) /\ HasRead(s) /\ Stage(s) = "update" /\ BulkOK(s, writes[w])
      /\ s.job \in Jobs /\ s.updated \subseteq Positions(s.job) /\ s.todo \subseteq Positions(s.job)
      /\ s.todo \in SUBSET (1..MaxItems)
  BY <1>1, <1>2 DEF WriterOK, SessionOK, HasRead, Stage, Sessions
<1>4. k \in s.todo /\ \A m \in s.todo : k <= m
  BY <1>1, <1>3, FirstIsLeast
<1> HIDE DEF k
<1>5. /\ k \in Positions(s.job) /\ Positions(s.job) \subseteq 1..MaxItems /\ HasId(s, k)
      /\ i \in RowIds /\ TextAt(s, k) \in Texts
      /\ \A m \in Handled(s) : m < k /\ m \in Positions(s.job)
      /\ \A m \in Positions(s.job) : TextAt(s, m) \in Texts
  <2>1. \A m \in Positions(s.job) : RowId(s, m) \in RowIds /\ TextAt(s, m) \in Texts
    BY <1>2, <1>3, RowFacts DEF WriterOK, HasRead
  <2> QED
    BY <1>3, <1>4, <2>1, JobFacts DEF BulkOK, Handled
<1> HIDE DEF i
<1>6. Handled(s) = {m \in Positions(s.job) : HasId(s, m) /\ m \notin s.todo} /\ Inserted(s) = {}
  BY <1>3 DEF Handled, Inserted
<1>7. ASSUME NEW r, r.pc = "snapshot", r.next = "update", r.job = s.job, r.number = s.number,
             r.todo = s.todo \ {k}
      PROVE  /\ HasRead(r) /\ IsBulk(r) /\ Stage(r) = "update"
             /\ Handled(r) = Handled(s) \cup {k} /\ Inserted(r) = {}
             /\ \A m : /\ TextAt(r, m) = TextAt(s, m) /\ HasId(r, m) = HasId(s, m)
                      /\ RowId(r, m) = RowId(s, m)
             /\ \A m \in r.todo : HasId(r, m) /\ \A n \in Handled(r) : n < m
  <2>1. HasRead(r) /\ IsBulk(r) /\ Stage(r) = "update"
    BY <1>3, <1>7 DEF HasRead, IsBulk, Stage
  <2>2. \A m : /\ TextAt(r, m) = TextAt(s, m) /\ HasId(r, m) = HasId(s, m)
              /\ RowId(r, m) = RowId(s, m)
    BY <1>7, SameRequest
  <2>3. Handled(r) = Handled(s) \cup {k} /\ Inserted(r) = {}
    BY <1>4, <1>5, <1>6, <1>7, <2>1, <2>2 DEF Handled, Inserted
  <2>4. \A m \in r.todo : HasId(r, m) /\ \A n \in Handled(r) : n < m
    <3> SUFFICES ASSUME NEW m \in s.todo, m # k
                 PROVE  HasId(s, m) /\ \A n \in Handled(s) \cup {k} : n < m
      BY <1>7, <2>2, <2>3
    <3>1. HasId(s, m) /\ \A n \in Handled(s) : n < m
      BY <1>3 DEF BulkOK
    <3>2. k < m
      BY <1>3, <1>4
    <3> QED
      BY <3>1, <3>2
  <2> QED
    BY <2>1, <2>2, <2>3, <2>4
<1>8. \A m \in Handled(s) : RowId(s, m) \in UpdatedIds(s) =>
        \E n \in s.updated : /\ n >= m /\ RowId(s, n) = RowId(s, m)
                             /\ writes[w][RowId(s, m)] = TextAt(s, n)
  BY <1>3 DEF BulkOK
<1>9. CASE Visible(w)[i] = Gone /\ writes' = writes /\ Statement(w, Missed)
  <2>1. /\ Missed.pc = "snapshot" /\ Missed.next = "update" /\ Missed.job = s.job
        /\ Missed.number = s.number /\ Missed.alone = s.alone /\ Missed.base = s.base
        /\ Missed.since = s.since /\ Missed.todo = s.todo \ {k} /\ Missed.updated = s.updated
        /\ Missed.snap = s.snap
    BY <1>2 DEF WriterOK, Sessions
  <2> HIDE DEF Missed
  <2>2. UpdatedIds(Missed) = UpdatedIds(s)
    BY <2>1, SameRequest
  <2>3. i \notin UpdatedIds(s) /\ table[i] = Gone
    <3>1. writes[w][i] \in {Untouched, Gone} /\ (writes[w][i] = Untouched => table[i] = Gone)
      BY <1>2, <1>5, <1>9 DEF WriterOK, Over
    <3>2. writes[w][i] \notin Texts
      BY <3>1, NamesAssumption
    <3>3. i \notin UpdatedIds(s)
      <4> SUFFICES ASSUME NEW m \in s.updated, RowId(s, m) = i
                   PROVE  FALSE
        BY DEF UpdatedIds
      <4>1. m \in Handled(s) /\ RowId(s, m) \in UpdatedIds(s)
        BY <1>3 DEF BulkOK, UpdatedIds
      <4>2. PICK n \in s.updated : writes[w][i] = TextAt(s, n)
        BY <1>8, <4>1
      <4> QED
        BY <1>3, <1>5, <3>2, <4>2
    <3>4. writes[w][i] = Untouched
      <4> SUFFICES ASSUME writes[w][i] # Untouched
                   PROVE  FALSE
        OBVIOUS
      <4>1. PICK m \in s.updated \cup Inserted(s) : writes[w][i] = TextAt(s, m)
        BY <1>3, <1>5 DEF BulkOK
      <4> QED
        BY <1>3, <1>5, <1>6, <3>2, <4>1
    <3> QED
      BY <3>1, <3>3, <3>4
  <2>4. BulkOK(Missed, writes'[w])
    <3>1. \A m \in Handled(Missed) : RowId(Missed, m) \in UpdatedIds(Missed) =>
            \E n \in Missed.updated : /\ n >= m /\ RowId(Missed, n) = RowId(Missed, m)
                                     /\ writes[w][RowId(Missed, m)] = TextAt(Missed, n)
      BY <1>7, <1>8, <2>1, <2>2, <2>3 DEF i
    <3> QED
      BY <1>3, <1>6, <1>7, <1>9, <2>1, <3>1 DEF BulkOK
  <2>5. SessionOK(Missed, jobs)
    BY <1>1, <1>2, <1>3, <1>7, <2>1, SessionKept DEF WriterOK
  <2>6. Missed.alone => AloneOK(Missed, writes'[w], table, viewLock', w)
    <3>1. Missed.alone => AloneOK(s, writes[w], table, viewLock, w)
      BY <1>2, <2>1 DEF WriterOK
    <3> QED
      BY <1>1, <1>3, <1>7, <2>1, <2>2, <2>3, <3>1 DEF AloneOK, i
  <2>7. GoodStatement(w, Missed)
    <3>1. /\ writes' \in [Writers -> [RowIds -> Texts \cup {Gone, Untouched}]]
          /\ \A j \in RowIds : writes'[w][j] = writes[w][j]
      BY <1>2, <1>9 DEF WriterOK
    <3> QED
      BY <1>1, <1>7, <1>9, <2>1, <2>4, <2>5, <2>6, <3>1 DEF GoodStatement, s
  <2> QED
    BY <2>7, StatementKeeps
<1>10. CASE /\ Visible(w)[i] # Gone /\ Free(w, i) /\ Statement(w, Hit)
            /\ writes' = [writes EXCEPT ![w][i] = TextAt(s, k)]
  <2>1. /\ Hit.pc = "snapshot" /\ Hit.next = "update" /\ Hit.job = s.job
        /\ Hit.number = s.number /\ Hit.alone = s.alone /\ Hit.base = s.base
        /\ Hit.since = s.since /\ Hit.todo = s.todo \ {k} /\ Hit.updated = s.updated \cup {k}
        /\ Hit.snap = s.snap
    BY <1>2 DEF WriterOK, Sessions
  <2> HIDE DEF Hit
  <2>2. UpdatedIds(Hit) = UpdatedIds(s) \cup {i}
    BY <1>7, <2>1 DEF UpdatedIds, i
  <2>3. /\ writes'[w][i] = TextAt(s, k)
        /\ \A j \in RowIds : j # i => writes'[w][j] = writes[w][j]
        /\ writes' \in [Writers -> [RowIds -> Texts \cup {Gone, Untouched}]]
    BY <1>2, <1>5, <1>10 DEF WriterOK
  <2>4. BulkOK(Hit, writes'[w])
    <3>1. ASSUME NEW m \in Handled(Hit), RowId(Hit, m) \in UpdatedIds(Hit)
          PROVE  \E n \in Hit.updated : /\ n >= m /\ RowId(Hit, n) = RowId(Hit, m)
                                        /\ writes'[w][RowId(Hit, m)] = TextAt(Hit, n)
      <4>1. CASE RowId(s, m) = i
        <5>1. k \in Hit.updated /\ k >= m
          BY <1>3, <1>5, <1>7, <2>1, <3>1
        <5>2. RowId(Hit, k) = RowId(Hit, m) /\ writes'[w][RowId(Hit, m)] = TextAt(Hit, k)
          BY <1>7, <2>1, <2>3, <4>1 DEF i
        <5> QED
          BY <5>1, <5>2
      <4>2. CASE RowId(s, m) # i
        <5>1. m \in Handled(s) /\ RowId(s, m) \in UpdatedIds(s) /\ RowId(s, m) \in RowIds
          <6>1. m \in Handled(s) /\ RowId(s, m) \in UpdatedIds(s)
            BY <1>7, <2>1, <2>2, <3>1, <4>2 DEF i
          <6>2. m \in Positions(s.job)
            BY <1>5, <6>1
          <6> QED
            BY <1>2, <1>3, <6>1, <6>2, RowFacts DEF WriterOK, HasRead
        <5>2. PICK n \in s.updated : /\ n >= m /\ RowId(s, n) = RowId(s, m)
                                     /\ writes[w][RowId(s, m)] = TextAt(s, n)
          BY <1>8, <5>1
        <5> QED
          BY <1>7, <2>1, <2>3, <4>2, <5>1, <5>2
      <4> QED
        BY <4>1, <4>2
    <3>2. \A j \in RowIds : writes'[w][j] # Untouched =>
            \E n \in Hit.updated \cup Inserted(Hit) :
                j = RowId(Hit, n) /\ writes'[w][j] = TextAt(Hit, n)
      <4> SUFFICES ASSUME NEW j \in RowIds, writes'[w][j] # Untouched
                   PROVE  \E n \in Hit.updated : j = RowId(s, n) /\ writes'[w][j] = TextAt(s, n)
        BY <1>7, <2>1
      <4>1. CASE j = i
        BY <2>1, <2>3, <4>1 DEF i
      <4>2. CASE j # i
        <5>1. writes'[w][j] = writes[w][j]
          BY <2>3, <4>2
        <5>2. PICK n \in s.updated \cup Inserted(s) : j = RowId(s, n) /\ writes[w][j] = TextAt(s, n)
          BY <1>3, <5>1 DEF BulkOK
        <5> QED
          BY <1>6, <2>1, <5>1, <5>2
      <4> QED
        BY <4>1, <4>2
    <3>3. Hit.updated \subseteq Handled(Hit)
      BY <1>3, <1>7, <2>1 DEF BulkOK
    <3>4. \A m \in Positions(Hit.job) : TextAt(Hit, m) \notin Values(Hit.base)
      BY <1>3, <1>7, <2>1 DEF BulkOK
    <3> QED
      BY <1>7, <2>1, <3>1, <3>2, <3>3, <3>4 DEF BulkOK
  <2>5. SessionOK(Hit, jobs)
    BY <1>1, <1>2, <1>3, <1>5, <1>7, <2>1, SessionKept DEF WriterOK
  <2>6. Hit.alone => AloneOK(Hit, writes'[w], table, viewLock', w)
    <3>1. Hit.alone => AloneOK(s, writes[w], table, viewLock, w)
      BY <1>2, <2>1 DEF WriterOK
    <3> QED
      BY <1>1, <1>3, <1>7, <2>1, <2>2, <3>1 DEF AloneOK, i
  <2>7. NobodysUuid(w, i)
    <3>1. k \in DOMAIN s.job.elements /\ i = s.job.elements[k].id
      BY <1>3, <1>5, JobFacts DEF RowId, IsBulk, i
    <3>2. s.number <= jobs /\ s.number \in Int /\ jobs \in Int
      BY <1>1, <1>2 DEF WriterOK, SessionOK
    <3> SUFFICES ASSUME NEW n \in 1..MaxJobs, NEW m \in 1..MaxItems, i = <<n, m>>
                 PROVE  n <= jobs /\ \A u \in Writers \ {w} : tx[u].number # n
      BY DEF NobodysUuid
    <3>3. n < s.number /\ \A u \in Writers : tx[u].number # n
      BY <1>3, <3>1 DEF IInv, NumberInv, UuidsUnknown, s
    <3> QED
      BY <3>2, <3>3, BoundAssumption
  <2>8. GoodStatement(w, Hit)
    BY <1>1, <1>7, <1>10, <2>1, <2>3, <2>4, <2>5, <2>6, <2>7 DEF GoodStatement, s
  <2> QED
    BY <2>8, StatementKeeps
<1> QED
  BY <1>1, <1>9, <1>10

\* One more row of a bulk request's INSERT: no element before had its id.
LEMMA InsertKeepsBulk ==
    ASSUME NEW s \in Sessions, NEW r \in Sessions, NEW wrote, NEW wrote2, NEW k \in s.todo,
           s.job \in Jobs, s.number \in 1..MaxJobs, s.updated \subseteq Positions(s.job),
           IsBulk(s), BulkOK(s, wrote), Stage(s) = "insert",
           wrote \in [RowIds -> Texts \cup {Gone, Untouched}],
           wrote[RowId(s, k)] \in {Gone, Untouched},
           wrote2 = [wrote EXCEPT ![RowId(s, k)] = TextAt(s, k)],
           r.job = s.job, r.number = s.number, r.base = s.base, r.updated = s.updated,
           r.todo = s.todo \ {k},
           Stage(r) = IF r.todo = {} THEN "commit" ELSE "insert"
    PROVE  BulkOK(r, wrote2) /\ Handled(r) = Handled(s)
<1> DEFINE i == RowId(s, k)
<1>1. /\ \A m : /\ TextAt(r, m) = TextAt(s, m) /\ HasId(r, m) = HasId(s, m)
                /\ RowId(r, m) = RowId(s, m)
      /\ UpdatedIds(r) = UpdatedIds(s) /\ ToInsert(r) = ToInsert(s)
  BY SameRequest
<1>2. k \in ToInsert(s) /\ s.todo \subseteq ToInsert(s) /\ i \notin UpdatedIds(s)
  BY DEF BulkOK, ToInsert
<1>3. \A m \in Positions(s.job) : RowId(s, m) \in RowIds /\ TextAt(s, m) \in Texts
  BY RowFacts
<1>4. k \in Positions(s.job) /\ ToInsert(s) \subseteq Positions(s.job)
  BY <1>2 DEF ToInsert
<1>5. /\ wrote2[i] = TextAt(s, k)
      /\ \A j \in RowIds : j # i => wrote2[j] = wrote[j]
      /\ wrote[i] \notin Texts
  BY <1>3, <1>4, NamesAssumption
<1> HIDE DEF i
<1>6. Handled(r) = Handled(s)
  BY <1>1 DEF Handled
<1>7. Inserted(r) = Inserted(s) \cup {k}
  BY <1>1, <1>2 DEF Inserted
<1>8. Inserted(s) \subseteq Positions(s.job) /\ Handled(s) \subseteq Positions(s.job)
  BY <1>4 DEF Inserted, Handled
<1>9. \A h \in Handled(r) : RowId(r, h) \in UpdatedIds(r) =>
        \E n \in r.updated : /\ n >= h /\ RowId(r, n) = RowId(r, h)
                             /\ wrote2[RowId(r, h)] = TextAt(r, n)
  <2> SUFFICES ASSUME NEW h \in Handled(s), RowId(s, h) \in UpdatedIds(s)
               PROVE  \E n \in s.updated : /\ n >= h /\ RowId(s, n) = RowId(s, h)
                                           /\ wrote2[RowId(s, h)] = TextAt(s, n)
    BY <1>1, <1>6
  <2>1. RowId(s, h) # i /\ RowId(s, h) \in RowIds
    BY <1>2, <1>3, <1>8
  <2>2. PICK n \in s.updated : /\ n >= h /\ RowId(s, n) = RowId(s, h)
                               /\ wrote[RowId(s, h)] = TextAt(s, n)
    BY DEF BulkOK
  <2> QED
    BY <1>5, <2>1, <2>2
<1>10. \A h \in Inserted(r) : wrote2[RowId(r, h)] = TextAt(r, h)
  <2> SUFFICES ASSUME NEW h \in Inserted(s) \cup {k}
               PROVE  wrote2[RowId(s, h)] = TextAt(s, h)
    BY <1>1, <1>7
  <2>1. CASE h = k
    BY <1>5, <2>1 DEF i
  <2>2. CASE h \in Inserted(s)
    <3>1. wrote[RowId(s, h)] = TextAt(s, h) /\ TextAt(s, h) \in Texts /\ RowId(s, h) \in RowIds
      BY <1>3, <1>8, <2>2 DEF BulkOK
    <3> QED
      BY <1>5, <3>1
  <2> QED
    BY <2>1, <2>2
<1>11. \A j \in RowIds : wrote2[j] # Untouched =>
         \E n \in r.updated \cup Inserted(r) : j = RowId(r, n) /\ wrote2[j] = TextAt(r, n)
  <2> SUFFICES ASSUME NEW j \in RowIds, wrote2[j] # Untouched
               PROVE  \E n \in s.updated \cup Inserted(s) \cup {k} :
                         j = RowId(s, n) /\ wrote2[j] = TextAt(s, n)
    BY <1>1, <1>7
  <2>1. CASE j = i
    BY <1>5, <2>1 DEF i
  <2>2. CASE j # i
    <3>1. PICK n \in s.updated \cup Inserted(s) : j = RowId(s, n) /\ wrote[j] = TextAt(s, n)
      BY <1>5, <2>2 DEF BulkOK
    <3> QED
      BY <1>5, <2>2, <3>1
  <2> QED
    BY <2>1, <2>2
<1>12. Stage(r) = "insert" => r.todo \subseteq ToInsert(r) /\ r.todo # {}
  BY <1>1, <1>2
<1>13. \A m \in Positions(r.job) : TextAt(r, m) \notin Values(r.base)
  BY <1>1 DEF BulkOK
<1>14. r.updated \subseteq Handled(r) /\ Stage(r) # "update"
  BY <1>6 DEF BulkOK
<1> QED
  BY <1>6, <1>9, <1>10, <1>11, <1>12, <1>13, <1>14 DEF BulkOK

\* One more row of a refresh's INSERT: its uuid4 was in nobody's hands.
LEMMA InsertKeepsSync ==
    ASSUME NEW s \in Sessions, NEW r \in Sessions, NEW wrote, NEW wrote2, NEW t \in Rows,
           NEW k \in s.todo, s.job \in Jobs, s.number \in 1..MaxJobs, k \in Positions(s.job),
           ~IsBulk(s), SyncOK(s, wrote, t), Stage(s) = "insert", HasRead(s),
           wrote \in [RowIds -> Texts \cup {Gone, Untouched}],
           t[RowId(s, k)] = Gone,
           wrote2 = [wrote EXCEPT ![RowId(s, k)] = TextAt(s, k)],
           r.job = s.job, r.number = s.number, r.base = s.base, r.missing = s.missing,
           r.since = s.since, r.victims = s.victims, r.todo = s.todo \ {k},
           Stage(r) = IF r.todo = {} THEN "commit" ELSE "insert"
    PROVE  SyncOK(r, wrote2, t)
<1> DEFINE i == RowId(s, k)
<1>1. \A m : TextAt(r, m) = TextAt(s, m)
  BY SameRequest
<1>2. i = <<s.number, k>> /\ i \in RowIds /\ TextAt(s, k) \in Texts
  BY RowFacts DEF HasId, IsBulk
<1>3. /\ wrote2[i] = TextAt(s, k) /\ t[i] = Gone
      /\ \A j \in RowIds : j # i => wrote2[j] = wrote[j]
  BY <1>2
<1> HIDE DEF i
<1>4. /\ r.missing = Values(r.base) \ {TextAt(r, m) : m \in Positions(r.job)}
      /\ \A m \in r.todo : TextAt(r, m) \notin Values(r.base)
      /\ Stage(r) = "insert" => r.todo # {}
      /\ Stage(r) \notin {"delete", "deleting"}
  BY <1>1 DEF SyncOK
<1>5. Gone \notin s.missing
  BY DEF SyncOK, Values
<1>6. ASSUME NEW j \in RowIds
      PROVE  /\ wrote2[j] = Gone => t[j] \in r.missing
             /\ wrote2[j] \in Texts =>
                 \E m \in Positions(r.job) \ r.todo :
                    /\ j = <<r.number, m>>
                    /\ wrote2[j] = TextAt(r, m) /\ TextAt(r, m) \notin Values(r.base)
             /\ j \notin r.since =>
                 /\ t[j] = r.base[j]
                 /\ t[j] \in r.missing => wrote2[j] = Gone
  <2>1. CASE j = i
    <3>1. wrote2[j] # Gone
      BY <1>2, <1>3, <2>1, NamesAssumption
    <3>2. /\ k \in Positions(r.job) \ r.todo /\ j = <<r.number, k>>
          /\ wrote2[j] = TextAt(r, k) /\ TextAt(r, k) \notin Values(r.base)
      BY <1>1, <1>2, <1>3, <2>1 DEF SyncOK
    <3>3. j \notin r.since => t[j] = r.base[j]
      BY DEF SyncOK
    <3> QED
      BY <1>3, <1>5, <2>1, <3>1, <3>2, <3>3
  <2>2. CASE j # i
    <3>1. wrote2[j] = wrote[j]
      BY <1>3, <2>2
    <3> QED
      BY <1>1, <3>1 DEF SyncOK
  <2> QED
    BY <2>1, <2>2
<1> QED
  BY <1>4, <1>6 DEF SyncOK

\* A row of INSERT keeps the invariant, for bulk requests and for refreshes.
LEMMA InsertKeeps ==
    ASSUME IInv, NEW w \in Writers, Insert(w), ~RollBack(w, "conflict")
    PROVE  IInv'
<1> DEFINE s == tx[w]
           k == First(s.todo)
           i == RowId(s, k)
           rest == s.todo \ {k}
           Last == [s EXCEPT !.todo = rest, !.next = "commit", !.pc = "snapshot"]
           More == [s EXCEPT !.todo = rest, !.next = "commit", !.pc = "insert"]
<1>1. /\ s.pc = "insert" /\ s.todo # {} /\ Free(w, i) /\ Visible(w)[i] = Gone
      /\ viewLock' = viewLock /\ writes' = [writes EXCEPT ![w][i] = TextAt(s, k)]
      /\ (rest = {} /\ Statement(w, Last)) \/ (rest # {} /\ Statement(w, More))
  BY InsertMoves DEF IInv
<1>2. WriterOK(w, s)
  BY SessionFacts
<1> HIDE DEF s
<1>3. /\ HasRead(s) /\ Stage(s) = "insert" /\ s.job \in Jobs /\ s.number \in 1..MaxJobs
      /\ s.updated \subseteq Positions(s.job) /\ s.todo \subseteq Positions(s.job)
      /\ s.todo \in SUBSET (1..MaxItems) /\ s \in Sessions
  BY <1>1, <1>2 DEF WriterOK, SessionOK, HasRead, Stage, Sessions
<1>4. k \in s.todo
  BY <1>1, <1>3, FirstIsLeast
<1> HIDE DEF k
<1>5. i \in RowIds /\ TextAt(s, k) \in Texts
  BY <1>3, <1>4, RowFacts
<1>6. writes[w][i] \in {Gone, Untouched}
  BY <1>1, <1>2, <1>5 DEF WriterOK, Over
<1>7. /\ writes' \in [Writers -> [RowIds -> Texts \cup {Gone, Untouched}]]
      /\ writes'[w] = [writes[w] EXCEPT ![i] = TextAt(s, k)]
      /\ \A j \in RowIds : j # i => writes'[w][j] = writes[w][j]
  BY <1>1, <1>2, <1>5 DEF WriterOK
<1> HIDE DEF i
<1>8. s.number <= jobs /\ NobodysUuid(w, i)
  <2>1. s.number <= jobs /\ s.number \in Int /\ jobs \in Int
    BY <1>1, <1>2 DEF WriterOK, SessionOK
  <2> SUFFICES ASSUME NEW n \in 1..MaxJobs, NEW m \in 1..MaxItems, i = <<n, m>>
               PROVE  n <= jobs /\ \A u \in Writers \ {w} : tx[u].number # n
    BY <2>1 DEF NobodysUuid
  <2>2. CASE HasId(s, k)
    <3>1. IsBulk(s) /\ k \in DOMAIN s.job.elements /\ i = s.job.elements[k].id
      BY <1>3, <1>4, <2>2, JobFacts DEF RowId, IsBulk, i, HasId
    <3>2. n < s.number /\ \A u \in Writers : tx[u].number # n
      BY <3>1 DEF IInv, NumberInv, UuidsUnknown, s
    <3> QED
      BY <2>1, <3>2, BoundAssumption
  <2>3. CASE ~HasId(s, k)
    <3>1. n = s.number
      BY <2>3 DEF RowId, i
    <3>2. \A u \in Writers \ {w} : tx[u].number # s.number
      BY <1>1 DEF IInv, NumberInv, NumbersDiffer, s
    <3> QED
      BY <2>1, <3>1, <3>2
  <2> QED
    BY <2>2, <2>3
<1>9. ASSUME NEW r, r \in {Last, More}, Statement(w, r), rest = {} => r = Last, rest # {} => r = More
      PROVE  IInv'
  <2>1. /\ r.pc \in {"snapshot", "insert"} /\ r.next = "commit" /\ r.job = s.job
        /\ r.number = s.number /\ r.alone = s.alone /\ r.base = s.base /\ r.since = s.since
        /\ r.todo = rest /\ r.updated = s.updated /\ r.missing = s.missing
        /\ r.victims = s.victims /\ (rest = {} <=> r.pc = "snapshot")
    BY <1>3, <1>9 DEF Sessions
  <2> HIDE DEF Last, More
  <2>2. r \in Sessions
    BY <1>9 DEF Statement
  <2>3. HasRead(r) /\ (IsBulk(r) <=> IsBulk(s)) /\ Stage(r) = IF r.todo = {} THEN "commit" ELSE "insert"
    BY <2>1 DEF HasRead, IsBulk, Stage
  <2>4. SessionOK(r, jobs)
    BY <1>1, <1>2, <1>3, <2>1, <2>3, SessionKept DEF WriterOK
  <2>5. IsBulk(s) => BulkOK(r, writes'[w]) /\ Handled(r) = Handled(s)
    <3> SUFFICES ASSUME IsBulk(s) PROVE BulkOK(r, writes'[w]) /\ Handled(r) = Handled(s)
      OBVIOUS
    <3>1. /\ BulkOK(s, writes[w])
          /\ writes[w] \in [RowIds -> Texts \cup {Gone, Untouched}]
      BY <1>2, <1>3 DEF WriterOK
    <3>2. r.todo = s.todo \ {k}
      BY <2>1
    <3> HIDE DEF rest
    <3> QED
      BY <1>3, <1>4, <1>6, <1>7, <2>1, <2>2, <2>3, <3>1, <3>2, InsertKeepsBulk DEF i
  <2>6. ~IsBulk(s) => SyncOK(r, writes'[w], table)
    <3> SUFFICES ASSUME ~IsBulk(s) PROVE SyncOK(r, writes'[w], table)
      OBVIOUS
    <3>1. i = <<s.number, k>> /\ k \in 1..MaxItems
      BY <1>3, <1>4 DEF i, RowId, HasId, IsBulk
    <3>2. table[i] = Gone
      BY <1>3, <3>1 DEF IInv, NumberInv, UuidsFree, s
    <3> QED
      BY <1>2, <1>3, <1>4, <1>7, <2>1, <2>2, <2>3, <3>2, InsertKeepsSync DEF WriterOK, i
  <2>7. r.alone => AloneOK(r, writes'[w], table, viewLock', w)
    <3>1. r.alone => AloneOK(s, writes[w], table, viewLock, w)
      BY <1>2, <2>1 DEF WriterOK
    <3>2. UpdatedIds(r) = UpdatedIds(s) /\ \A m : RowId(r, m) = RowId(s, m)
      BY <2>1, SameRequest
    <3> QED
      BY <1>3, <2>1, <2>3, <2>5, <3>1, <3>2 DEF AloneOK
  <2>8. GoodStatement(w, r)
    <3>1. \A j \in RowIds : writes'[w][j] = writes[w][j] \/ (Free(w, j) /\ NobodysUuid(w, j))
      BY <1>1, <1>7, <1>8 DEF i
    <3> QED
      BY <1>1, <1>7, <1>9, <2>1, <2>3, <2>4, <2>5, <2>6, <2>7, <3>1 DEF GoodStatement, s
  <2> QED
    BY <2>8, StatementKeeps
<1> QED
  BY <1>1, <1>9

\* The comparison of a refresh keeps the invariant: what it will delete is what it saw
\* and the sheet lacks, what it will insert is what it did not see.
LEMMA SelectKeeps == ASSUME IInv, NEW w \in Writers, Select(w) PROVE IInv'
<1> DEFINE s == tx[w]
           missing == Values(table) \ {TextAt(s, k) : k \in Positions(s.job)}
           added   == {k \in Positions(s.job) : TextAt(s, k) \notin Values(table)}
           r == [s EXCEPT !.base = table, !.missing = missing, !.todo = added,
                          !.pc = FirstStatement(missing, added)]
<1>1. /\ s.pc = "select" /\ ~IsBulk(s) /\ writes' = writes /\ viewLock' = viewLock
      /\ Statement(w, r)
  BY SelectMoves, Zenon DEF IInv
<1>2. WriterOK(w, s)
  BY SessionFacts
<1> HIDE DEF s
<1>3. /\ added \subseteq Positions(s.job)
      /\ \A k \in added : TextAt(s, k) \notin Values(table)
      /\ Gone \notin missing
  BY DEF Values
<1>4. missing = Values(table) \ {TextAt(s, k) : k \in Positions(s.job)}
  OBVIOUS
<1> HIDE DEF missing, added
<1>5. /\ r.base = table /\ r.missing = missing /\ r.todo = added
      /\ r.pc = FirstStatement(missing, added) /\ r.job = s.job /\ r.number = s.number
      /\ r.alone = s.alone /\ r.since = s.since /\ r.updated = s.updated
  BY <1>2 DEF WriterOK, Sessions
<1> HIDE DEF r
<1>6. /\ s.job \in Jobs /\ s.since = {} /\ s.updated = {} /\ writes[w] = Clean
      /\ HasRead(r) /\ ~IsBulk(r) /\ Stage(r) \in {"delete", "insert", "commit"} /\ r.pc = Stage(r)
      /\ Stage(r) = "delete" => missing # {}
      /\ Stage(r) = "insert" => added # {} /\ missing = {}
      /\ Stage(r) = "commit" => added = {} /\ missing = {}
  BY <1>1, <1>2, <1>5 DEF WriterOK, SessionOK, HasRead, IsBulk, Stage, FirstStatement
<1>7. \A k : TextAt(r, k) = TextAt(s, k)
  BY <1>5, SameRequest
<1>8. SessionOK(r, jobs)
  BY <1>1, <1>2, <1>3, <1>5, <1>6, SessionKept DEF WriterOK, SessionOK
<1>9. SyncOK(r, writes'[w], table)
  <2>1. \A i \in RowIds : writes'[w][i] = Untouched
    BY <1>1, <1>6 DEF Clean
  <2>2. \A i \in RowIds : writes'[w][i] # Gone /\ writes'[w][i] \notin Texts
    BY <2>1, NamesAssumption
  <2> QED
    BY <1>3, <1>4, <1>5, <1>6, <1>7, <2>2 DEF SyncOK
<1>10. AloneOK(r, writes'[w], table, viewLock', w)
  BY <1>1, <1>5, <1>6 DEF AloneOK
<1>11. /\ writes' \in [Writers -> [RowIds -> Texts \cup {Gone, Untouched}]]
       /\ \A i \in RowIds : writes'[w][i] = writes[w][i]
  BY <1>1, <1>2 DEF WriterOK
<1> QED
  <2>1. GoodStatement(w, r)
    BY <1>1, <1>5, <1>6, <1>8, <1>9, <1>10, <1>11 DEF GoodStatement, s
  <2> QED
    BY <2>1, StatementKeeps

\* What a step of DELETE keeps: the rest of the session is as it was.
LEMMA DeletingKeeps ==
    ASSUME IInv, NEW w \in Writers, NEW r, Statement(w, r), viewLock' = viewLock,
           ~IsBulk(tx[w]), tx[w].pc \in {"delete", "deleting"},
           r.job = tx[w].job, r.number = tx[w].number, r.alone = tx[w].alone,
           r.base = tx[w].base, r.since = tx[w].since, r.todo = tx[w].todo,
           r.updated = tx[w].updated, r.missing = tx[w].missing,
           Stage(r) \in {"deleting", "insert", "commit", "not_found"},
           r.pc \in {"deleting", "snapshot"},
           Stage(r) = "commit" => r.todo = {}, Stage(r) = "insert" => r.todo # {},
           writes' \in [Writers -> [RowIds -> Texts \cup {Gone, Untouched}]],
           \A i \in RowIds : \/ writes'[w][i] = writes[w][i]
                            \/ /\ writes'[w][i] = Gone /\ Free(w, i)
                               /\ table[i] \in tx[w].missing,
           \A i \in RowIds \ tx[w].since : table[i] \in tx[w].missing =>
               writes'[w][i] = Gone \/ (Stage(r) = "deleting" /\ i \in r.victims),
           r.alone => /\ Stage(r) # "not_found"
                      /\ Stage(r) = "deleting" =>
                           r.hit \/ \A i \in RowIds : table[i] \in r.missing => i \in r.victims
    PROVE  IInv'
<1> DEFINE s == tx[w]
<1>1. WriterOK(w, s)
  BY SessionFacts
<1>2. /\ HasRead(s) /\ s.pc # "idle" /\ Stage(s) = s.pc /\ SyncOK(s, writes[w], table)
      /\ s.todo \subseteq Positions(s.job) /\ s.updated \subseteq Positions(s.job)
  BY <1>1 DEF WriterOK, HasRead, Stage, SessionOK
<1>3. HasRead(r) /\ ~IsBulk(r) /\ \A k : TextAt(r, k) = TextAt(s, k)
  <2>1. \A k : TextAt(r, k) = TextAt(s, k)
    BY DEF TextAt
  <2> QED
    BY <2>1 DEF HasRead, IsBulk
<1>4. SessionOK(r, jobs)
  BY <1>1, <1>2, <1>3, SessionKept DEF WriterOK
<1>5. SyncOK(r, writes'[w], table)
  <2>1. /\ r.missing = Values(r.base) \ {TextAt(r, k) : k \in Positions(r.job)}
        /\ \A k \in r.todo : TextAt(r, k) \notin Values(r.base)
        /\ Stage(r) \in {"delete", "deleting"} => r.missing # {}
    BY <1>2, <1>3 DEF SyncOK
  <2>2. ASSUME NEW i \in RowIds
        PROVE  /\ writes'[w][i] = Gone => table[i] \in r.missing
               /\ writes'[w][i] \in Texts =>
                   \E k \in Positions(r.job) \ r.todo :
                       /\ i = <<r.number, k>>
                       /\ writes'[w][i] = TextAt(r, k) /\ TextAt(r, k) \notin Values(r.base)
               /\ i \notin r.since => table[i] = r.base[i]
    <3>1. CASE writes'[w][i] = writes[w][i]
      BY <1>2, <1>3, <3>1 DEF SyncOK
    <3>2. CASE writes'[w][i] = Gone /\ table[i] \in s.missing
      BY <1>2, <3>2, NamesAssumption DEF SyncOK
    <3> QED
      BY <3>1, <3>2
  <2> QED
    BY <2>1, <2>2 DEF SyncOK
<1>6. r.alone => AloneOK(r, writes'[w], table, viewLock', w)
  <2>1. r.alone => AloneOK(s, writes[w], table, viewLock, w)
    BY <1>1 DEF WriterOK
  <2> QED
    BY <1>2, <1>3, <2>1 DEF AloneOK
<1>7. \A i \in RowIds : writes'[w][i] = writes[w][i] \/ (Free(w, i) /\ NobodysUuid(w, i))
  <2> SUFFICES ASSUME NEW i \in RowIds, Free(w, i), table[i] \in s.missing
               PROVE  NobodysUuid(w, i)
    OBVIOUS
  <2>1. table[i] # Gone
    BY <1>2 DEF SyncOK, Values
  <2> SUFFICES ASSUME NEW n \in 1..MaxJobs, NEW m \in 1..MaxItems, i = <<n, m>>
               PROVE  n <= jobs /\ \A u \in Writers \ {w} : tx[u].number # n
    BY DEF NobodysUuid
  <2>2. ~(n > jobs) /\ ~\E u \in Writers : tx[u].number = n
    BY <2>1 DEF IInv, NumberInv, UuidsFree
  <2>3. jobs \in Int /\ n \in Int
    BY <1>1, BoundAssumption DEF WriterOK
  <2> QED
    BY <2>2, <2>3
<1> QED
  <2>1. GoodStatement(w, r)
    BY <1>1, <1>2, <1>3, <1>4, <1>5, <1>6, <1>7 DEF GoodStatement
  <2> QED
    BY <2>1, StatementKeeps

\* A session that deletes is that of a refresh.
LEMMA DeletingIsSync ==
    ASSUME IInv, NEW w \in Writers, tx[w].pc \in {"delete", "deleting", "not_found"}
    PROVE  /\ ~IsBulk(tx[w]) /\ SyncOK(tx[w], writes[w], table) /\ Stage(tx[w]) = tx[w].pc
           /\ tx[w] \in Sessions
           /\ writes \in [Writers -> [RowIds -> Texts \cup {Gone, Untouched}]]
           /\ tx[w].alone => AloneOK(tx[w], writes[w], table, viewLock, w)
<1>1. WriterOK(w, tx[w])
  BY SessionFacts
<1>2. ~IsBulk(tx[w]) /\ HasRead(tx[w]) /\ Stage(tx[w]) = tx[w].pc
  BY <1>1 DEF WriterOK, SessionOK, Stage, HasRead
<1> QED
  BY <1>1, <1>2 DEF WriterOK

\* Selecting the rows to delete keeps the invariant: they are all victims at first.
LEMMA DeleteKeeps == ASSUME IInv, NEW w \in Writers, Delete(w) PROVE IInv'
<1> DEFINE s == tx[w]
           V == {i \in RowIds : table[i] \in s.missing}
           r == [s EXCEPT !.pc = "deleting", !.victims = V]
<1>1. s.pc = "delete" /\ writes' = writes /\ viewLock' = viewLock /\ Statement(w, r)
  BY DeleteMoves DEF IInv
<1>2. /\ ~IsBulk(s) /\ SyncOK(s, writes[w], table) /\ s \in Sessions
      /\ writes \in [Writers -> [RowIds -> Texts \cup {Gone, Untouched}]]
  BY <1>1, DeletingIsSync
<1>3. \A i \in RowIds : table[i] \in s.missing => i \in V
  OBVIOUS
<1> HIDE DEF V
<1>4. /\ r.pc = "deleting" /\ r.victims = V /\ r.job = s.job /\ r.number = s.number
      /\ r.alone = s.alone /\ r.base = s.base /\ r.since = s.since /\ r.todo = s.todo
      /\ r.updated = s.updated /\ r.missing = s.missing
  BY <1>2 DEF Sessions
<1> HIDE DEF r
<1>5. Stage(r) = "deleting"
  BY <1>4 DEF Stage
<1> QED
  BY <1>1, <1>2, <1>3, <1>4, <1>5, DeletingKeeps

\* Visiting a row keeps the invariant: it is deleted, or somebody has changed it.
LEMMA DeleteRowKeeps == ASSUME IInv, NEW w \in Writers, DeleteRow(w) PROVE IInv'
<1> DEFINE s == tx[w]
<1>1. s.pc = "deleting" /\ viewLock' = viewLock
  BY DeleteRowMoves DEF IInv
<1>2. PICK i \in s.victims :
        /\ Free(w, i)
        /\ \/ /\ table[i] \in s.missing /\ writes' = [writes EXCEPT ![w][i] = Gone]
              /\ Statement(w, [s EXCEPT !.victims = @ \ {i}, !.hit = TRUE])
           \/ /\ table[i] \notin s.missing /\ writes' = writes
              /\ Statement(w, [s EXCEPT !.victims = @ \ {i}])
  BY DeleteRowMoves DEF IInv
<1>3. /\ ~IsBulk(s) /\ SyncOK(s, writes[w], table) /\ s \in Sessions /\ Stage(s) = "deleting"
      /\ writes \in [Writers -> [RowIds -> Texts \cup {Gone, Untouched}]]
      /\ s.alone => AloneOK(s, writes[w], table, viewLock, w)
  BY <1>1, DeletingIsSync
<1>4. i \in RowIds
  BY <1>3 DEF Sessions
<1>5. ASSUME NEW r, r.pc = s.pc, r.victims = s.victims \ {i}, r.job = s.job,
             r.number = s.number, r.alone = s.alone, r.base = s.base, r.since = s.since,
             r.todo = s.todo, r.updated = s.updated, r.missing = s.missing, Statement(w, r),
             \/ /\ table[i] \in s.missing /\ writes' = [writes EXCEPT ![w][i] = Gone] /\ r.hit = TRUE
             \/ table[i] \notin s.missing /\ writes' = writes /\ r.hit = s.hit
      PROVE  IInv'
  <2>1. Stage(r) = "deleting" /\ r.pc = "deleting"
    BY <1>1, <1>5 DEF Stage
  <2>2. /\ writes' \in [Writers -> [RowIds -> Texts \cup {Gone, Untouched}]]
        /\ \A j \in RowIds : \/ writes'[w][j] = writes[w][j]
                             \/ writes'[w][j] = Gone /\ Free(w, j) /\ table[j] \in s.missing
        /\ table[i] \in s.missing => writes'[w][i] = Gone
        /\ \A j \in RowIds : j # i => writes'[w][j] = writes[w][j]
    BY <1>2, <1>3, <1>4, <1>5
  <2>3. \A j \in RowIds \ s.since : table[j] \in s.missing => writes'[w][j] = Gone \/ j \in r.victims
    <3> SUFFICES ASSUME NEW j \in RowIds \ s.since, table[j] \in s.missing, j # i
                 PROVE  writes'[w][j] = Gone \/ j \in r.victims
      BY <2>2
    <3>1. writes[w][j] = Gone \/ j \in s.victims
      BY <1>3 DEF SyncOK
    <3> QED
      BY <1>5, <2>2, <3>1
  <2>4. r.alone => r.hit \/ \A j \in RowIds : table[j] \in r.missing => j \in r.victims
    BY <1>3, <1>5 DEF AloneOK
  <2> QED
    BY <1>1, <1>3, <1>5, <2>1, <2>2, <2>3, <2>4, DeletingKeeps
<1>6. CASE /\ table[i] \in s.missing /\ writes' = [writes EXCEPT ![w][i] = Gone]
           /\ Statement(w, [s EXCEPT !.victims = @ \ {i}, !.hit = TRUE])
  <2> DEFINE r == [s EXCEPT !.victims = @ \ {i}, !.hit = TRUE]
  <2>1. /\ r.pc = s.pc /\ r.victims = s.victims \ {i} /\ r.hit = TRUE /\ r.job = s.job
        /\ r.number = s.number /\ r.alone = s.alone /\ r.base = s.base /\ r.since = s.since
        /\ r.todo = s.todo /\ r.updated = s.updated /\ r.missing = s.missing
    BY <1>3 DEF Sessions
  <2> HIDE DEF r
  <2> QED
    BY <1>5, <1>6, <2>1 DEF r
<1>7. CASE /\ table[i] \notin s.missing /\ writes' = writes
           /\ Statement(w, [s EXCEPT !.victims = @ \ {i}])
  <2> DEFINE r == [s EXCEPT !.victims = @ \ {i}]
  <2>1. /\ r.pc = s.pc /\ r.victims = s.victims \ {i} /\ r.hit = s.hit /\ r.job = s.job
        /\ r.number = s.number /\ r.alone = s.alone /\ r.base = s.base /\ r.since = s.since
        /\ r.todo = s.todo /\ r.updated = s.updated /\ r.missing = s.missing
    BY <1>3 DEF Sessions
  <2> HIDE DEF r
  <2> QED
    BY <1>5, <1>7, <2>1 DEF r
<1> QED
  BY <1>2, <1>6, <1>7

\* The end of DELETE keeps the invariant: all rows that still match are deleted, and a
\* lone refresh has hit one.
LEMMA DeletedKeeps == ASSUME IInv, NEW w \in Writers, Deleted(w) PROVE IInv'
<1> DEFINE s == tx[w]
<1>1. /\ s.pc = "deleting" /\ s.victims = {} /\ writes' = writes /\ viewLock' = viewLock
  BY DeletedMoves DEF IInv
<1>2. PICK next \in {"not_found", "insert", "commit"} :
        /\ next = "not_found" => ~s.hit
        /\ next = "insert" => s.todo # {}
        /\ next = "commit" => s.todo = {}
        /\ Statement(w, [s EXCEPT !.pc = "snapshot", !.next = next])
  BY DeletedMoves DEF IInv
<1> DEFINE r == [s EXCEPT !.pc = "snapshot", !.next = next]
<1>3. /\ ~IsBulk(s) /\ SyncOK(s, writes[w], table) /\ s \in Sessions /\ Stage(s) = "deleting"
      /\ writes \in [Writers -> [RowIds -> Texts \cup {Gone, Untouched}]]
      /\ s.alone => AloneOK(s, writes[w], table, viewLock, w)
  BY <1>1, DeletingIsSync
<1>4. /\ r.pc = "snapshot" /\ r.next = next /\ r.job = s.job /\ r.number = s.number
      /\ r.alone = s.alone /\ r.base = s.base /\ r.since = s.since /\ r.todo = s.todo
      /\ r.updated = s.updated /\ r.missing = s.missing
  BY <1>3 DEF Sessions
<1>5. Statement(w, r)
  BY <1>2
<1> HIDE DEF r
<1>6. Stage(r) = next
  BY <1>4 DEF Stage
<1>7. \A i \in RowIds \ s.since : table[i] \in s.missing => writes'[w][i] = Gone
  BY <1>1, <1>3 DEF SyncOK
<1>8. r.alone => next # "not_found"
  <2> SUFFICES ASSUME s.alone, ~s.hit
               PROVE  FALSE
    BY <1>2, <1>4
  <2>1. /\ table = s.base
        /\ \A i \in RowIds : table[i] \notin s.missing
    BY <1>1, <1>3 DEF AloneOK, HasRead
  <2>2. PICK x \in s.missing : TRUE
    BY <1>3 DEF SyncOK
  <2>3. \E i \in RowIds : s.base[i] = x
    BY <1>3, <2>2 DEF SyncOK, Values
  <2> QED
    BY <2>1, <2>2, <2>3
<1>9. \A i \in RowIds : writes'[w][i] = writes[w][i]
  BY <1>1
<1> QED
  BY <1>1, <1>2, <1>3, <1>4, <1>5, <1>6, <1>7, <1>8, <1>9, DeletingKeeps

-----------------------------------------------------------------------------
(* What the beginning and the end of a transaction keep                     *)

\* At its end a transaction leaves others nothing but rows, which they note.
Ends(w, answer, wrote) ==
    /\ EndTx(w, answer, wrote)
    /\ wrote \in SUBSET RowIds
    /\ answer \in {"exists", "modified", "not_found", "conflict", "deadlock", "failed"}
    /\ tx[w].pc # "idle" /\ table' \in Rows /\ view' \in Rows
    /\ \A i \in RowIds : table'[i] = table[i] \/ (i \in wrote /\ writes[w][i] # Untouched)

\* An end keeps the invariant: the rows that landed were locked until then, so nobody
\* else has written them, and whoever has read the table notes them.
LEMMA EndKeeps ==
    ASSUME IInv, NEW w \in Writers, NEW answer, NEW wrote, Ends(w, answer, wrote)
    PROVE  IInv'
<1> USE DEF Ends
<1>1. /\ tx' \in [Writers -> Sessions] /\ tx'[w] = Closed
      /\ writes' = [writes EXCEPT ![w] = Clean] /\ reply' = [reply EXCEPT ![w] = answer]
      /\ viewLock' = (IF viewLock = w THEN None ELSE viewLock)
      /\ jobs' = jobs /\ search' = search
      /\ \A u \in Writers \ {w} :
           IF HasRead(tx[u]) THEN tx'[u] = [tx[u] EXCEPT !.since = @ \cup wrote]
           ELSE tx'[u] = tx[u]
  BY EndMoves DEF IInv
<1>2. /\ tx \in [Writers -> Sessions] /\ jobs \in 0..MaxJobs
      /\ writes \in [Writers -> [RowIds -> Texts \cup {Gone, Untouched}]]
      /\ writes' \in [Writers -> [RowIds -> Texts \cup {Gone, Untouched}]]
      /\ writes'[w] = Clean /\ \A u \in Writers \ {w} : writes'[u] = writes[u]
  BY <1>1, ClosedIsTyped DEF IInv, TypeOK
<1>3. \A u \in Writers \ {w} :
        /\ tx[u] \in Sessions /\ tx'[u] \in Sessions
        /\ tx'[u].pc = tx[u].pc /\ tx'[u].job = tx[u].job /\ tx'[u].number = tx[u].number
        /\ tx'[u].alone = tx[u].alone /\ tx'[u].base = tx[u].base /\ tx'[u].todo = tx[u].todo
        /\ tx'[u].updated = tx[u].updated /\ tx'[u].missing = tx[u].missing
        /\ tx'[u].victims = tx[u].victims /\ tx'[u].next = tx[u].next
        /\ tx'[u].since = IF HasRead(tx[u]) THEN tx[u].since \cup wrote ELSE tx[u].since
        /\ HasRead(tx[u]) \/ tx'[u] = tx[u]
  <2> TAKE u \in Writers \ {w}
  <2>1. tx[u] \in Sessions /\ tx'[u] \in Sessions
    BY <1>1, <1>2
  <2>2. CASE HasRead(tx[u])
    <3>1. tx'[u] = [tx[u] EXCEPT !.since = @ \cup wrote]
      BY <1>1, <2>2
    <3> QED
      BY <2>1, <2>2, <3>1 DEF Sessions
  <2>3. CASE ~HasRead(tx[u])
    <3>1. tx'[u] = tx[u]
      BY <1>1, <2>3
    <3> QED
      BY <2>1, <2>3, <3>1
  <2> QED
    BY <2>2, <2>3
<1>4. \A u \in Writers \ {w} : /\ Stage(tx'[u]) = Stage(tx[u])
                               /\ HasRead(tx'[u]) <=> HasRead(tx[u])
                               /\ IsBulk(tx'[u]) <=> IsBulk(tx[u])
  BY <1>3 DEF Stage, HasRead, IsBulk
<1>5. /\ Closed.pc = "idle" /\ Closed.number = 0 /\ Closed.alone = FALSE /\ Closed.job = NoJob
      /\ ~HasRead(Closed) /\ ~IsBulk(Closed)
  BY DEF Closed, NoJob, HasRead, IsBulk
<1>6. SessionInv'
  <2> SUFFICES ASSUME NEW u \in Writers PROVE SessionOK(tx'[u], jobs')
    BY DEF SessionInv
  <2>1. CASE u = w
    BY <1>1, <1>5, <2>1 DEF SessionOK
  <2>2. CASE u # w /\ HasRead(tx[u])
    <3>1. SessionOK(tx[u], jobs) /\ tx[u].pc # "idle"
      BY <2>2 DEF IInv, SessionInv, HasRead
    <3>2. /\ tx'[u].job = tx[u].job /\ tx'[u].number = tx[u].number /\ HasRead(tx'[u])
          /\ tx'[u].todo = tx[u].todo /\ tx'[u].updated = tx[u].updated
          /\ Stage(tx'[u]) = Stage(tx[u])
      BY <1>3, <1>4, <2>2
    <3>3. SessionOK(tx'[u], jobs)
      BY <3>1, <3>2, SessionKept DEF SessionOK
    <3> QED
      BY <1>1, <3>3
  <2>3. CASE u # w /\ ~HasRead(tx[u])
    BY <1>1, <1>3, <2>3 DEF IInv, SessionInv
  <2> QED
    BY <2>1, <2>2, <2>3
<1>7. TypeOK'
  <2>1. \A u \in Writers, k \in 1..MaxItems : k \in tx'[u].todo => RowId(tx'[u], k) \in RowIds
    BY <1>1, <1>2, <1>6, TodoHasRows DEF SessionInv
  <2>2. reply' \in [Writers -> {"none", "exists", "modified", "not_found", "conflict",
                                "deadlock", "failed"}]
    BY <1>1 DEF IInv, TypeOK
  <2>3. viewLock' \in Writers \cup {None} /\ search' \in [Readers -> {"idle", "waiting", "reading"}]
    BY <1>1 DEF IInv, TypeOK
  <2> QED
    BY <1>1, <1>2, <2>1, <2>2, <2>3 DEF TypeOK
<1>8. FreshInv'
  <2> SUFFICES ASSUME NEW u \in Writers, ~HasRead(tx'[u])
               PROVE  writes'[u] = Clean /\ viewLock' # u
    BY DEF FreshInv
  <2>1. CASE u = w
    BY <1>1, <1>2, <2>1, NamesAssumption
  <2>2. CASE u # w
    BY <1>1, <1>2, <1>4, <2>2, NamesAssumption DEF IInv, FreshInv
  <2> QED
    BY <2>1, <2>2
<1>9. LockInv'
  <2>1. \A i \in RowIds : writes'[w][i] = Untouched
    BY <1>2 DEF Clean
  <2> QED
    BY <1>2, <2>1 DEF IInv, LockInv
<1>10. \A u \in Writers, n \in 1..MaxJobs :
         tx'[u].number = n => u # w /\ tx[u].number = n
  <2> SUFFICES ASSUME NEW u \in Writers, NEW n \in 1..MaxJobs, tx'[u].number = n
               PROVE  u # w /\ tx[u].number = n
    OBVIOUS
  <2>1. u # w
    BY <1>1, <1>5, BoundAssumption
  <2> QED
    BY <1>3, <2>1
<1>11. NumberInv'
  <2>1. NumbersDiffer'
    <3> SUFFICES ASSUME NEW v \in Writers, NEW u \in Writers, v # u, tx'[v].pc # "idle"
                 PROVE  tx'[v].number # tx'[u].number
      BY DEF NumbersDiffer
    <3>1. v # w /\ tx'[v].number = tx[v].number /\ tx[v].pc # "idle"
      BY <1>1, <1>3, <1>5
    <3>2. tx[v].number \in 1..jobs
      BY <3>1 DEF IInv, SessionInv, SessionOK
    <3>3. CASE u = w
      BY <1>1, <1>5, <3>1, <3>2, <3>3
    <3>4. CASE u # w
      <4>1. tx[v].number # tx[u].number
        BY <3>1 DEF IInv, NumberInv, NumbersDiffer
      <4> QED
        BY <1>3, <3>1, <3>4, <4>1
    <3> QED
      BY <3>3, <3>4
  <2>2. UuidsFree'
    <3> SUFFICES ASSUME NEW n \in 1..MaxJobs, NEW m \in 1..MaxItems,
                        n > jobs \/ \E u \in Writers : tx'[u].number = n
                 PROVE  table'[<<n, m>>] = Gone
      BY <1>1 DEF UuidsFree
    <3>1. n > jobs \/ \E u \in Writers \ {w} : tx[u].number = n
      BY <1>10
    <3>2. table[<<n, m>>] = Gone
      BY <3>1 DEF IInv, NumberInv, UuidsFree
    <3>3. writes[w][<<n, m>>] = Untouched
      <4>1. ~(n <= jobs /\ \A u \in Writers \ {w} : tx[u].number # n)
        BY <1>2, <3>1, BoundAssumption
      <4> QED
        BY <4>1 DEF IInv, NumberInv, UuidsUnwritten
    <3>4. <<n, m>> \in RowIds
      BY DEF RowIds, NewIds
    <3> QED
      BY <3>2, <3>3, <3>4
  <2>3. UuidsUnwritten'
    <3> SUFFICES ASSUME NEW u \in Writers, NEW n \in 1..MaxJobs, NEW m \in 1..MaxItems,
                        writes'[u][<<n, m>>] # Untouched
                 PROVE  n <= jobs /\ \A x \in Writers \ {u} : tx'[x].number # n
      BY <1>1 DEF UuidsUnwritten
    <3>1. <<n, m>> \in RowIds
      BY DEF RowIds, NewIds
    <3>2. u # w
      BY <1>2, <3>1 DEF Clean
    <3>3. n <= jobs /\ \A x \in Writers \ {u} : tx[x].number # n
      <4>1. writes[u][<<n, m>>] # Untouched
        BY <1>2, <3>2
      <4> QED
        BY <4>1 DEF IInv, NumberInv, UuidsUnwritten
    <3> QED
      BY <1>10, <3>3
  <2>4. UuidsUnknown'
    <3> SUFFICES ASSUME NEW u \in Writers, IsBulk(tx'[u]),
                        NEW k \in DOMAIN tx'[u].job.elements, NEW n \in 1..MaxJobs,
                        NEW m \in 1..MaxItems, tx'[u].job.elements[k].id = <<n, m>>
                 PROVE  n < tx'[u].number /\ \A x \in Writers : tx'[x].number # n
      BY DEF UuidsUnknown
    <3>1. u # w
      BY <1>1, <1>5
    <3>2. n < tx[u].number /\ \A x \in Writers : tx[x].number # n
      <4>1. IsBulk(tx[u]) /\ tx[u].job = tx'[u].job
        BY <1>3, <1>4, <3>1
      <4> QED
        BY <4>1 DEF IInv, NumberInv, UuidsUnknown
    <3> QED
      BY <1>3, <1>10, <3>1, <3>2
  <2> QED
    BY <2>1, <2>2, <2>3, <2>4 DEF NumberInv
<1>12. BulkInv'
  <2> SUFFICES ASSUME NEW u \in Writers, IsBulk(tx'[u]), HasRead(tx'[u])
               PROVE  BulkOK(tx'[u], writes'[u])
    BY DEF BulkInv
  <2>1. u # w
    BY <1>1, <1>5
  <2>2. BulkOK(tx[u], writes[u])
    BY <1>4, <2>1 DEF IInv, BulkInv
  <2>3. /\ tx'[u].job = tx[u].job /\ tx'[u].number = tx[u].number /\ tx'[u].base = tx[u].base
        /\ tx'[u].todo = tx[u].todo /\ tx'[u].updated = tx[u].updated
        /\ Stage(tx'[u]) = Stage(tx[u]) /\ writes'[u] = writes[u]
    BY <1>2, <1>3, <1>4, <2>1
  <2>4. BulkOK(tx'[u], writes[u])
    BY <2>2, <2>3, SameStage
  <2> QED
    BY <2>3, <2>4
<1>13. SyncInv'
  <2> SUFFICES ASSUME NEW u \in Writers, ~IsBulk(tx'[u]), HasRead(tx'[u])
               PROVE  SyncOK(tx'[u], writes'[u], table')
    BY DEF SyncInv
  <2> DEFINE s == tx[u]
             r == tx'[u]
  <2>1. u # w
    BY <1>1, <1>5
  <2>2. SyncOK(s, writes[u], table) /\ HasRead(s)
    BY <1>4, <2>1 DEF IInv, SyncInv
  <2>3. /\ r.job = s.job /\ r.number = s.number /\ r.base = s.base /\ r.todo = s.todo
        /\ r.missing = s.missing /\ r.victims = s.victims /\ r.since = s.since \cup wrote
        /\ Stage(r) = Stage(s) /\ writes'[u] = writes[u]
    BY <1>2, <1>3, <1>4, <2>1, <2>2
  <2>4. \A k : TextAt(r, k) = TextAt(s, k)
    BY <2>3 DEF TextAt
  <2>5. \A i \in RowIds : writes[u][i] # Untouched \/ i \notin wrote => table'[i] = table[i]
    BY <2>1 DEF IInv, LockInv
  <2> HIDE DEF r, s
  <2>6. ASSUME NEW i \in RowIds
        PROVE  /\ writes[u][i] = Gone => table'[i] \in r.missing
               /\ writes[u][i] \in Texts =>
                   \E k \in Positions(r.job) \ r.todo :
                       /\ i = <<r.number, k>>
                       /\ writes[u][i] = TextAt(r, k) /\ TextAt(r, k) \notin Values(r.base)
               /\ i \notin r.since =>
                   /\ table'[i] = r.base[i]
                   /\ Stage(r) # "delete" /\ table'[i] \in r.missing =>
                       writes[u][i] = Gone \/ (Stage(r) = "deleting" /\ i \in r.victims)
    <3>1. writes[u][i] = Gone => table'[i] \in r.missing
      BY <2>2, <2>3, <2>5, NamesAssumption DEF SyncOK
    <3>2. writes[u][i] \in Texts =>
            \E k \in Positions(r.job) \ r.todo :
                /\ i = <<r.number, k>>
                /\ writes[u][i] = TextAt(r, k) /\ TextAt(r, k) \notin Values(r.base)
      BY <2>2, <2>3, <2>4 DEF SyncOK
    <3>3. i \notin r.since =>
            /\ table'[i] = r.base[i]
            /\ Stage(r) # "delete" /\ table'[i] \in r.missing =>
                writes[u][i] = Gone \/ (Stage(r) = "deleting" /\ i \in r.victims)
      BY <2>2, <2>3, <2>5 DEF SyncOK
    <3> QED
      BY <3>1, <3>2, <3>3
  <2>7. SyncOK(r, writes'[u], table')
    BY <2>2, <2>3, <2>4, <2>6 DEF SyncOK
  <2> QED
    BY <2>7 DEF r
<1>14. AloneInv'
  <2> SUFFICES ASSUME NEW u \in Writers, tx'[u].alone
               PROVE  FALSE
    BY DEF AloneInv
  <2>1. u # w
    BY <1>1, <1>5
  <2> QED
    BY <1>3, <2>1 DEF IInv, AloneInv, At
<1> QED
  BY <1>6, <1>7, <1>8, <1>9, <1>11, <1>12, <1>13, <1>14 DEF IInv

\* A rollback keeps the invariant: nothing lands.
LEMMA RollBackKeeps ==
    ASSUME IInv, NEW w \in Writers, tx[w].pc # "idle",
           NEW answer \in {"exists", "modified", "not_found", "conflict", "deadlock", "failed"},
           RollBack(w, answer)
    PROVE  IInv'
<1>1. EndTx(w, answer, {}) /\ table' = table /\ view' = view
  BY DEF RollBack
<1>2. table \in Rows /\ view \in Rows
  BY DEF IInv, TypeOK
<1>3. Ends(w, answer, {})
  BY <1>1, <1>2 DEF Ends
<1> QED
  BY <1>3, EndKeeps

\* A commit keeps the invariant, acknowledged or not.
LEMMA LandKeeps ==
    ASSUME IInv, NEW w \in Writers, Land(w, "modified") \/ Land(w, "failed")
    PROVE  IInv'
<1>1. PICK answer \in {"modified", "failed"} : Land(w, answer)
  OBVIOUS
<1> DEFINE wrote == {i \in RowIds : writes[w][i] # Untouched}
<1>2. /\ EndTx(w, answer, wrote) /\ table' = Visible(w) /\ tx[w].pc = "commit"
      /\ view' = IF viewLock = w THEN tx[w].snap ELSE view
  BY <1>1 DEF Land, At
<1>3. /\ tx[w] \in Sessions /\ table \in Rows /\ view \in Rows
      /\ writes \in [Writers -> [RowIds -> Texts \cup {Gone, Untouched}]]
  BY DEF IInv, TypeOK
<1>4. Visible(w) \in Rows /\ tx[w].snap \in Rows
  BY <1>3 DEF Visible, Rows, Sessions
<1>5. \A i \in RowIds : table'[i] = table[i] \/ (i \in wrote /\ writes[w][i] # Untouched)
  BY <1>2 DEF Visible
<1>6. table' \in Rows /\ view' \in Rows /\ wrote \in SUBSET RowIds
  BY <1>2, <1>3, <1>4
<1> HIDE DEF wrote
<1>7. Ends(w, answer, wrote)
  BY <1>2, <1>5, <1>6 DEF Ends
<1> QED
  BY <1>7, EndKeeps

\* A request arrives: its session is empty, with a number that nobody has met yet.
LEMMA BeginKeeps == ASSUME IInv, NEW w \in Writers, Begin(w) PROVE IInv'
<1>1. /\ tx[w].pc = "idle" /\ tx' \in [Writers -> Sessions]
      /\ jobs' = jobs + 1 /\ jobs' \in 1..MaxJobs
      /\ table' = table /\ view' = view /\ viewLock' = viewLock /\ writes' = writes
      /\ reply' = reply /\ search' = search
      /\ \A u \in Writers \ {w} : tx'[u] = [tx[u] EXCEPT !.alone = FALSE]
  BY BeginMoves DEF IInv
<1>2. PICK j \in Jobs, alone \in BOOLEAN :
        /\ Known(j)
        /\ alone => \A u \in Writers : tx[u].pc = "idle"
        /\ tx'[w] = [Closed EXCEPT !.pc = IF j.kind = "bulk" THEN "check" ELSE "select",
                                   !.job = j, !.number = jobs + 1, !.alone = alone]
  BY BeginMoves DEF IInv
<1>3. /\ tx'[w].pc = (IF j.kind = "bulk" THEN "check" ELSE "select")
      /\ tx'[w].job = j /\ tx'[w].number = jobs + 1 /\ tx'[w].alone = alone
      /\ tx'[w].since = {} /\ tx'[w].todo = {} /\ tx'[w].updated = {}
  BY <1>2 DEF Closed
<1>4. ~HasRead(tx'[w]) /\ Stage(tx'[w]) = tx'[w].pc /\ tx'[w].pc \in {"check", "select"}
  BY <1>3 DEF HasRead, Stage
<1>5. \A u \in Writers \ {w} :
        /\ tx[u] \in Sessions
        /\ tx'[u].pc = tx[u].pc /\ tx'[u].job = tx[u].job /\ tx'[u].number = tx[u].number
        /\ tx'[u].alone = FALSE /\ tx'[u].base = tx[u].base /\ tx'[u].todo = tx[u].todo
        /\ tx'[u].updated = tx[u].updated /\ tx'[u].missing = tx[u].missing
        /\ tx'[u].victims = tx[u].victims /\ tx'[u].next = tx[u].next
        /\ tx'[u].since = tx[u].since
  BY <1>1 DEF IInv, TypeOK, Sessions
<1>6. \A u \in Writers \ {w} : /\ Stage(tx'[u]) = Stage(tx[u])
                               /\ HasRead(tx'[u]) <=> HasRead(tx[u])
                               /\ IsBulk(tx'[u]) <=> IsBulk(tx[u])
  BY <1>5 DEF Stage, HasRead, IsBulk
<1>7. jobs \in Nat /\ \A u \in Writers : tx[u].number \in 0..jobs /\ SessionOK(tx[u], jobs)
  <2>1. jobs \in Nat /\ \A u \in Writers : SessionOK(tx[u], jobs)
    BY BoundAssumption DEF IInv, TypeOK, SessionInv
  <2>2. \A u \in Writers : tx[u].pc = "idle" => tx[u].number = 0
    BY <2>1 DEF SessionOK, Closed
  <2> QED
    BY <2>1, <2>2 DEF SessionOK
<1>8. writes[w] = Clean /\ viewLock # w
  BY <1>1 DEF IInv, FreshInv, HasRead
<1>9. SessionInv'
  <2> SUFFICES ASSUME NEW u \in Writers PROVE SessionOK(tx'[u], jobs')
    BY DEF SessionInv
  <2>1. CASE u = w
    <3>1. j.kind = "bulk" => IsBulk(tx'[w]) /\ tx'[w].pc = "check"
      BY <1>3 DEF IsBulk
    <3>2. j.kind # "bulk" => ~IsBulk(tx'[w]) /\ tx'[w].pc = "select"
      BY <1>3 DEF IsBulk
    <3>3. tx'[w].number \in 1..jobs'
      BY <1>1, <1>3, <1>7
    <3> QED
      BY <1>3, <1>4, <2>1, <3>1, <3>2, <3>3 DEF SessionOK
  <2>2. CASE u # w /\ tx[u].pc = "idle"
    <3>1. tx[u] = Closed
      BY <1>7, <2>2 DEF SessionOK
    <3>2. tx'[u] = Closed
      BY <1>1, <2>2, <3>1 DEF Closed
    <3> QED
      BY <3>2 DEF SessionOK, Closed
  <2>3. CASE u # w /\ tx[u].pc # "idle"
    <3>1. SessionOK(tx[u], jobs) /\ tx[u].number \in 1..jobs'
      BY <1>1, <1>7, <2>3 DEF SessionOK
    <3>2. /\ tx'[u].pc = tx[u].pc /\ tx'[u].job = tx[u].job /\ tx'[u].number = tx[u].number
          /\ tx'[u].todo = tx[u].todo /\ tx'[u].updated = tx[u].updated
          /\ tx'[u].since = tx[u].since /\ Stage(tx'[u]) = Stage(tx[u])
          /\ IsBulk(tx'[u]) <=> IsBulk(tx[u])
      BY <1>5, <1>6, <2>3
    <3> QED
      BY <2>3, <3>1, <3>2 DEF SessionOK
  <2> QED
    BY <2>1, <2>2, <2>3
<1>10. TypeOK'
  <2>1. \A u \in Writers, k \in 1..MaxItems : k \in tx'[u].todo => RowId(tx'[u], k) \in RowIds
    <3>1. \A u \in Writers : tx'[u] \in Sessions /\ SessionOK(tx'[u], jobs')
      BY <1>1, <1>9 DEF SessionInv
    <3> QED
      BY <1>1, <3>1, TodoHasRows
  <2> QED
    BY <1>1, <2>1 DEF IInv, TypeOK
<1>11. FreshInv'
  BY <1>1, <1>6, <1>8 DEF IInv, FreshInv
<1>12. LockInv'
  BY <1>1 DEF IInv, LockInv
<1>13. NumberInv'
  <2>1. NumbersDiffer'
    <3> SUFFICES ASSUME NEW v \in Writers, NEW u \in Writers, v # u, tx'[v].pc # "idle"
                 PROVE  tx'[v].number # tx'[u].number
      BY DEF NumbersDiffer
    <3>1. CASE v = w \/ u = w
      BY <1>3, <1>5, <1>7, <3>1
    <3>2. CASE v # w /\ u # w
      <4>1. tx[v].number # tx[u].number
        BY <1>5, <3>2 DEF IInv, NumberInv, NumbersDiffer
      <4> QED
        BY <1>5, <3>2, <4>1
    <3> QED
      BY <3>1, <3>2
  <2>2. UuidsFree'
    <3> SUFFICES ASSUME NEW n \in 1..MaxJobs, NEW m \in 1..MaxItems,
                        n > jobs' \/ \E u \in Writers : tx'[u].number = n
                 PROVE  table[<<n, m>>] = Gone
      BY <1>1 DEF UuidsFree
    <3>1. n > jobs \/ \E u \in Writers : tx[u].number = n
      BY <1>1, <1>3, <1>5, <1>7
    <3> QED
      BY <3>1 DEF IInv, NumberInv, UuidsFree
  <2>3. UuidsUnwritten'
    <3> SUFFICES ASSUME NEW u \in Writers, NEW n \in 1..MaxJobs, NEW m \in 1..MaxItems,
                        writes[u][<<n, m>>] # Untouched
                 PROVE  n <= jobs' /\ \A x \in Writers \ {u} : tx'[x].number # n
      BY <1>1 DEF UuidsUnwritten
    <3>1. n <= jobs /\ \A x \in Writers \ {u} : tx[x].number # n
      BY DEF IInv, NumberInv, UuidsUnwritten
    <3> QED
      BY <1>1, <1>3, <1>5, <1>7, <3>1
  <2>4. UuidsUnknown'
    <3> SUFFICES ASSUME NEW u \in Writers, IsBulk(tx'[u]),
                        NEW k \in DOMAIN tx'[u].job.elements, NEW n \in 1..MaxJobs,
                        NEW m \in 1..MaxItems, tx'[u].job.elements[k].id = <<n, m>>
                 PROVE  n < tx'[u].number /\ \A x \in Writers : tx'[x].number # n
      BY DEF UuidsUnknown
    <3>1. CASE u = w
      <4>1. n <= jobs /\ \A x \in Writers : tx[x].number # n
        <5>1. /\ j.kind = "bulk" /\ k \in DOMAIN j.elements
              /\ j.elements[k].id = <<n, m>>
          BY <1>3, <3>1 DEF IsBulk
        <5>2. Known(j)
          BY <1>2
        <5> QED
          BY <5>1, <5>2 DEF Known
      <4> QED
        BY <1>3, <1>5, <1>7, <3>1, <4>1
    <3>2. CASE u # w
      <4>1. n < tx[u].number /\ \A x \in Writers : tx[x].number # n
        <5>1. IsBulk(tx[u]) /\ tx[u].job = tx'[u].job
          BY <1>5, <1>6, <3>2
        <5> QED
          BY <5>1 DEF IInv, NumberInv, UuidsUnknown
      <4>2. tx[u].number \in 0..jobs
        BY <1>7
      <4> QED
        BY <1>3, <1>5, <1>7, <3>2, <4>1, <4>2
    <3> QED
      BY <3>1, <3>2
  <2> QED
    BY <2>1, <2>2, <2>3, <2>4 DEF NumberInv
<1>14. \A u \in Writers : HasRead(tx'[u]) =>
         /\ u # w /\ HasRead(tx[u]) /\ (IsBulk(tx'[u]) <=> IsBulk(tx[u]))
         /\ BulkOK(tx[u], writes[u]) => BulkOK(tx'[u], writes[u])
         /\ SyncOK(tx[u], writes[u], table) => SyncOK(tx'[u], writes[u], table)
  <2> SUFFICES ASSUME NEW u \in Writers, HasRead(tx'[u])
               PROVE  /\ u # w /\ HasRead(tx[u]) /\ (IsBulk(tx'[u]) <=> IsBulk(tx[u]))
                      /\ BulkOK(tx[u], writes[u]) => BulkOK(tx'[u], writes[u])
                      /\ SyncOK(tx[u], writes[u], table) => SyncOK(tx'[u], writes[u], table)
    OBVIOUS
  <2>1. u # w /\ HasRead(tx[u]) /\ (IsBulk(tx'[u]) <=> IsBulk(tx[u]))
    BY <1>4, <1>6
  <2>2. /\ tx'[u].job = tx[u].job /\ tx'[u].number = tx[u].number /\ tx'[u].base = tx[u].base
        /\ tx'[u].todo = tx[u].todo /\ tx'[u].updated = tx[u].updated
        /\ Stage(tx'[u]) = Stage(tx[u]) /\ tx'[u].since = tx[u].since
        /\ tx'[u].missing = tx[u].missing /\ tx'[u].victims = tx[u].victims
    BY <1>5, <1>6, <2>1
  <2> QED
    BY <2>1, <2>2, SameStage
<1>15. BulkInv'
  BY <1>1, <1>14 DEF IInv, BulkInv
<1>16. SyncInv'
  BY <1>1, <1>14 DEF IInv, SyncInv
<1>17. AloneInv'
  <2> SUFFICES ASSUME NEW u \in Writers, tx'[u].alone
               PROVE  /\ \A x \in Writers \ {u} : tx'[x].pc = "idle"
                      /\ AloneOK(tx'[u], writes'[u], table', viewLock', u)
    BY DEF AloneInv, At
  <2>1. u = w /\ alone
    BY <1>3, <1>5
  <2>2. \A x \in Writers \ {u} : tx'[x].pc = "idle"
    BY <1>2, <1>5, <2>1
  <2>3. AloneOK(tx'[w], writes'[w], table', viewLock', w)
    BY <1>4 DEF AloneOK
  <2> QED
    BY <2>1, <2>2, <2>3
<1> QED
  BY <1>9, <1>10, <1>11, <1>12, <1>13, <1>15, <1>16, <1>17 DEF IInv

\* Searches keep away from everything that writers look at.
LEMMA SearchKeeps ==
    ASSUME IInv, UNCHANGED <<table, view, viewLock, writes, tx, jobs, reply>>,
           search' \in [Readers -> {"idle", "waiting", "reading"}]
    PROVE  IInv'
<1>1. TypeOK'
  BY DEF IInv, TypeOK
<1>2. SessionInv' /\ FreshInv' /\ LockInv'
  BY DEF IInv, SessionInv, FreshInv, LockInv
<1>3. NumberInv'
  BY DEF IInv, NumberInv, NumbersDiffer, UuidsFree, UuidsUnwritten, UuidsUnknown
<1>4. BulkInv' /\ SyncInv' /\ AloneInv'
  BY DEF IInv, BulkInv, SyncInv, AloneInv, At
<1> QED
  BY <1>1, <1>2, <1>3, <1>4 DEF IInv

-----------------------------------------------------------------------------
(* The invariant                                                            *)

\* It holds at first, for any of the tables.
LEMMA InitKeeps == ASSUME Init PROVE IInv
<1>1. /\ table \in Tables /\ view = table /\ viewLock = None /\ jobs = 0
      /\ writes = [w \in Writers |-> Clean] /\ tx = [w \in Writers |-> Closed]
      /\ reply = [w \in Writers |-> "none"] /\ search = [r \in Readers |-> "idle"]
  BY DEF Init
<1>2. \A w \in Writers : tx[w] = Closed /\ writes[w] = Clean /\ viewLock # w
  BY <1>1, NamesAssumption
<1>3. /\ Closed.pc = "idle" /\ Closed.number = 0 /\ Closed.alone = FALSE /\ Closed.todo = {}
      /\ ~HasRead(Closed) /\ ~IsBulk(Closed)
  BY DEF Closed, NoJob, HasRead, IsBulk
<1>4. TypeOK
  BY <1>1, <1>2, <1>3, ClosedIsTyped, TablesAssumption, BoundAssumption DEF TypeOK, Rows
<1>5. SessionInv /\ FreshInv /\ LockInv
  BY <1>2, <1>3 DEF SessionInv, SessionOK, FreshInv, LockInv, Clean
<1>6. NumberInv
  <2>1. NumbersDiffer /\ UuidsUnknown
    BY <1>2, <1>3 DEF NumbersDiffer, UuidsUnknown
  <2>2. UuidsFree
    BY <1>1, TablesAssumption DEF UuidsFree, NewIds
  <2>3. UuidsUnwritten
    BY <1>2 DEF UuidsUnwritten, Clean, RowIds, NewIds
  <2> QED
    BY <2>1, <2>2, <2>3 DEF NumberInv
<1>7. BulkInv /\ SyncInv /\ AloneInv
  BY <1>2, <1>3 DEF BulkInv, SyncInv, AloneInv
<1> QED
  BY <1>4, <1>5, <1>6, <1>7 DEF IInv

\* Every step keeps it.
LEMMA NextKeeps == IInv /\ [Next]_vars => IInv'
<1> SUFFICES ASSUME IInv, [Next]_vars PROVE IInv'
  OBVIOUS
<1>1. ASSUME NEW w \in Writers, Step(w) PROVE IInv'
  <2>1. CASE Check(w)
    <3>1. CASE RollBack(w, "exists")
      BY <2>1, <3>1, RollBackKeeps DEF Check, At
    <3>2. CASE ~RollBack(w, "exists")
      BY <2>1, <3>2, CheckKeeps
    <3> QED
      BY <3>1, <3>2
  <2>2. CASE Insert(w)
    <3>1. CASE RollBack(w, "conflict")
      BY <2>2, <3>1, RollBackKeeps DEF Insert, At
    <3>2. CASE ~RollBack(w, "conflict")
      BY <2>2, <3>2, InsertKeeps
    <3> QED
      BY <3>1, <3>2
  <2>3. CASE NotFound(w) \/ InsertNothing(w)
    BY <2>3, RollBackKeeps DEF NotFound, InsertNothing, At
  <2>4. CASE Deadlock(w)
    <3>1. tx[w].pc # "idle"
      BY <2>4, VictimsWait DEF Deadlock, WaitsFor, At
    <3> QED
      BY <2>4, <3>1, RollBackKeeps DEF Deadlock
  <2>5. CASE Commit(w)
    BY <2>5, LandKeeps DEF Commit
  <2> QED
    BY <1>1, <2>1, <2>2, <2>3, <2>4, <2>5, UpdateKeeps, UpdatedKeeps, SelectKeeps, DeleteKeeps,
       DeleteRowKeeps, DeletedKeeps, SnapshotKeeps, FillKeeps DEF Step
<1>2. ASSUME NEW w \in Writers, Fail(w) PROVE IInv'
  BY <1>2, RollBackKeeps, LandKeeps DEF Fail, At
<1>3. ASSUME NEW r \in Readers, Search(r) \/ ReadView(r) \/ EndSearch(r) PROVE IInv'
  <2>1. PICK from, to \in {"idle", "waiting", "reading"} : SearchGoes(r, from, to)
    BY <1>3 DEF Search, ReadView, EndSearch
  <2>2. search' \in [Readers -> {"idle", "waiting", "reading"}]
    BY <2>1 DEF SearchGoes, IInv, TypeOK
  <2> QED
    BY <2>1, <2>2, SearchKeeps DEF SearchGoes
<1>4. CASE UNCHANGED vars
  <2>1. search' \in [Readers -> {"idle", "waiting", "reading"}]
    BY <1>4 DEF vars, IInv, TypeOK
  <2> QED
    BY <1>4, <2>1, SearchKeeps DEF vars
<1> QED
  BY <1>1, <1>2, <1>3, <1>4, BeginKeeps DEF Next

\* The invariant that all the properties below follow from: who may write a row or use
\* a uuid4, and what each session has written at its stage (glossary.py:60-121, 155-185).
THEOREM Inductive == Spec => []IInv
BY InitKeeps, NextKeeps, PTL DEF Spec

\* Every variable keeps its type, and every element still to handle has a row: a uuid4
\* is drawn for an element without an id (glossary.py:105, 307).
THEOREM TypeInvariant == Spec => []TypeOK
<1>1. IInv => TypeOK
  BY DEF IInv
<1> QED
  BY <1>1, Inductive, PTL

-----------------------------------------------------------------------------
(* What a step can be                                                       *)

\* The transaction of w comes to its end.
Ending(w) ==
    \/ Commit(w)
    \/ Check(w) /\ Exists(tx[w].job.elements) /\ RollBack(w, "exists")
    \/ NotFound(w)
    \/ Insert(w) /\ RollBack(w, "conflict") /\ Visible(w)[RowId(tx[w], First(tx[w].todo))] # Gone
    \/ InsertNothing(w)
    \/ Deadlock(w)
    \/ Fail(w)

\* No request arrives or ends.
GoesOn ==
    /\ UNCHANGED <<table, view, reply>>
    /\ \A u \in Writers : /\ tx'[u].job = tx[u].job
                          /\ tx[u].pc # "idle" => tx'[u].pc # "idle"

\* A statement leaves the request in its session, and all other sessions alone.
LEMMA StatementGoesOn ==
    ASSUME TypeOK, NEW w \in Writers, NEW r, Statement(w, r), r.job = tx[w].job, r.pc # "idle"
    PROVE  GoesOn
<1>1. \A u \in Writers : tx'[u] = IF u = w THEN r ELSE tx[u]
  BY DEF TypeOK, Statement
<1> QED
  BY <1>1 DEF Statement, GoesOn

\* A step of a request ends its transaction or goes on.
LEMMA StepEndsOrGoesOn ==
    ASSUME IInv, NEW w \in Writers, Step(w)
    PROVE  Ending(w) \/ GoesOn
<1>1. TypeOK /\ SessionInv /\ tx[w] \in Sessions /\ SessionOK(tx[w], jobs)
  BY DEF IInv, TypeOK, SessionInv
<1>2. \A x : [tx[w] EXCEPT !.pc = x].job = tx[w].job /\ [tx[w] EXCEPT !.pc = x].pc = x
  BY <1>1 DEF Sessions
<1>3. CASE Check(w) /\ ~(Exists(tx[w].job.elements) /\ RollBack(w, "exists"))
  <2> DEFINE T == {k \in Positions(tx[w].job) : HasId(tx[w], k)}
             r == [tx[w] EXCEPT !.pc = "update", !.base = table, !.todo = T]
  <2>1. Statement(w, r)
    BY <1>1, <1>3, CheckMoves
  <2>2. r.job = tx[w].job /\ r.pc = "update"
    BY <1>1 DEF Sessions
  <2> HIDE DEF r
  <2> QED
    BY <1>1, <2>1, <2>2, StatementGoesOn
<1>4. CASE Update(w)
  <2> DEFINE k == First(tx[w].todo)
             r == [tx[w] EXCEPT !.pc = "snapshot", !.next = "update", !.todo = @ \ {k}]
             q == [tx[w] EXCEPT !.pc = "snapshot", !.next = "update", !.todo = @ \ {k},
                                !.updated = @ \cup {k}]
  <2>1. Statement(w, r) \/ Statement(w, q)
    BY <1>1, <1>4, UpdateMoves
  <2>2. r.job = tx[w].job /\ r.pc = "snapshot" /\ q.job = tx[w].job /\ q.pc = "snapshot"
    BY <1>1 DEF Sessions
  <2> HIDE DEF r, q
  <2> QED
    BY <1>1, <2>1, <2>2, StatementGoesOn
<1>5. CASE Updated(w)
  <2> DEFINE r == [tx[w] EXCEPT !.pc = "commit"]
             q == [tx[w] EXCEPT !.pc = "insert", !.todo = ToInsert(tx[w])]
  <2>1. Statement(w, r) \/ Statement(w, q)
    BY <1>1, <1>5, UpdatedMoves
  <2>2. r.job = tx[w].job /\ r.pc = "commit" /\ q.job = tx[w].job /\ q.pc = "insert"
    BY <1>1 DEF Sessions
  <2> HIDE DEF r, q
  <2> QED
    BY <1>1, <2>1, <2>2, StatementGoesOn
<1>6. CASE Select(w)
  <2> DEFINE missing == Values(table) \ {TextAt(tx[w], k) : k \in Positions(tx[w].job)}
             added   == {k \in Positions(tx[w].job) : TextAt(tx[w], k) \notin Values(table)}
             first   == FirstStatement(missing, added)
             r == [tx[w] EXCEPT !.base = table, !.missing = missing, !.todo = added, !.pc = first]
  <2>1. Statement(w, r)
    BY <1>1, <1>6, SelectMoves
  <2>2. first # "idle"
    BY DEF FirstStatement
  <2> HIDE DEF first
  <2>3. r.job = tx[w].job /\ r.pc = first
    BY <1>1 DEF Sessions
  <2> HIDE DEF r
  <2> QED
    BY <1>1, <2>1, <2>2, <2>3, StatementGoesOn
<1>7. CASE Delete(w)
  <2> DEFINE r == [tx[w] EXCEPT !.pc = "deleting",
                                !.victims = {i \in RowIds : table[i] \in tx[w].missing}]
  <2>1. Statement(w, r)
    BY <1>1, <1>7, DeleteMoves
  <2>2. r.job = tx[w].job /\ r.pc = "deleting"
    BY <1>1 DEF Sessions
  <2> HIDE DEF r
  <2> QED
    BY <1>1, <2>1, <2>2, StatementGoesOn
<1>8. CASE DeleteRow(w)
  <2> DEFINE r(i) == [tx[w] EXCEPT !.victims = @ \ {i}, !.hit = TRUE]
             q(i) == [tx[w] EXCEPT !.victims = @ \ {i}]
  <2>1. tx[w].pc = "deleting" /\ \E i \in tx[w].victims : Statement(w, r(i)) \/ Statement(w, q(i))
    BY <1>1, <1>8, DeleteRowMoves
  <2>2. \A i : /\ r(i).job = tx[w].job /\ r(i).pc = tx[w].pc
               /\ q(i).job = tx[w].job /\ q(i).pc = tx[w].pc
    BY <1>1 DEF Sessions
  <2> HIDE DEF r, q
  <2> QED
    BY <1>1, <2>1, <2>2, StatementGoesOn
<1>9. CASE Deleted(w)
  <2> DEFINE r(next) == [tx[w] EXCEPT !.pc = "snapshot", !.next = next]
  <2>1. \E next : Statement(w, r(next))
    BY <1>1, <1>9, DeletedMoves
  <2>2. \A next : r(next).job = tx[w].job /\ r(next).pc = "snapshot"
    BY <1>1 DEF Sessions
  <2> HIDE DEF r
  <2> QED
    BY <1>1, <2>1, <2>2, StatementGoesOn
<1>10. CASE Insert(w)
  <2> DEFINE k == First(tx[w].todo)
             r == [tx[w] EXCEPT !.todo = @ \ {k}, !.next = "commit", !.pc = "snapshot"]
             q == [tx[w] EXCEPT !.todo = @ \ {k}, !.next = "commit", !.pc = "insert"]
  <2>1. \/ RollBack(w, "conflict") /\ Visible(w)[RowId(tx[w], k)] # Gone
        \/ Statement(w, r) \/ Statement(w, q)
    BY <1>1, <1>10, InsertMoves
  <2>2. r.job = tx[w].job /\ r.pc = "snapshot" /\ q.job = tx[w].job /\ q.pc = "insert"
    BY <1>1 DEF Sessions
  <2> HIDE DEF r, q
  <2> QED
    BY <1>1, <1>10, <2>1, <2>2, StatementGoesOn DEF Ending
<1>11. CASE Snapshot(w)
  <2> DEFINE r == [tx[w] EXCEPT !.pc = "fill", !.snap = Visible(w)]
  <2>1. Statement(w, r)
    BY <1>1, <1>11, SnapshotMoves
  <2>2. r.job = tx[w].job /\ r.pc = "fill"
    BY <1>1 DEF Sessions
  <2> HIDE DEF r
  <2> QED
    BY <1>1, <2>1, <2>2, StatementGoesOn
<1>12. CASE Fill(w)
  <2> DEFINE r == [tx[w] EXCEPT !.pc = tx[w].next]
  <2>1. Statement(w, r) /\ tx[w].pc = "fill"
    BY <1>1, <1>12, FillMoves
  <2>2. r.job = tx[w].job /\ r.pc = tx[w].next
    BY <1>2
  <2>3. tx[w].next # "idle"
    BY <1>1, <2>1 DEF SessionOK, Stage
  <2> HIDE DEF r
  <2> QED
    BY <1>1, <2>1, <2>2, <2>3, StatementGoesOn
<1> QED
  BY <1>3, <1>4, <1>5, <1>6, <1>7, <1>8, <1>9, <1>10, <1>11, <1>12 DEF Step, Ending

\* A request arrives, a transaction ends, or neither.
LEMMA StepKinds ==
    ASSUME IInv, [Next]_vars
    PROVE  (\E w \in Writers : Begin(w) \/ Ending(w)) \/ GoesOn
<1>1. CASE \E w \in Writers : Begin(w) \/ Step(w) \/ Fail(w)
  BY <1>1, StepEndsOrGoesOn DEF Ending
<1>2. CASE \E r \in Readers : Search(r) \/ ReadView(r) \/ EndSearch(r)
  BY <1>2 DEF Search, ReadView, EndSearch, SearchGoes, GoesOn
<1>3. CASE UNCHANGED vars
  BY <1>3 DEF vars, GoesOn
<1> QED
  BY <1>1, <1>2, <1>3 DEF Next

\* An ending lands the rows that were written or nothing, and says so.
LEMMA EndingMoves ==
    ASSUME IInv, NEW w \in Writers, Ending(w)
    PROVE  /\ tx[w].pc # "idle"
           /\ \/ /\ tx[w].pc = "commit"
                 /\ Land(w, "modified") \/ Land(w, "failed")
              \/ \E answer \in {"exists", "not_found", "conflict", "deadlock", "failed"} :
                   RollBack(w, answer)
           /\ \A u \in Writers \ {w} :
                tx'[u].pc = tx[u].pc /\ tx'[u].job = tx[u].job /\ reply'[u] = reply[u]
           /\ tx'[w] = Closed
<1>1. tx[w].pc # "idle"
  <2>1. CASE Deadlock(w)
    BY <2>1, VictimsWait DEF Deadlock, WaitsFor, At
  <2>2. CASE ~Deadlock(w)
    BY <2>2 DEF Ending, Commit, Land, Check, NotFound, Insert, InsertNothing, Fail, At
  <2> QED
    BY <2>1, <2>2
<1>2. \/ Land(w, "modified") \/ Land(w, "failed")
      \/ \E answer \in {"exists", "not_found", "conflict", "deadlock", "failed"} :
            RollBack(w, answer)
  BY DEF Ending, Commit, NotFound, InsertNothing, Deadlock, Fail
<1>3. PICK answer \in {"modified", "exists", "not_found", "conflict", "deadlock", "failed"},
           wrote \in SUBSET RowIds : EndTx(w, answer, wrote)
  BY <1>2 DEF Land, RollBack
<1>4. /\ tx'[w] = Closed /\ reply' = [reply EXCEPT ![w] = answer]
      /\ \A u \in Writers \ {w} :
           IF HasRead(tx[u]) THEN tx'[u] = [tx[u] EXCEPT !.since = @ \cup wrote]
           ELSE tx'[u] = tx[u]
  BY <1>3, EndMoves DEF IInv
<1>5. \A u \in Writers \ {w} : tx'[u].pc = tx[u].pc /\ tx'[u].job = tx[u].job
  BY <1>4 DEF IInv, TypeOK, Sessions
<1>6. \A u \in Writers \ {w} : reply'[u] = reply[u]
  BY <1>4 DEF IInv, TypeOK
<1> QED
  BY <1>1, <1>2, <1>4, <1>5, <1>6 DEF Land, At

\* A transaction that is over in the next state has ended in this step.
LEMMA EndedHere ==
    ASSUME IInv, [Next]_vars, NEW w \in Writers, tx[w].pc # "idle", tx'[w].pc = "idle"
    PROVE  Ending(w)
<1>1. ~GoesOn
  BY DEF GoesOn
<1>2. PICK u \in Writers : Begin(u) \/ Ending(u)
  BY <1>1, StepKinds
<1>3. CASE u = w
  BY <1>2, <1>3 DEF Begin, At
<1>4. CASE u # w
  <2>1. tx'[w].pc = tx[w].pc
    <3>1. CASE Begin(u)
      <4>1. tx'[w] = [tx[w] EXCEPT !.alone = FALSE]
        BY <1>4, <3>1, BeginMoves DEF IInv
      <4> QED
        BY <4>1 DEF IInv, TypeOK, Sessions
    <3>2. CASE Ending(u)
      BY <1>4, <3>2, EndingMoves
    <3> QED
      BY <1>2, <3>1, <3>2
  <2> QED
    BY <2>1
<1> QED
  BY <1>3, <1>4

-----------------------------------------------------------------------------
(* What the invariant says of a request                                     *)

\* The rows of elements without an id are free, and no client names them.
LEMMA OwnRows ==
    ASSUME IInv, NEW w \in Writers, tx[w].pc # "idle",
           NEW k \in Positions(tx[w].job), ~HasId(tx[w], k)
    PROVE  /\ RowId(tx[w], k) = <<tx[w].number, k>> /\ RowId(tx[w], k) \in NewIds
           /\ table[RowId(tx[w], k)] = Gone
           /\ \A n \in Positions(tx[w].job) : RowId(tx[w], n) = RowId(tx[w], k) => n = k
<1> DEFINE s == tx[w]
<1>1. WriterOK(w, s)
  BY SessionFacts
<1>2. s.job \in Jobs /\ s.number \in 1..MaxJobs /\ k \in 1..MaxItems
  BY <1>1, JobFacts DEF WriterOK
<1>3. RowId(s, k) = <<s.number, k>> /\ RowId(s, k) \in NewIds
  BY <1>1, <1>2, RowFacts DEF WriterOK, NewIds
<1>4. table[<<s.number, k>>] = Gone
  BY <1>2 DEF IInv, NumberInv, UuidsFree
<1>5. ASSUME NEW n \in Positions(s.job), RowId(s, n) = <<s.number, k>>
      PROVE  n = k
  <2>1. CASE HasId(s, n)
    <3>1. IsBulk(s) /\ n \in DOMAIN s.job.elements /\ s.job.elements[n].id = <<s.number, k>>
      BY <1>2, <1>5, <2>1, JobFacts DEF HasId, RowId, IsBulk
    <3>2. s.number < s.number
      BY <1>2, <3>1 DEF IInv, NumberInv, UuidsUnknown
    <3> QED
      BY <1>2, <3>2
  <2>2. CASE ~HasId(s, n)
    <3>1. RowId(s, n) = <<s.number, n>>
      BY <2>2 DEF RowId
    <3> QED
      BY <1>5, <3>1
  <2> QED
    BY <2>1, <2>2
<1> QED
  BY <1>3, <1>4, <1>5

\* Two elements of a bulk request on one row have the same id.
LEMMA SameRowSameId ==
    ASSUME IInv, NEW w \in Writers, tx[w].pc # "idle",
           NEW k \in Positions(tx[w].job), NEW n \in Positions(tx[w].job), k # n,
           RowId(tx[w], k) = RowId(tx[w], n)
    PROVE  /\ IsBulk(tx[w]) /\ HasId(tx[w], k) /\ HasId(tx[w], n)
           /\ k \in DOMAIN tx[w].job.elements /\ n \in DOMAIN tx[w].job.elements
           /\ tx[w].job.elements[k].id = tx[w].job.elements[n].id
<1>1. HasId(tx[w], k) /\ HasId(tx[w], n)
  BY OwnRows
<1>2. tx[w].job \in Jobs
  BY SessionFacts DEF WriterOK
<1> QED
  BY <1>1, <1>2, JobFacts DEF HasId, RowId, IsBulk

\* What a bulk request that has come to its COMMIT has written.
LEMMA BulkAtCommit ==
    ASSUME IInv, NEW w \in Writers, tx[w].pc = "commit", IsBulk(tx[w])
    PROVE  LET s == tx[w]
           IN  /\ \A k \in Positions(s.job) : \E n \in Positions(s.job) :
                    /\ n >= k /\ RowId(s, n) = RowId(s, k)
                    /\ writes[w][RowId(s, k)] = TextAt(s, n)
               /\ \A i \in RowIds : writes[w][i] # Untouched =>
                    \E k \in Positions(s.job) : i = RowId(s, k) /\ writes[w][i] = TextAt(s, k)
<1> DEFINE s == tx[w]
<1>1. WriterOK(w, s) /\ Stage(s) = "commit" /\ HasRead(s)
  BY SessionFacts DEF Stage, HasRead
<1>2. /\ BulkOK(s, writes[w]) /\ s.todo = {} /\ s.job \in Jobs
      /\ s.updated \subseteq Positions(s.job) /\ Positions(s.job) \subseteq 1..MaxItems
  BY <1>1, JobFacts DEF WriterOK, SessionOK
<1>3. Inserted(s) = ToInsert(s)
  BY <1>1, <1>2 DEF Inserted
<1>4. ASSUME NEW k \in Positions(s.job)
      PROVE  \E n \in Positions(s.job) : /\ n >= k /\ RowId(s, n) = RowId(s, k)
                                         /\ writes[w][RowId(s, k)] = TextAt(s, n)
  <2>1. CASE RowId(s, k) \notin UpdatedIds(s)
    <3>1. k \in Inserted(s)
      BY <1>3, <2>1 DEF ToInsert
    <3>2. writes[w][RowId(s, k)] = TextAt(s, k) /\ k >= k
      BY <1>2, <3>1 DEF BulkOK
    <3> QED
      BY <3>2
  <2>2. CASE RowId(s, k) \in UpdatedIds(s)
    <3>1. PICK m \in s.updated : RowId(s, m) = RowId(s, k)
      BY <2>2 DEF UpdatedIds
    <3>2. HasId(s, m)
      BY <1>2 DEF BulkOK, Handled
    <3>3. HasId(s, k)
      BY <1>1, <1>2, <3>1, <3>2, OwnRows
    <3>4. k \in Handled(s)
      BY <1>1, <3>3 DEF Handled
    <3> QED
      BY <1>2, <2>2, <3>4 DEF BulkOK
  <2> QED
    BY <2>1, <2>2
<1>5. Inserted(s) \subseteq Positions(s.job)
  BY DEF Inserted, ToInsert
<1>6. \A i \in RowIds : writes[w][i] # Untouched =>
        \E k \in Positions(s.job) : i = RowId(s, k) /\ writes[w][i] = TextAt(s, k)
  BY <1>2, <1>5 DEF BulkOK
<1> QED
  BY <1>4, <1>6

\* What a refresh that has come to its COMMIT has written.
LEMMA SyncAtCommit ==
    ASSUME IInv, NEW w \in Writers, tx[w].pc = "commit", ~IsBulk(tx[w])
    PROVE  LET s == tx[w]
           IN  /\ SyncOK(s, writes[w], table) /\ Stage(s) = "commit"
               /\ s.job.kind = "sync" /\ s.job \in Jobs
               /\ \A k \in DOMAIN s.job.sheet : TextAt(s, k) = s.job.sheet[k]
               /\ Positions(s.job) = DOMAIN s.job.sheet
               /\ s.missing = Values(s.base) \ {s.job.sheet[k] : k \in DOMAIN s.job.sheet}
<1> DEFINE s == tx[w]
<1>1. WriterOK(w, s) /\ Stage(s) = "commit" /\ HasRead(s)
  BY SessionFacts DEF Stage, HasRead
<1>2. SyncOK(s, writes[w], table) /\ s.job \in Jobs
  BY <1>1 DEF WriterOK
<1>3. s.job.kind = "sync" /\ TextsOf(s.job) = s.job.sheet
  BY <1>2, JobFacts DEF IsBulk
<1>4. Positions(s.job) = DOMAIN s.job.sheet /\ \A k : TextAt(s, k) = s.job.sheet[k]
  BY <1>3 DEF Positions, TextAt
<1>5. s.missing = Values(s.base) \ {s.job.sheet[k] : k \in DOMAIN s.job.sheet}
  BY <1>2, <1>4 DEF SyncOK
<1> QED
  BY <1>1, <1>2, <1>3, <1>4, <1>5

-----------------------------------------------------------------------------
(* The properties of the runs                                               *)

\* Whatever others do, what is still there after a refresh and not in the sheet has
\* been committed by somebody else since the refresh read the table (glossary.py:157,
\* 165).
THEOREM RemovesTheRest == Spec => RefreshRemovesTheRest
<1>1. ASSUME IInv, [Next]_vars, NEW w \in Writers, At(w, "commit"), tx'[w].pc = "idle",
             reply'[w] = "modified", tx[w].job.kind = "sync", NEW i \in RowIds,
             table'[i] \notin {Gone} \cup {tx[w].job.sheet[k] : k \in DOMAIN tx[w].job.sheet}
      PROVE  i \in tx[w].since
  <2> DEFINE s == tx[w]
  <2>1. Land(w, "modified")
    <3>1. Ending(w) /\ reply \in [Writers -> {"none", "exists", "modified", "not_found",
                                              "conflict", "deadlock", "failed"}]
      BY <1>1, EndedHere DEF At, IInv, TypeOK
    <3>2. CASE Land(w, "modified")
      BY <3>2
    <3>3. CASE Land(w, "failed")
      BY <1>1, <3>1, <3>3 DEF Land, EndTx
    <3>4. ASSUME NEW answer \in {"exists", "not_found", "conflict", "deadlock", "failed"},
                 RollBack(w, answer)
          PROVE  FALSE
      BY <1>1, <3>1, <3>4 DEF RollBack, EndTx
    <3> QED
      BY <1>1, <3>1, <3>2, <3>3, <3>4, EndingMoves
  <2>2. table'[i] = IF writes[w][i] = Untouched THEN table[i] ELSE writes[w][i]
    BY <2>1 DEF Land, Visible
  <2>3. s.pc = "commit" /\ ~IsBulk(s)
    BY <1>1 DEF At, IsBulk
  <2>4. /\ SyncOK(s, writes[w], table) /\ Stage(s) = "commit"
        /\ \A k \in DOMAIN s.job.sheet : TextAt(s, k) = s.job.sheet[k]
        /\ Positions(s.job) = DOMAIN s.job.sheet
        /\ s.missing = Values(s.base) \ {s.job.sheet[k] : k \in DOMAIN s.job.sheet}
    BY <1>1, <2>3, SyncAtCommit
  <2> SUFFICES ASSUME i \notin s.since PROVE FALSE
    OBVIOUS
  <2>5. table[i] = s.base[i] /\ (table[i] \in s.missing => writes[w][i] = Gone)
    BY <2>4 DEF SyncOK
  <2>6. writes[w][i] \in Texts => writes[w][i] \in {s.job.sheet[k] : k \in DOMAIN s.job.sheet}
    BY <2>4 DEF SyncOK
  <2>7. writes[w][i] \in Texts \cup {Gone, Untouched} /\ table[i] \in Texts \cup {Gone}
    BY <1>1 DEF IInv, TypeOK, Rows
  <2>8. writes[w][i] = Untouched
    BY <1>1, <2>2, <2>6, <2>7
  <2>9. table[i] \in s.missing
    BY <1>1, <2>2, <2>4, <2>5, <2>8 DEF Values
  <2> QED
    BY <2>5, <2>8, <2>9, NamesAssumption
<1>2. IInv /\ [Next]_vars =>
        \A w \in Writers : At(w, "commit") /\ tx'[w].pc = "idle" /\ reply'[w] = "modified"
              /\ tx[w].job.kind = "sync" =>
            \A i \in RowIds :
                table'[i] \notin {Gone} \cup {tx[w].job.sheet[k] : k \in DOMAIN tx[w].job.sheet}
                    => i \in tx[w].since
  BY <1>1
<1> QED
  BY <1>2, Inductive, PTL DEF Spec, RefreshRemovesTheRest

\* A text that a transaction lands was not in the table when it looked: a copy of it
\* has come since (glossary.py:65-81, 304).
THEOREM Copies == Spec => CopiesAreConcurrent
<1>1. ASSUME IInv, NEW w \in Writers, tx[w].pc = "commit", NEW i \in RowIds, NEW j \in RowIds,
             writes[w][i] \in Texts, table[j] = writes[w][i]
      PROVE  tx[w].base[j] # table[j]
  <2>1. writes[w][i] \notin Values(tx[w].base)
    <3>1. CASE IsBulk(tx[w])
      <4>1. PICK k \in Positions(tx[w].job) : writes[w][i] = TextAt(tx[w], k)
        BY <1>1, <3>1, BulkAtCommit, NamesAssumption
      <4>2. BulkOK(tx[w], writes[w])
        BY <1>1, <3>1 DEF IInv, BulkInv, HasRead
      <4> QED
        BY <4>1, <4>2 DEF BulkOK
    <3>2. CASE ~IsBulk(tx[w])
      <4>1. SyncOK(tx[w], writes[w], table)
        BY <1>1, <3>2, SyncAtCommit
      <4> QED
        BY <1>1, <4>1 DEF SyncOK
    <3> QED
      BY <3>1, <3>2
  <2> QED
    BY <1>1, <2>1, NamesAssumption DEF Values
<1>2. IInv =>
        \A w \in Writers : Lands(w) =>
            \A i, j \in RowIds :
                (/\ writes[w][i] \in Texts /\ writes[w][j] = Untouched
                 /\ table[j] = writes[w][i]) => tx[w].base[j] # table[j]
  BY <1>1 DEF Lands
<1> QED
  BY <1>2, Inductive, PTL DEF CopiesAreConcurrent

\* Nobody waits while no other transaction is open.
LEMMA LoneWritersDoNotWait ==
    ASSUME IInv, NEW w \in Writers, tx[w].alone, NEW v \in Writers
    PROVE  ~WaitsFor(w, v)
<1>1. \A u \in Writers \ {w} : writes[u] = Clean /\ viewLock # u
  BY DEF IInv, AloneInv, At, FreshInv, HasRead
<1>2. tx[w] \in Sessions /\ \A k \in 1..MaxItems : k \in tx[w].todo => RowId(tx[w], k) \in RowIds
  BY DEF IInv, TypeOK
<1>3. \A i \in RowIds : Owners(w, i) = {}
  BY <1>1 DEF Owners, Clean
<1>4. /\ tx[w].victims \subseteq RowIds
      /\ tx[w].todo # {} => RowId(tx[w], First(tx[w].todo)) \in RowIds
  BY <1>2, FirstIsLeast DEF Sessions
<1> QED
  BY <1>1, <1>3, <1>4 DEF WaitsFor

\* The INSERT of a lone writer meets a row only if its request names one id twice: it
\* is free for uuid4s, and an id that it has not updated was not in the table.
LEMMA LoneInsert ==
    ASSUME IInv, NEW w \in Writers, tx[w].alone, tx[w].pc = "insert",
           \/ tx[w].todo # {} /\ Visible(w)[RowId(tx[w], First(tx[w].todo))] # Gone
           \/ tx[w].todo = {}
    PROVE  \E m, n \in Positions(tx[w].job) : m # n /\ RowId(tx[w], m) = RowId(tx[w], n)
<1> DEFINE s == tx[w]
           k == First(s.todo)
           i == RowId(s, k)
<1>1. WriterOK(w, s) /\ Stage(s) = "insert" /\ HasRead(s)
  BY SessionFacts DEF Stage, HasRead
<1>2. /\ s \in Sessions /\ s.job \in Jobs /\ s.number \in 1..MaxJobs
      /\ s.todo \subseteq Positions(s.job) /\ s.updated \subseteq Positions(s.job)
      /\ AloneOK(s, writes[w], table, viewLock, w)
      /\ Positions(s.job) \subseteq 1..MaxItems
  BY <1>1, JobFacts DEF WriterOK, SessionOK
<1>3. CASE s.todo # {} /\ Visible(w)[i] # Gone
  <2>1. k \in s.todo /\ k \in Positions(s.job) /\ i \in RowIds
    BY <1>2, <1>3, FirstIsLeast, RowFacts
  <2> HIDE DEF k
  <2>2. CASE writes[w][i] = Untouched
    <3>1. table[i] # Gone
      BY <1>3, <2>1, <2>2 DEF Visible
    <3>2. HasId(s, k)
      BY <2>1, <3>1, OwnRows
    <3>3. IsBulk(s) /\ k \in Handled(s)
      BY <1>1, <2>1, <3>2 DEF HasId, IsBulk, Handled
    <3>4. i \in UpdatedIds(s)
      BY <1>1, <1>2, <3>1, <3>3 DEF AloneOK
    <3>5. s.todo \subseteq ToInsert(s)
      BY <1>1, <3>3 DEF WriterOK, BulkOK
    <3> QED
      BY <2>1, <3>4, <3>5 DEF ToInsert
  <2>3. CASE writes[w][i] # Untouched /\ IsBulk(s)
    <3>1. BulkOK(s, writes[w])
      BY <1>1, <2>3 DEF WriterOK
    <3>2. PICK n \in s.updated \cup Inserted(s) : i = RowId(s, n)
      BY <2>1, <2>3, <3>1 DEF BulkOK
    <3>3. n \in Positions(s.job)
      BY <1>2 DEF Inserted, ToInsert
    <3>4. n \in s.updated => i \in UpdatedIds(s)
      BY <3>2 DEF UpdatedIds
    <3>5. k \in ToInsert(s)
      BY <1>1, <2>1, <3>1 DEF BulkOK
    <3>6. n # k
      BY <2>1, <3>2, <3>4, <3>5 DEF ToInsert, Inserted
    <3> QED
      BY <2>1, <3>2, <3>3, <3>6
  <2>4. CASE writes[w][i] # Untouched /\ ~IsBulk(s)
    <3>1. SyncOK(s, writes[w], table)
      BY <1>1, <2>4 DEF WriterOK
    <3>2. ~HasId(s, k)
      BY <2>4 DEF HasId, IsBulk
    <3>3. i = <<s.number, k>> /\ table[i] = Gone
      BY <2>1, <3>2, OwnRows
    <3>4. s.missing \subseteq Texts
      BY <1>2 DEF Sessions
    <3>5. writes[w][i] # Gone
      BY <2>1, <3>1, <3>3, <3>4, NamesAssumption DEF SyncOK
    <3>6. writes[w][i] \in Texts
      BY <1>1, <2>1, <2>4, <3>5 DEF WriterOK
    <3>7. \E n \in Positions(s.job) \ s.todo : i = <<s.number, n>>
      BY <2>1, <3>1, <3>6 DEF SyncOK
    <3> QED
      BY <2>1, <3>3, <3>7
  <2> QED
    BY <2>2, <2>3, <2>4
<1>4. CASE s.todo = {}
  <2>1. IsBulk(s)
    BY <1>1, <1>4 DEF WriterOK, SyncOK
  <2>2. BulkOK(s, writes[w])
    BY <1>1, <2>1 DEF WriterOK
  <2>3. ToInsert(s) = {} /\ s.updated # Positions(s.job)
    BY <1>1, <1>4, <2>2 DEF BulkOK
  <2>4. PICK m \in Positions(s.job) : m \notin s.updated
    BY <1>2, <2>3
  <2>5. RowId(s, m) \in UpdatedIds(s)
    BY <2>3 DEF ToInsert
  <2>6. PICK n \in s.updated : RowId(s, n) = RowId(s, m)
    BY <2>5 DEF UpdatedIds
  <2> QED
    BY <1>2, <2>4, <2>6
<1> QED
  BY <1>3, <1>4

\* A writer that meets no other transaction is served: a refresh succeeds, a bulk
\* request fails only for a text that is there or an id that it gives twice, and the
\* view it leaves behind is the table (glossary.py:85-113, migration 87-91).
THEOREM LoneWriter == Spec => LoneWriterIsRight
<1>1. ASSUME IInv, [Next]_vars, NEW w \in Writers, tx[w].alone, tx'[w].pc = "idle"
      PROVE  LET es == tx[w].job.elements IN
             /\ \/ reply'[w] \in {"modified", "failed"}
                \/ tx[w].job.kind = "bulk" /\ reply'[w] = "exists"
                \/ /\ tx[w].job.kind = "bulk" /\ reply'[w] = "conflict"
                   /\ \E m, n \in DOMAIN es : m # n /\ es[m].id = es[n].id
             /\ Lands(w) /\ (reply'[w] = "modified" \/ table' # table) => view' = table'
  <2>1. tx[w].pc # "idle"
    BY <1>1 DEF IInv, SessionInv, SessionOK, Closed
  <2>2. Ending(w)
    BY <1>1, <2>1, EndedHere
  <2>3. /\ AloneOK(tx[w], writes[w], table, viewLock, w) /\ WriterOK(w, tx[w])
        /\ reply \in [Writers -> {"none", "exists", "modified", "not_found", "conflict",
                                  "deadlock", "failed"}]
    BY <1>1, SessionFacts DEF IInv, AloneInv, TypeOK
  <2>4. \A answer : RollBack(w, answer) => reply'[w] = answer /\ table' = table
    BY <2>3 DEF RollBack, EndTx
  <2>5. CASE Land(w, "modified") \/ Land(w, "failed")
    <3>1. reply'[w] \in {"modified", "failed"}
      BY <2>3, <2>5 DEF Land, EndTx
    <3>2. /\ tx[w].pc = "commit" /\ table' = Visible(w)
          /\ view' = IF viewLock = w THEN tx[w].snap ELSE view
      BY <2>5 DEF Land, At
    <3>3. writes[w] # Clean => view' = table'
      BY <2>3, <3>2 DEF AloneOK, WriterOK
    <3> QED
      BY <3>1, <3>3 DEF Lands
  <2>6. CASE Check(w) /\ RollBack(w, "exists")
    <3>1. tx[w].job.kind = "bulk"
      BY <2>3, <2>6, JobFacts DEF Check, At, WriterOK, SessionOK, Stage, IsBulk
    <3> QED
      BY <2>4, <2>6, <3>1
  <2>7. CASE NotFound(w)
    BY <2>3, <2>7 DEF NotFound, At, AloneOK, Stage
  <2>8. CASE InsertNothing(w) \/ (/\ Insert(w) /\ RollBack(w, "conflict")
                                  /\ Visible(w)[RowId(tx[w], First(tx[w].todo))] # Gone)
    <3>1. \E m, n \in Positions(tx[w].job) : m # n /\ RowId(tx[w], m) = RowId(tx[w], n)
      BY <1>1, <2>8, LoneInsert DEF InsertNothing, Insert, At
    <3>2. tx[w].job.kind = "bulk"
          /\ \E m, n \in DOMAIN tx[w].job.elements :
               m # n /\ tx[w].job.elements[m].id = tx[w].job.elements[n].id
      BY <1>1, <2>1, <3>1, SameRowSameId DEF IsBulk
    <3>3. RollBack(w, "conflict")
      BY <2>8 DEF InsertNothing
    <3> QED
      BY <2>4, <3>2, <3>3
  <2>9. CASE Deadlock(w)
    BY <1>1, <2>9, VictimsWait, LoneWritersDoNotWait DEF Deadlock
  <2>10. CASE RollBack(w, "failed")
    BY <2>4, <2>10
  <2> QED
    BY <2>2, <2>5, <2>6, <2>7, <2>8, <2>9, <2>10 DEF Ending, Commit, Fail
<1>2. IInv /\ [Next]_vars =>
        \A w \in Writers : tx[w].alone /\ tx'[w].pc = "idle" =>
            LET es == tx[w].job.elements IN
            /\ \/ reply'[w] \in {"modified", "failed"}
               \/ tx[w].job.kind = "bulk" /\ reply'[w] = "exists"
               \/ /\ tx[w].job.kind = "bulk" /\ reply'[w] = "conflict"
                  /\ \E m, n \in DOMAIN es : m # n /\ es[m].id = es[n].id
            /\ Lands(w) /\ (reply'[w] = "modified" \/ table' # table) => view' = table'
  BY <1>1
<1> QED
  BY <1>2, Inductive, PTL DEF Spec, LoneWriterIsRight

-----------------------------------------------------------------------------
(* The writers implement the contract                                       *)

\* A bulk request that commits has stored its elements and touched no other row.
LEMMA BulkEffect ==
    ASSUME IInv, NEW w \in Writers, tx[w].pc = "commit", IsBulk(tx[w])
    PROVE  LET es == tx[w].job.elements
           IN  Promise!Stored(es, Visible(w)) /\ Promise!OnlyTheirRows(es, Visible(w))
<1> DEFINE s  == tx[w]
           es == s.job.elements
           new == Visible(w)
<1>1. WriterOK(w, s)
  BY SessionFacts
<1>2. /\ s \in Sessions /\ s.job \in Jobs /\ s.number \in 1..MaxJobs
      /\ Positions(s.job) = DOMAIN es /\ Positions(s.job) \subseteq 1..MaxItems
      /\ \A k \in DOMAIN es : TextAt(s, k) = es[k].text /\ TextAt(s, k) \in Texts
  BY <1>1, JobFacts DEF WriterOK, IsBulk, TextAt
<1>3. \A k \in DOMAIN es :
        /\ RowId(s, k) \in RowIds
        /\ es[k].id # NoId => HasId(s, k) /\ RowId(s, k) = es[k].id
        /\ es[k].id = NoId => ~HasId(s, k)
  BY <1>2, RowFacts DEF HasId, RowId, IsBulk
<1>4. \A i \in RowIds : new[i] = IF writes[w][i] = Untouched THEN table[i] ELSE writes[w][i]
  BY DEF Visible
<1>5. /\ \A k \in DOMAIN es : \E n \in DOMAIN es :
           /\ n >= k /\ RowId(s, n) = RowId(s, k)
           /\ writes[w][RowId(s, k)] = TextAt(s, n)
      /\ \A i \in RowIds : writes[w][i] # Untouched =>
           \E k \in DOMAIN es : i = RowId(s, k) /\ writes[w][i] = TextAt(s, k)
  BY <1>2, BulkAtCommit
<1>6. \A k \in DOMAIN es : es[k].id = NoId =>
        /\ RowId(s, k) \in NewIds /\ table[RowId(s, k)] = Gone
        /\ \A n \in DOMAIN es : RowId(s, n) = RowId(s, k) => n = k
  BY <1>2, <1>3, OwnRows
<1> HIDE DEF new, es
<1>7. ASSUME NEW k \in DOMAIN es
      PROVE  IF es[k].id = NoId
             THEN \E i \in NewIds : table[i] = Gone /\ new[i] = es[k].text
             ELSE \E n \in DOMAIN es :
                    n >= k /\ es[n].id = es[k].id /\ new[es[k].id] = es[n].text
  <2>1. PICK n \in DOMAIN es : /\ n >= k /\ RowId(s, n) = RowId(s, k)
                               /\ writes[w][RowId(s, k)] = TextAt(s, n)
    BY <1>5
  <2>2. new[RowId(s, k)] = es[n].text
    BY <1>2, <1>3, <1>4, <2>1, NamesAssumption
  <2>3. CASE es[k].id = NoId
    BY <1>6, <2>1, <2>2, <2>3
  <2>4. CASE es[k].id # NoId
    <3>1. es[n].id # NoId
      BY <1>6, <2>1, <2>4
    <3> QED
      BY <1>3, <2>1, <2>2, <2>4, <3>1
  <2> QED
    BY <2>3, <2>4
<1>8. ASSUME NEW i \in RowIds, new[i] # table[i]
      PROVE  \E k \in DOMAIN es : /\ new[i] = es[k].text
                                  /\ \/ i = es[k].id
                                     \/ es[k].id = NoId /\ i \in NewIds /\ table[i] = Gone
  <2>1. PICK k \in DOMAIN es : i = RowId(s, k) /\ writes[w][i] = TextAt(s, k)
    BY <1>4, <1>5, <1>8
  <2> QED
    BY <1>2, <1>3, <1>4, <1>6, <1>8, <2>1
<1> QED
  BY <1>7, <1>8 DEF Promise!Stored, Promise!OnlyTheirRows, new, es

\* A refresh that commits takes only what the sheet lacks and adds only what it has.
LEMMA SyncEffect ==
    ASSUME IInv, NEW w \in Writers, tx[w].pc = "commit", ~IsBulk(tx[w])
    PROVE  Promise!Merges(tx[w].job, Visible(w))
<1> DEFINE s == tx[w]
           sheet == s.job.sheet
           new == Visible(w)
<1>1. WriterOK(w, s)
  BY SessionFacts
<1>2. /\ SyncOK(s, writes[w], table) /\ s.job \in Jobs
      /\ \A k \in DOMAIN sheet : TextAt(s, k) = sheet[k]
      /\ Positions(s.job) = DOMAIN sheet
      /\ s.missing = Values(s.base) \ {sheet[k] : k \in DOMAIN sheet}
  BY SyncAtCommit
<1>3. /\ \A k \in DOMAIN sheet : ~HasId(s, k)
      /\ \A k, m \in DOMAIN sheet : sheet[k] = sheet[m] => k = m
  BY <1>2, JobFacts DEF HasId, IsBulk, TextAt
<1>4. \A i \in RowIds :
        /\ new[i] = IF writes[w][i] = Untouched THEN table[i] ELSE writes[w][i]
        /\ writes[w][i] \in Texts \cup {Gone, Untouched}
  BY <1>1 DEF Visible, WriterOK
<1>5. \A i \in RowIds :
        /\ writes[w][i] = Gone => table[i] \notin {sheet[k] : k \in DOMAIN sheet}
        /\ writes[w][i] \in Texts =>
             \E k \in DOMAIN sheet : /\ i = <<s.number, k>> /\ i \in NewIds /\ table[i] = Gone
                                     /\ writes[w][i] = sheet[k]
  <2> TAKE i \in RowIds
  <2>1. writes[w][i] = Gone => table[i] \in s.missing
    BY <1>2 DEF SyncOK
  <2>2. ASSUME writes[w][i] \in Texts
        PROVE  \E k \in DOMAIN sheet : /\ i = <<s.number, k>> /\ i \in NewIds
                                       /\ table[i] = Gone /\ writes[w][i] = sheet[k]
    <3>1. PICK k \in DOMAIN sheet : i = <<s.number, k>> /\ writes[w][i] = TextAt(s, k)
      BY <1>2, <2>2 DEF SyncOK
    <3>2. i \in NewIds /\ table[i] = Gone
      BY <1>2, <1>3, <3>1, OwnRows
    <3> QED
      BY <1>2, <3>1, <3>2
  <2> QED
    BY <1>2, <2>1, <2>2
<1> HIDE DEF new, sheet
<1>6. \A i \in RowIds : new[i] # table[i] /\ table[i] # Gone =>
        new[i] = Gone /\ ~Promise!InSheet(s.job, table[i])
  <2> SUFFICES ASSUME NEW i \in RowIds, new[i] # table[i], table[i] # Gone
               PROVE  new[i] = Gone /\ ~Promise!InSheet(s.job, table[i])
    OBVIOUS
  <2>1. writes[w][i] = Gone
    BY <1>4, <1>5
  <2> QED
    BY <1>4, <1>5, <2>1, NamesAssumption DEF Promise!InSheet, sheet
<1>7. \A i \in RowIds : table[i] = Gone /\ new[i] # Gone =>
        \E k \in DOMAIN sheet : i = <<s.number, k>> /\ i \in NewIds /\ new[i] = sheet[k]
  BY <1>4, <1>5
<1>8. \A i \in {i \in RowIds : table[i] = Gone /\ new[i] # Gone} :
        i \in NewIds /\ Promise!InSheet(s.job, new[i])
  BY <1>7 DEF Promise!InSheet, sheet
<1>9. \A i, j \in {i \in RowIds : table[i] = Gone /\ new[i] # Gone} : new[i] = new[j] => i = j
  BY <1>3, <1>7
<1> QED
  BY <1>6, <1>8, <1>9 DEF Promise!Merges, new

\* A transaction takes effect as a whole with its answer, whatever the others do in
\* between: "modified" means that all of a bulk request is stored and nothing else
\* touched, or that a refresh took only what the sheet lacks and added what it has; a
\* refusal leaves no trace (glossary.py:60-121, 155-185).
THEOREM KeepsPromise == Spec => KeepsThePromise
<1>1. Init => Promise!Init
  <2> SUFFICES ASSUME Init PROVE Promise!Init
    OBVIOUS
  <2>1. table \in [RowIds -> Texts \cup {Gone}]
    BY TablesAssumption DEF Init
  <2>2. [w \in Writers |-> tx[w].job] = [w \in Writers |-> NoJob]
    BY DEF Init, Closed
  <2> QED
    BY <2>1, <2>2 DEF Init, Promise!Init
<1>2. IInv /\ [Next]_vars => [Promise!Next]_(Promise!vars)
  <2> SUFFICES ASSUME IInv, [Next]_vars PROVE [Promise!Next]_(Promise!vars)
    OBVIOUS
  <2> DEFINE request == [w \in Writers |-> tx[w].job]
  <2>1. CASE GoesOn
    <3>1. request' = request
      BY <2>1 DEF GoesOn
    <3> QED
      BY <2>1, <3>1 DEF GoesOn, Promise!vars
  <2>2. ASSUME NEW w \in Writers, Begin(w) PROVE Promise!Ask(w)
    <3>1. request[w] = NoJob
      <4>1. tx[w] = Closed
        BY <2>2 DEF Begin, At, IInv, SessionInv, SessionOK
      <4> QED
        BY <4>1 DEF Closed
    <3>2. PICK j \in Jobs : tx'[w].job = j
      <4>1. \E j \in Jobs, alone \in BOOLEAN :
              tx'[w] = [Closed EXCEPT !.pc = IF j.kind = "bulk" THEN "check" ELSE "select",
                                      !.job = j, !.number = jobs + 1, !.alone = alone]
        <5>1. TypeOK
          BY DEF IInv
        <5>2. \E j \in Jobs, alone \in BOOLEAN :
                /\ Known(j)
                /\ alone => \A u \in Writers : tx[u].pc = "idle"
                /\ tx'[w] = [Closed EXCEPT !.pc = IF j.kind = "bulk" THEN "check" ELSE "select",
                                           !.job = j, !.number = jobs + 1, !.alone = alone]
          BY <2>2, <5>1, BeginMoves
        <5> QED
          BY <5>2
      <4> QED
        BY <4>1 DEF Closed
    <3>3. \A u \in Writers \ {w} : tx'[u].job = tx[u].job
      <4>1. \A u \in Writers \ {w} : tx'[u] = [tx[u] EXCEPT !.alone = FALSE]
        BY <2>2, BeginMoves DEF IInv
      <4>2. \A u \in Writers : tx[u] \in Sessions
        BY DEF IInv, TypeOK
      <4> QED
        BY <4>1, <4>2 DEF Sessions
    <3>4. request' = [request EXCEPT ![w] = j]
      BY <3>2, <3>3
    <3> QED
      BY <2>2, <3>1, <3>4 DEF Begin, Promise!Ask, Promise!Open
  <2>3. ASSUME NEW w \in Writers, Ending(w)
        PROVE  Promise!Acknowledge(w) \/ Promise!Refuse(w) \/ Promise!Fail(w)
    <3>1. /\ tx[w].pc # "idle" /\ tx'[w] = Closed
          /\ \A u \in Writers \ {w} : tx'[u].job = tx[u].job
      BY <2>3, EndingMoves
    <3>2. tx[w].job # NoJob
      BY <3>1, SessionFacts, JobFacts DEF WriterOK
    <3>3. request' = [request EXCEPT ![w] = NoJob]
      <4>1. tx'[w].job = NoJob
        BY <3>1 DEF Closed
      <4> QED
        BY <3>1, <4>1
    <3>4. ASSUME NEW answer, NEW wrote, EndTx(w, answer, wrote)
          PROVE  Promise!Answer(w, answer)
      BY <3>2, <3>3, <3>4 DEF EndTx, Promise!Answer, Promise!Open
    <3>5. ASSUME NEW answer \in {"exists", "not_found", "conflict", "deadlock", "failed"},
                 RollBack(w, answer)
          PROVE  Promise!Refuse(w) \/ Promise!Fail(w)
      <4>1. Promise!Answer(w, answer) /\ table' = table
        BY <3>4, <3>5 DEF RollBack
      <4> QED
        BY <4>1 DEF Promise!Refuse, Promise!Fail, Promise!Refusals
    <3>6. ASSUME NEW answer \in {"modified", "failed"}, Land(w, answer)
          PROVE  Promise!Acknowledge(w) \/ Promise!Fail(w)
      <4>1. Promise!Answer(w, answer) /\ table' = Visible(w) /\ tx[w].pc = "commit"
        BY <3>4, <3>6 DEF Land, At
      <4>2. Promise!Effect(request[w], table')
        BY <4>1, BulkEffect, SyncEffect DEF Promise!Effect, IsBulk
      <4> QED
        BY <4>1, <4>2 DEF Promise!Acknowledge, Promise!Fail
    <3> QED
      BY <2>3, <3>5, <3>6, EndingMoves
  <2> QED
    BY <2>1, <2>2, <2>3, StepKinds DEF Promise!Next
<1> QED
  BY <1>1, <1>2, Inductive, PTL DEF Spec, KeepsThePromise, Promise!Spec

=============================================================================
