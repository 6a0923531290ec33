--------------------------- MODULE GlossaryReads ---------------------------
(***************************************************************************)
(* POST /glossary/all and GET /glossary/getelements: the search and the    *)
(* listing, read page by page by a client while writers commit.            *)
(*                                                                         *)
(* One query is searched for.  A text is known by what the statements ask  *)
(* of it: its place in either order and, for each of its synonyms, how the *)
(* synonym contains the query, whether it has a space in it, and whether   *)
(* one of its words, taken as the pattern of ILIKE, fits the escaped       *)
(* query.  ge_splitted is derived from the table (GlossaryDB: while writes *)
(* do not overlap, the two agree).                                         *)
(***************************************************************************)
EXTENDS Naturals, FiniteSets, Sequences, FiniteSetsExt, SequencesExt

CONSTANTS
    Ids,         \* ids of elements, in their order
    Contents,    \* what an element may say: [abbreviation, term, definition]
    Limits,      \* page sizes of the clients; 0 is no limit, for the search only
    MaxWrites    \* bound: commits in one behaviour

Part == [how : {"is", "starts", "holds", "apart"}, spaced : BOOLEAN, fits : BOOLEAN]

\* at: place in the database's collation; folded: place in lower case under "C".
Text == [at : Nat, folded : Nat, parts : SUBSET Part]

ASSUME ConstantsAssumption ==
    Ids \subseteq Nat /\ IsFiniteSet(Ids) /\ Limits \subseteq Nat /\ MaxWrites \in Nat
ASSUME ContentsAssumption ==
    /\ Contents \subseteq [abbreviation : Text, term : Text, definition : Nat]
    /\ LET texts == UNION {{c.abbreviation, c.term} : c \in Contents} IN
         \A t \in texts :
            /\ t.parts # {}
            /\ \A u \in texts :
                  /\ t.at = u.at => t = u
                  /\ t.folded = u.folded => t.parts = u.parts

VARIABLES
    table,    \* the elements of glossary_element
    walk,     \* a client's way through the pages
    start,    \* history: the ids in the table when the walk began
    since,    \* history: what commits have done since then
    writes

vars == <<table, walk, start, since, writes>>

Elements == [id : Ids, says : Contents]
IdsOf(T) == {e.id : e \in T}
Tables   == UNION {{{[id |-> i, says |-> f[i]] : i \in I} : f \in [I -> Contents]} : I \in SUBSET Ids}

-----------------------------------------------------------------------------
(* The order of rows                                                       *)

Less(k, l) == \E i \in DOMAIN k : k[i] < l[i] /\ \A j \in 1..i-1 : k[j] = l[j]

\* The orders ORDER BY may return: rows with equal keys come in any order.
Sorted(S, Key(_)) ==
    {s \in SetToSeqs(S) : \A i, j \in DOMAIN s : i < j => ~Less(Key(s[j]), Key(s[i]))}

\* Variant: the offset is off by one.
PageEarly(s, offset, limit) ==
    SubSeq(s, Max({offset, 1}), IF limit = 0 THEN Len(s) ELSE Min({offset + limit, Len(s)}))

\* LIMIT and OFFSET
Page(s, offset, limit) ==
    SubSeq(s, offset + 1, IF limit = 0 THEN Len(s) ELSE Min({offset + limit, Len(s)}))

-----------------------------------------------------------------------------
(* get_glossary_elements_by_text                                           *)

\* The four pairs of levels a synonym can reach.
Stages(p) ==
    {k \in 1..4 : \/ k = 1 /\ p.how = "is" /\ ~p.spaced
                  \/ k = 2 /\ p.fits
                  \/ k = 3 /\ p.how \in {"is", "starts"}
                  \/ k = 4 /\ p.how # "apart"}

\* ge_splitted: a row for every pair of synonyms.
Rows(T) ==
    UNION {[element : {e}, abbreviation : e.says.abbreviation.parts,
                           term : e.says.term.parts] : e \in T}

\* rank_priority is the first of these: odd for abbreviations, even for terms.
Levels(row) ==
    {2 * k - 1 : k \in Stages(row.abbreviation)} \cup {2 * k : k \in Stages(row.term)}

Matching(T) == {row \in Rows(T) : Levels(row) # {}}

\* Variant: no rn = 1.
FoundRepeatedly(T) ==
    {[element |-> row.element, rank |-> Min(Levels(row))] : row \in Matching(T)}

\* Variant: the worst row of an element is kept.
FoundWorst(T) ==
    {[element |-> row.element,
      rank |-> Max({Min(Levels(r)) : r \in {q \in Matching(T) : q.element = row.element}})]
       : row \in Matching(T)}

\* rn = 1: an element once, with the best of its rows.
Found(T) ==
    {[element |-> row.element,
      rank |-> Min({Min(Levels(r)) : r \in {q \in Matching(T) : q.element = row.element}})]
       : row \in Matching(T)}

SearchKey(row) ==
    LET c == row.element.says
        odd == row.rank % 2 = 1
        first  == IF odd THEN c.abbreviation.folded ELSE c.term.folded
        second == IF odd THEN c.term.folded ELSE c.abbreviation.folded
    IN <<row.rank, first, second, c.definition>>

\* Variant: the rows of ge_splitted are counted.
TotalCountOfRows(T) == Cardinality(Matching(T))

\* COUNT(*) OVER ()
TotalCount(T) == Cardinality(Found(T))

-----------------------------------------------------------------------------
(* get_all_glossary_elements                                               *)

\* Variant: equal texts have no order.
ListKeyTied(e) == <<e.says.abbreviation.at, e.says.term.at>>

ListKey(e) == <<e.says.abbreviation.at, e.says.term.at, e.id>>

-----------------------------------------------------------------------------
(* A client reads page after page                                          *)

NoWalk == [op |-> "none", step |-> "ended", limit |-> 0, offset |-> 0,
           seen |-> << >>, total |-> 0, counts |-> {}]

Init ==
    /\ table \in Tables
    /\ start = IdsOf(table)
    /\ walk = NoWalk
    /\ since = {}
    /\ writes = 0

Open ==
    /\ walk.step = "ended"
    /\ \E op \in {"list", "search"}, limit \in Limits :
        /\ op = "list" => limit > 0
        /\ walk' = [NoWalk EXCEPT !.op = op, !.step = "next", !.limit = limit]
    /\ start' = IdsOf(table)
    /\ since' = {}
    /\ UNCHANGED <<table, writes>>

\* A page shorter than asked for is the last.
Turn(page, counts) ==
    walk' = [walk EXCEPT !.step = IF Len(page) < walk.limit \/ walk.limit = 0
                                  THEN "ended" ELSE "next",
                         !.offset = @ + walk.limit,
                         !.seen = @ \o page,
                         !.counts = @ \cup counts]

Search ==
    /\ walk.op = "search" /\ walk.step = "next"
    /\ \E s \in Sorted(Found(table), SearchKey) :
        LET rows == Page(s, walk.offset, walk.limit)
            page == [i \in DOMAIN rows |-> rows[i].element.id]
        IN Turn(page, IF page = << >> THEN {} ELSE {TotalCount(table)})
    /\ UNCHANGED <<table, start, since, writes>>

\* The first statement of the listing.
ListTotal ==
    /\ walk.op = "list" /\ walk.step = "next"
    /\ walk' = [walk EXCEPT !.step = "page", !.total = Cardinality(table)]
    /\ UNCHANGED <<table, start, since, writes>>

\* The second: another transaction may have committed in between.
ListPage ==
    /\ walk.op = "list" /\ walk.step = "page"
    /\ \E s \in Sorted(table, ListKey) :
        LET rows == Page(s, walk.offset, walk.limit)
        IN Turn([i \in DOMAIN rows |-> rows[i].id], {walk.total})
    /\ UNCHANGED <<table, start, since, writes>>

\* A bulk request or a refresh commits.  What was committed before a walk is in
\* the choice of the first table.
Commit ==
    /\ writes < MaxWrites
    /\ walk.step # "ended"
    /\ writes' = writes + 1
    /\ table' \in Tables \ {table}
    /\ LET old == {ListKey(e) : e \in table}
           new == {ListKey(e) : e \in table'}
       IN since' = since \cup {"changed"}
                         \cup (IF old \subseteq new THEN {} ELSE {"removed"})
                         \cup (IF new \subseteq old THEN {} ELSE {"inserted"})
    /\ UNCHANGED <<walk, start>>

Next == Open \/ Search \/ ListTotal \/ ListPage \/ Commit

Spec == Init /\ [][Next]_vars

-----------------------------------------------------------------------------
(* Properties                                                              *)

Walks ==
    [op     : {"none", "list", "search"},
     step   : {"next", "page", "ended"},
     limit  : Limits \cup {0},
     offset : Nat,
     seen   : Seq(Ids),
     total  : 0..Cardinality(Ids),
     counts : SUBSET (0..Cardinality(Ids))]

TypeOK ==
    /\ table \in Tables /\ start \subseteq Ids
    /\ walk \in Walks
    /\ since \subseteq {"changed", "removed", "inserted"}
    /\ writes \in 0..MaxWrites

Ended(op) == walk.op = op /\ walk.step = "ended"
Undisturbed == since = {}
Repeated    == \E i, j \in DOMAIN walk.seen : i # j /\ walk.seen[i] = walk.seen[j]

\* Whatever is inserted while a client walks through the listing, the client is
\* shown every element there was at first: only a deletion, or an update that moves
\* an element, can make it miss one (glossary_element.py:118).
ListMissesNothing ==
    Ended("list") /\ "removed" \notin since => start \subseteq ToSet(walk.seen)

\* Whatever is deleted meanwhile, the client is shown no element twice: only an
\* insertion or a move can repeat one (glossary_element.py:118).
ListRepeatsNothing ==
    walk.op = "list" /\ "inserted" \notin since => ~Repeated

\* What a search should find: a synonym holds the query, or fits it by a word.
Relevant(e) ==
    \E p \in e.says.abbreviation.parts \cup e.says.term.parts : p.how # "apart" \/ p.fits

\* Elements the search has no order for: their texts differ in upper and lower case only.
Confusable(e, f) ==
    /\ e.says.abbreviation.folded = f.says.abbreviation.folded
    /\ e.says.term.folded = f.says.term.folded
    /\ e.says.definition = f.says.definition

\* A client that walks through a search while nothing is written is shown exactly the
\* elements that have to do with the query, each once, however many of their synonyms
\* match; only elements that differ in nothing but case and id can be repeated or
\* missed (glossary_element.py:70, 76-88).
SearchShowsEachOnce ==
    Ended("search") /\ Undisturbed /\ (\A e, f \in table : Confusable(e, f) => e = f) =>
        /\ ~Repeated
        /\ ToSet(walk.seen) = IdsOf({e \in table : Relevant(e)})

Says(id) == (CHOOSE e \in table : e.id = id).says

\* The best stage of a text, 5 if it has none.
Best(text) == Min({5} \cup UNION {Stages(p) : p \in text.parts})

\* Over all pages of an undisturbed search no element comes before one with a better
\* synonym, abbreviations before terms at the same stage: also if the better one is
\* not its first synonym, or the other text matches worse (glossary_element.py:27-70).
SearchBestFirst ==
    Ended("search") /\ Undisturbed =>
        \A i, j \in DOMAIN walk.seen : i < j =>
            LET e == Says(walk.seen[i])
                f == Says(walk.seen[j])
                best == Min({Best(e.abbreviation), Best(e.term)})
            IN /\ best <= Best(f.abbreviation)
               /\ best <= Best(f.term)
               /\ Best(f.abbreviation) = best => Best(e.abbreviation) = best

\* The totals add up: while nothing is written, every page of the listing, the empty
\* ones included, and every page of a search that is not empty reports the number of
\* elements the whole walk shows (glossary_element.py:67, 104, 112-116).
TotalsMatchTheWalk ==
    Undisturbed /\ (Ended("list") \/ Ended("search")) =>
        \A n \in walk.counts : n = Len(walk.seen)
=============================================================================
