-------------------------- MODULE ApiRequestsProofs --------------------------
(* Theorems about the two routes that change the glossary: the statuses keep  *)
(* the service's contract and say what has happened, for any bodies, sheets   *)
(* and tables and any number of requests.                                     *)
EXTENDS ApiRequests, FiltersProofs, FiniteSetTheorems

\* Positions in a body are numbers.
USE ItemsAssumption

Contents == [RowIds -> Rows \cup {Gone}]

Numbers == 1..MaxRequests

\* A body as the service sees it.
IsBody(es) == \E raw \in Requests : es = Parsed(raw)

\* Nothing is stored under the ids that the transaction may make up.
Unused(t, number) == \A k \in 1..MaxItems : t[<<number, k>>] = Gone

-----------------------------------------------------------------------------
(* Bodies                                                                   *)

\* A body has at most MaxItems elements, known by their ids and texts.
LEMMA BodyFacts ==
    ASSUME NEW es, IsBody(es)
    PROVE  /\ \E n \in 0..MaxItems : DOMAIN es = 1..n
           /\ \A k \in DOMAIN es : /\ k \in 1..MaxItems /\ es[k].id \in Ids \cup {NoId}
                                   /\ es[k].text \in [Fields -> Texts \cup {Null}]
<1>1. PICK raw \in Requests : es = Parsed(raw)
  BY DEF IsBody
<1>2. /\ Len(raw) \in 0..MaxItems /\ DOMAIN raw = 1..Len(raw)
      /\ \A k \in DOMAIN raw : raw[k].id \in Ids \cup {NoId} /\ raw[k].text \in [Fields -> Raw]
  BY RequestsAssumption
<1>3. \A r \in Raw : Cell(r) \in Texts \cup {Null}
  BY TextsAssumption DEF Cell
<1>4. DOMAIN es = DOMAIN raw
  BY <1>1 DEF Parsed
<1>5. ASSUME NEW k \in DOMAIN es
      PROVE  /\ k \in 1..MaxItems /\ es[k].id \in Ids \cup {NoId}
             /\ es[k].text \in [Fields -> Texts \cup {Null}]
  <2>1. es[k] = [id |-> raw[k].id, text |-> [f \in Fields |-> Cell(raw[k].text[f])]]
    BY <1>1, <1>4 DEF Parsed
  <2>2. \A f \in Fields : raw[k].text[f] \in Raw
    BY <1>2, <1>4
  <2>3. k \in 1..MaxItems
    BY <1>2, <1>4
  <2> QED
    BY <2>1, <2>2, <2>3, <1>2, <1>3, <1>4
<1> QED
  BY <1>2, <1>4, <1>5

\* Ids that the service makes up are no ids of clients.
LEMMA IdFacts ==
    ASSUME NEW number \in Numbers
    PROVE  /\ \A k \in 1..MaxItems : /\ <<number, k>> \in NewIds /\ <<number, k>> \in RowIds
                              /\ <<number, k>> \notin Ids
           /\ NoId \notin Ids /\ \A i \in Ids : i \in RowIds
  BY IdsAssumption DEF Numbers, NewIds, RowIds

\* Two fields or more: what minimum_two counts.
LEMMA TwoOrMore ==
    ASSUME NEW S \in SUBSET Fields
    PROVE  Cardinality(S) < 2 <=> ~ \E f, g \in S : f # g
<1>1. IsFiniteSet(Fields)
  <2>1. Fields = {"abbreviation", "term"} \cup {"definition"}
    BY TextsAssumption
  <2>2. IsFiniteSet({"definition"})
    BY FS_Singleton
  <2>3. IsFiniteSet({"abbreviation"} \cup {"term"})
    BY FS_Singleton, FS_Union
  <2>4. {"abbreviation", "term"} = {"abbreviation"} \cup {"term"}
    OBVIOUS
  <2> QED
    BY <2>1, <2>2, <2>3, <2>4, FS_Union
<1>2. IsFiniteSet(S) /\ Cardinality(S) \in Nat
  BY <1>1, FS_Subset, FS_CardinalityType
<1>3. ASSUME NEW f \in S, NEW g \in S, f # g
      PROVE  ~(Cardinality(S) < 2)
  <2>1. IsFiniteSet({f}) /\ Cardinality({f}) = 1
    BY FS_Singleton
  <2>2. Cardinality({f} \cup {g}) = 2
    BY <2>1, <1>3, FS_AddElement
  <2>3. Cardinality({f} \cup {g}) <= Cardinality(S)
    BY <1>2, FS_Subset
  <2> QED
    BY <2>2, <2>3, <1>2
<1>4. ASSUME \A f, g \in S : f = g
      PROVE  Cardinality(S) < 2
  <2>1. CASE S = {}
    BY <2>1, FS_EmptySet
  <2>2. CASE S # {}
    <3>1. PICK f \in S : S = {f}
      BY <2>2, <1>4
    <3> QED
      BY <3>1, FS_Singleton
  <2> QED
    BY <2>1, <2>2
<1> QED
  BY <1>3, <1>4

-----------------------------------------------------------------------------
(* The check against the table                                              *)

\* A row satisfies the filter of a complete element if it is the element's text.
LEMMA ElementSelects ==
    ASSUME NEW e, e.text \in Rows, Null \notin Texts, ElementFilter(e) \in Trees
    PROVE  /\ Says[ElementFilter(e)]
           /\ \A r \in Rows : Describes[ElementFilter(e)][r] <=> r = e.text
<1> DEFINE f == ElementFilter(e)
           Test(g) == [field |-> g, op |-> "eq", values |-> {e.text[g]}]
<1>1. f.own = {Test(g) : g \in Fields} /\ f.inner = {} /\ f.condition = "and"
  <2>1. \A g \in Fields : e.text[g] # Null
    BY DEF Rows
  <2>2. {g \in Fields : e.text[g] # Null} = Fields
    BY <2>1
  <2> QED
    BY <2>2 DEF ElementFilter
<1> HIDE DEF f
<1>2. f \in Trees
  BY DEF f
<1>3. Says[f]
  <2>1. Says[f] <=> f.own # {} \/ \E g \in f.inner : Says[g]
    BY <1>2, SaysDefined DEF SaysStep
  <2>2. Test("term") \in f.own
    BY <1>1, TextsAssumption
  <2> QED
    BY <2>1, <2>2
<1>4. ASSUME NEW r \in Rows
      PROVE  Describes[f][r] <=> r = e.text
  <2>1. Describes[f][r] <=> \A t \in f.own : Passes(r[t.field], t)
    <3>1. Describes[f] = DescribesStep(f, Describes)
      BY <1>2, DescribesDefined
    <3>2. DescribesStep(f, Describes)[r] <=>
            /\ \A t \in f.own : Passes(r[t.field], t)
            /\ f.condition = "or" /\ {g \in f.inner : Says[g]} # {} =>
                   \E g \in {g \in f.inner : Says[g]} : Describes[g][r]
            /\ f.condition # "or" => \A g \in {g \in f.inner : Says[g]} : Describes[g][r]
      BY DEF DescribesStep
    <3> QED
      BY <3>1, <3>2, <1>1
  <2>2. \A g \in Fields : Passes(r[g], Test(g)) <=> r[g] = e.text[g]
    BY DEF Passes
  <2>3. (\A t \in f.own : Passes(r[t.field], t)) <=> \A g \in Fields : Passes(r[g], Test(g))
    BY <1>1
  <2>4. (\A g \in Fields : r[g] = e.text[g]) <=> r = e.text
    BY DEF Rows
  <2> QED
    BY <2>1, <2>2, <2>3, <2>4
<1> QED
  BY <1>3, <1>4 DEF f

\* A complete body is in the table if one of its texts is; the empty body matches any row.
LEMMA ExistsMeans ==
    ASSUME NEW es, IsBody(es), ~Incomplete(es), NEW t \in Contents
    PROVE  Exists(es, t) <=> \/ es = << >> /\ \E i \in RowIds : t[i] # Gone
                             \/ \E k \in DOMAIN es, i \in RowIds : t[i] = es[k].text
<1> DEFINE b == BulkFilter(es)
           Inner == {ElementFilter(es[k]) : k \in DOMAIN es}
<1>1. b \in Trees
  BY BulkAssumption DEF IsBody
<1>2. b.own = {} /\ b.inner = Inner /\ b.condition = "or"
  BY DEF BulkFilter
<1>3. \A k \in DOMAIN es : es[k].text \in Rows
  BY BodyFacts DEF Incomplete, Rows
<1>4. \A k \in DOMAIN es : ElementFilter(es[k]) \in Trees
  BY <1>1, <1>2, LayerFacts
<1>5. \A k \in DOMAIN es : /\ Says[ElementFilter(es[k])]
                           /\ \A r \in Rows : Describes[ElementFilter(es[k])][r] <=> r = es[k].text
  BY <1>3, <1>4, ElementSelects, TextsAssumption
<1> HIDE DEF b
<1>6. {g \in b.inner : Says[g]} = Inner
  BY <1>2, <1>5
<1>7. ASSUME NEW r \in Rows
      PROVE  Describes[b][r] <=> Inner = {} \/ \E g \in Inner : Describes[g][r]
  <2>1. Describes[b] = DescribesStep(b, Describes)
    BY <1>1, DescribesDefined
  <2>2. DescribesStep(b, Describes)[r] <=>
          /\ \A u \in b.own : Passes(r[u.field], u)
          /\ b.condition = "or" /\ {g \in b.inner : Says[g]} # {} =>
                 \E g \in {g \in b.inner : Says[g]} : Describes[g][r]
          /\ b.condition # "or" => \A g \in {g \in b.inner : Says[g]} : Describes[g][r]
    BY DEF DescribesStep
  <2> HIDE DEF Inner
  <2> QED
    BY <2>1, <2>2, <1>2, <1>6
<1>8. Inner = {} <=> es = << >>
  <2>1. Inner = {} <=> DOMAIN es = {}
    OBVIOUS
  <2>2. DOMAIN es = {} <=> es = << >>
    <3>1. PICK raw \in Requests : es = Parsed(raw)
      BY DEF IsBody
    <3> QED
      BY <3>1 DEF Parsed
  <2> QED
    BY <2>1, <2>2
<1>9. \A r \in Rows : Describes[b][r] <=> es = << >> \/ \E k \in DOMAIN es : r = es[k].text
  BY <1>5, <1>7, <1>8
<1>10. Selection(b) = {r \in Rows : es = << >> \/ \E k \in DOMAIN es : r = es[k].text}
  <2>1. Selection(b) = {r \in Rows : Describes[b][r]}
    BY <1>1, Builder DEF BuildsWhatItSays
  <2> QED
    BY <2>1, <1>9
<1>11. \A i \in RowIds : t[i] \in Rows <=> t[i] # Gone
  BY IdsAssumption DEF Contents
<1>12. Exists(es, t) <=> \E r \in Selection(b), i \in RowIds : r = t[i]
  BY DEF Exists, b
<1> QED
  BY <1>3, <1>10, <1>11, <1>12

-----------------------------------------------------------------------------
(* The transaction of a bulk request                                        *)

\* Two elements get one id only if the client gave it to both and no row has it.
LEMMA ConflictMeans ==
    ASSUME NEW es, IsBody(es), NEW t \in Contents, NEW number \in Numbers
    PROVE  Conflict(es, t, number) <=>
               \E j, k \in DOMAIN es : /\ j # k /\ es[j].id = es[k].id
                                       /\ es[k].id # NoId /\ t[es[k].id] = Gone
<1>1. \A k \in DOMAIN es : k \in 1..MaxItems /\ es[k].id \in Ids \cup {NoId}
  BY BodyFacts
<1>2. \A k \in 1..MaxItems : <<number, k>> \notin Ids
  BY IdFacts
<1>3. NoId \notin Ids
  BY IdFacts
<1>4. ASSUME NEW j \in ToInsert(es, t), NEW k \in ToInsert(es, t), j # k
      PROVE  InsertId(es, j, number) = InsertId(es, k, number)
                 <=> es[j].id = es[k].id /\ es[k].id # NoId
  <2>1. j \in DOMAIN es /\ k \in DOMAIN es
    BY DEF ToInsert
  <2>2. <<number, j>> # <<number, k>>
    BY <1>4
  <2> QED
    BY <2>1, <2>2, <1>1, <1>2, <1>3 DEF InsertId
<1>5. \A k \in DOMAIN es : k \in ToInsert(es, t) <=> es[k].id = NoId \/ t[es[k].id] = Gone
  BY DEF ToInsert
<1>6. \A k \in ToInsert(es, t) : k \in DOMAIN es
  BY DEF ToInsert
<1> QED
  BY <1>4, <1>5, <1>6 DEF Conflict

\* The service accepts what is acceptable.
LEMMA AcceptsTheAcceptable ==
    ASSUME NEW es, IsBody(es), NEW t \in Contents, NEW number \in Numbers
    PROVE  ~Rejected(es) /\ ~Exists(es, t) /\ ~Incomplete(es) /\ ~Conflict(es, t, number)
               <=> Acceptable(es, t)
<1> DEFINE Two(k) == \E f, g \in Fields : f # g /\ Blank \notin {es[k].text[f], es[k].text[g]}
           Full(k) == {f \in Fields : es[k].text[f] \notin {Null, Blank}}
<1>1. CASE Incomplete(es)
  BY <1>1 DEF Incomplete, Acceptable
<1>2. CASE ~Incomplete(es)
  <2>1. \A k \in DOMAIN es : \A f \in Fields : es[k].text[f] # Null
    BY <1>2 DEF Incomplete
  <2>2. ASSUME NEW k \in DOMAIN es
        PROVE  TooFew(es[k]) <=> ~Two(k)
    <3>1. TooFew(es[k]) <=> ~ \E f, g \in Full(k) : f # g
      BY TwoOrMore DEF TooFew
    <3>2. \A f \in Fields : f \in Full(k) <=> es[k].text[f] # Blank
      BY <2>1
    <3> QED
      BY <3>1, <3>2
  <2>3. Rejected(es) <=> \/ \E i, j \in DOMAIN es : i # j /\ es[i].text = es[j].text
                         \/ \E k \in DOMAIN es : es[k].text["abbreviation"] \in Long \/ ~Two(k)
    BY <2>2 DEF Rejected, Copies, TooLong
  <2>4. Exists(es, t) <=> \/ es = << >> /\ \E i \in RowIds : t[i] # Gone
                          \/ \E k \in DOMAIN es, i \in RowIds : t[i] = es[k].text
    BY <1>2, ExistsMeans
  <2>5. Conflict(es, t, number) <=>
            \E j, k \in DOMAIN es : /\ j # k /\ es[j].id = es[k].id
                                    /\ es[k].id # NoId /\ t[es[k].id] = Gone
    BY ConflictMeans
  <2>6. Acceptable(es, t) <=>
            /\ \A k \in DOMAIN es : Two(k) /\ es[k].text["abbreviation"] \notin Long
            /\ \A n, k \in DOMAIN es : n # k => es[n].text # es[k].text
            /\ \A k \in DOMAIN es, i \in RowIds : t[i] # es[k].text
            /\ \A k, n \in DOMAIN es : n # k /\ es[n].id = es[k].id =>
                   es[k].id = NoId \/ t[es[k].id] # Gone
            /\ es # << >> \/ \A i \in RowIds : t[i] = Gone
    <3> HIDE DEF Two
    <3>1. Acceptable(es, t) <=>
            /\ \A k \in DOMAIN es :
                /\ Two(k)
                /\ \A f \in Fields : es[k].text[f] # Null
                /\ es[k].text["abbreviation"] \notin Long
                /\ \A n \in DOMAIN es : n # k => es[n].text # es[k].text
                /\ \A i \in RowIds : t[i] # es[k].text
                /\ \A n \in DOMAIN es : n # k /\ es[n].id = es[k].id =>
                       es[k].id = NoId \/ t[es[k].id] # Gone
            /\ es # << >> \/ \A i \in RowIds : t[i] = Gone
      BY Zenon DEF Acceptable, Two
    <3> QED
      BY <3>1, <2>1, Zenon
  <2> HIDE DEF Two
  <2> QED
    BY <1>2, <2>3, <2>4, <2>5, <2>6
<1> QED
  BY <1>1, <1>2

\* The row under an id after the transaction: an inserted element, else the last of
\* the elements that update it, else what was there.
LEMMA InsertedRow ==
    ASSUME NEW es, IsBody(es), NEW t \in Contents, NEW number \in Numbers,
           ~Conflict(es, t, number), NEW i \in RowIds
    PROVE  /\ \A k \in ToInsert(es, t) : InsertId(es, k, number) = i =>
                  AfterInsert(es, t, number)[i] = es[k].text
           /\ (\A k \in ToInsert(es, t) : InsertId(es, k, number) # i) =>
                  AfterInsert(es, t, number)[i] = AfterUpdate(es, t)[i]
<1> DEFINE given == {k \in ToInsert(es, t) : InsertId(es, k, number) = i}
<1>1. AfterInsert(es, t, number)[i] =
          IF given # {} THEN es[CHOOSE k \in given : TRUE].text ELSE AfterUpdate(es, t)[i]
  BY DEF AfterInsert
<1>2. ASSUME NEW k \in given
      PROVE  (CHOOSE n \in given : TRUE) = k
  BY DEF Conflict
<1>3. \A k \in ToInsert(es, t) : InsertId(es, k, number) = i =>
          AfterInsert(es, t, number)[i] = es[k].text
  <2> SUFFICES ASSUME NEW k \in given
               PROVE  AfterInsert(es, t, number)[i] = es[k].text
    OBVIOUS
  <2> QED
    BY <1>1, <1>2
<1>4. (\A k \in ToInsert(es, t) : InsertId(es, k, number) # i) => given = {}
  OBVIOUS
<1> QED
  BY <1>1, <1>3, <1>4

\* Positions in a body have a last one.
LEMMA LastPosition ==
    ASSUME NEW S \in SUBSET (1..MaxItems), S # {}
    PROVE  Max(S) \in S /\ \A k \in S : Max(S) >= k
<1>1. \E x \in S : \A y \in S : x >= y
  <2> DEFINE Above == {n \in Nat : \A y \in S : y <= n}
  <2>1. Above \in SUBSET Nat /\ 0 \notin Above /\ MaxItems \in Above
    <3>1. \A y \in S : y \in Nat /\ ~(y <= 0) /\ y <= MaxItems
      OBVIOUS
    <3>2. PICK y \in S : TRUE
      OBVIOUS
    <3>3. 0 \notin Above
      BY <3>1, <3>2
    <3>4. MaxItems \in Above
      BY <3>1
    <3> QED
      BY <3>3, <3>4
  <2>2. PICK n \in Nat : n \notin Above /\ n + 1 \in Above
    <3> HIDE DEF Above
    <3> QED
      BY <2>1, FirstFailure
  <2>3. PICK x \in S : ~(x <= n)
    BY <2>2
  <2>4. \A y \in S : y <= n + 1
    BY <2>2
  <2>5. x = n + 1
    BY <2>3, <2>4
  <2> QED
    BY <2>4, <2>5
<1>2. Max(S) = CHOOSE x \in S : \A y \in S : x >= y
  BY DEF Max
<1> QED
  BY <1>1, <1>2

\* UPDATE writes the last element with the id of a row.
LEMMA UpdatedRow ==
    ASSUME NEW es, IsBody(es), NEW t \in Contents, NEW i \in RowIds
    PROVE  /\ (\A k \in DOMAIN es : es[k].id # i) \/ t[i] = Gone => AfterUpdate(es, t)[i] = t[i]
           /\ t[i] # Gone => \A k \in DOMAIN es : es[k].id = i =>
                  \E n \in DOMAIN es : /\ n >= k /\ es[n].id = i
                                       /\ AfterUpdate(es, t)[i] = es[n].text
<1> DEFINE given == {k \in DOMAIN es : es[k].id = i}
<1>1. AfterUpdate(es, t)[i] = IF t[i] # Gone /\ given # {} THEN es[Max(given)].text ELSE t[i]
  BY DEF AfterUpdate
<1>2. given \in SUBSET (1..MaxItems)
  BY BodyFacts
<1>3. given # {} => Max(given) \in given /\ \A k \in given : Max(given) >= k
  <2> HIDE DEF given
  <2> QED
    BY <1>2, LastPosition
<1> QED
  BY <1>1, <1>3

\* The new contents of one id: an element inserted there, an element that updates the
\* row, or what was there.
LEMMA NewRow ==
    ASSUME NEW es, IsBody(es), NEW t \in Contents, NEW number \in Numbers,
           ~Conflict(es, t, number), NEW i \in RowIds
    PROVE  \/ \E k \in DOMAIN es : /\ AfterInsert(es, t, number)[i] = es[k].text
                                   /\ \/ i = es[k].id
                                      \/ es[k].id = NoId /\ i = <<number, k>>
           \/ AfterInsert(es, t, number)[i] = t[i]
<1>1. CASE \E k \in ToInsert(es, t) : InsertId(es, k, number) = i
  <2>1. PICK k \in ToInsert(es, t) : InsertId(es, k, number) = i
    BY <1>1
  <2>2. AfterInsert(es, t, number)[i] = es[k].text
    BY <2>1, InsertedRow
  <2> QED
    BY <2>1, <2>2 DEF InsertId, ToInsert
<1>2. CASE \A k \in ToInsert(es, t) : InsertId(es, k, number) # i
  <2>1. AfterInsert(es, t, number)[i] = AfterUpdate(es, t)[i]
    BY <1>2, InsertedRow
  <2> QED
    BY <2>1, UpdatedRow
<1> QED
  BY <1>1, <1>2

\* A bulk request that lands stores its elements and touches no other row.
LEMMA InsertEffect ==
    ASSUME NEW es, IsBody(es), table \in Contents, NEW number \in Numbers,
           Unused(table, number), ~Incomplete(es), ~Conflict(es, table, number)
    PROVE  /\ AfterInsert(es, table, number) \in Contents
           /\ Promise!Stored(es, AfterInsert(es, table, number))
           /\ Promise!OnlyTheirRows(es, AfterInsert(es, table, number))
           /\ \A i \in NewIds : (\A k \in 1..MaxItems : i # <<number, k>>) =>
                  AfterInsert(es, table, number)[i] = table[i]
<1> DEFINE new == AfterInsert(es, table, number)
<1>1. \A k \in DOMAIN es : k \in 1..MaxItems /\ es[k].id \in Ids \cup {NoId}
  BY BodyFacts
<1>2. \A k \in DOMAIN es : es[k].text \in Rows
  BY BodyFacts DEF Incomplete, Rows
<1>3. /\ \A k \in 1..MaxItems : /\ <<number, k>> \in NewIds /\ <<number, k>> \in RowIds
                         /\ <<number, k>> \notin Ids
      /\ NoId \notin Ids /\ \A i \in Ids : i \in RowIds
  BY IdFacts
<1>4. \A i \in RowIds :
          \/ \E k \in DOMAIN es : /\ new[i] = es[k].text
                                  /\ i = es[k].id \/ (es[k].id = NoId /\ i = <<number, k>>)
          \/ new[i] = table[i]
  BY NewRow
<1>5. new \in Contents
  <2>1. \A i \in RowIds : table[i] \in Rows \cup {Gone}
    BY DEF Contents
  <2>2. \A i \in RowIds : new[i] \in Rows \cup {Gone}
    BY <1>2, <1>4, <2>1
  <2>3. DOMAIN new = RowIds /\ new = [i \in RowIds |-> new[i]]
    BY DEF AfterInsert
  <2> HIDE DEF new
  <2> QED
    BY <2>2, <2>3 DEF Contents
<1>6. Promise!OnlyTheirRows(es, new)
  <2> SUFFICES ASSUME NEW i \in RowIds, new[i] # table[i]
               PROVE  \E k \in DOMAIN es : /\ new[i] = es[k].text
                                           /\ \/ i = es[k].id
                                              \/ es[k].id = NoId /\ i \in NewIds /\ table[i] = Gone
    BY DEF Promise!OnlyTheirRows
  <2> HIDE DEF new
  <2> QED
    BY <1>1, <1>3, <1>4 DEF Unused
<1>7. Promise!Stored(es, new)
  <2> SUFFICES ASSUME NEW k \in DOMAIN es
               PROVE  IF es[k].id = NoId
                      THEN \E i \in NewIds : table[i] = Gone /\ new[i] = es[k].text
                      ELSE \E n \in DOMAIN es : /\ n >= k /\ es[n].id = es[k].id
                                                /\ new[es[k].id] = es[n].text
    BY DEF Promise!Stored
  <2>1. CASE es[k].id = NoId
    <3>1. k \in ToInsert(es, table) /\ InsertId(es, k, number) = <<number, k>>
      BY <2>1 DEF ToInsert, InsertId
    <3>2. new[<<number, k>>] = es[k].text
      BY <3>1, <1>1, <1>3, InsertedRow
    <3> HIDE DEF new
    <3> QED
      BY <2>1, <3>2, <1>1, <1>3 DEF Unused
  <2>2. CASE es[k].id # NoId /\ table[es[k].id] = Gone
    <3>1. k \in ToInsert(es, table) /\ InsertId(es, k, number) = es[k].id
      BY <2>2 DEF ToInsert, InsertId
    <3>2. new[es[k].id] = es[k].text
      BY <3>1, <1>1, <1>3, <2>2, InsertedRow
    <3> HIDE DEF new
    <3> QED
      BY <2>2, <3>2, <1>1
  <2>3. CASE es[k].id # NoId /\ table[es[k].id] # Gone
    <3>1. es[k].id \in Ids /\ es[k].id \in RowIds
      BY <2>3, <1>1, <1>3
    <3>2. \A n \in ToInsert(es, table) : InsertId(es, n, number) # es[k].id
      BY <2>3, <3>1, <1>1, <1>3 DEF ToInsert, InsertId
    <3>3. new[es[k].id] = AfterUpdate(es, table)[es[k].id]
      BY <3>1, <3>2, InsertedRow
    <3>4. \E n \in DOMAIN es : /\ n >= k /\ es[n].id = es[k].id
                               /\ AfterUpdate(es, table)[es[k].id] = es[n].text
      BY <2>3, <3>1, UpdatedRow
    <3> QED
      BY <2>3, <3>3, <3>4
  <2> QED
    BY <2>1, <2>2, <2>3
<1>8. \A i \in NewIds : (\A k \in 1..MaxItems : i # <<number, k>>) => new[i] = table[i]
  <2>1. \A i \in NewIds : i \in RowIds /\ i \notin Ids /\ i # NoId
    BY IdsAssumption DEF RowIds
  <2> HIDE DEF new
  <2> QED
    BY <2>1, <1>1, <1>4
<1> QED
  BY <1>5, <1>6, <1>7, <1>8

-----------------------------------------------------------------------------
(* The transaction of a refresh                                             *)

\* A refresh that lands removes what the sheet lacks and adds what the table lacks, once.
LEMMA MergeEffect ==
    ASSUME NEW s \in Sheets, table \in Contents, NEW number \in Numbers
    PROVE  /\ Merged(s.rows, table, number) \in Contents
           /\ Promise!Merges([kind |-> "sync", sheet |-> s.rows], Merged(s.rows, table, number))
           /\ \A i \in NewIds : (\A k \in 1..MaxItems : i # <<number, k>>) /\ table[i] = Gone =>
                  Merged(s.rows, table, number)[i] = Gone
<1> DEFINE rows == s.rows
           new  == Merged(rows, table, number)
           sync  == [kind |-> "sync", sheet |-> rows]
<1>1. /\ \A k \in DOMAIN rows : k \in 1..MaxItems /\ rows[k] \in Rows
      /\ \A k, n \in DOMAIN rows : rows[k] = rows[n] => k = n
  BY RequestsAssumption
<1>2. \A k \in 1..MaxItems : <<number, k>> \in NewIds
  BY IdFacts
<1> HIDE DEF rows
<1>3. \A i \in RowIds : new[i] =
          IF table[i] # Gone
          THEN IF \E k \in DOMAIN rows : rows[k] = table[i] THEN table[i] ELSE Gone
          ELSE IF \E k \in DOMAIN rows : i = <<number, k>> /\ \A j \in RowIds : table[j] # rows[k]
          THEN rows[i[2]] ELSE Gone
  BY DEF Merged
<1>4. ASSUME NEW i \in RowIds, table[i] = Gone, new[i] # Gone
      PROVE  \E k \in DOMAIN rows : i = <<number, k>> /\ new[i] = rows[k]
  <2>1. PICK k \in DOMAIN rows : i = <<number, k>> /\ new[i] = rows[i[2]]
    BY <1>3, <1>4
  <2>2. i[2] = k
    BY <2>1
  <2> QED
    BY <2>1, <2>2
<1>5. \A i \in RowIds : table[i] # Gone =>
          \/ new[i] = table[i]
          \/ new[i] = Gone /\ ~ \E k \in DOMAIN rows : rows[k] = table[i]
  BY <1>3
<1>6. DOMAIN new = RowIds /\ new = [i \in RowIds |-> new[i]]
  BY DEF Merged
<1> HIDE DEF new
<1>7. new \in Contents
  <2>1. \A i \in RowIds : table[i] \in Rows \cup {Gone}
    BY DEF Contents
  <2>2. \A i \in RowIds : new[i] \in Rows \cup {Gone}
    BY <1>1, <1>4, <1>5, <2>1
  <2> QED
    BY <2>2, <1>6 DEF Contents
<1>8. Promise!Merges(sync, new)
  <2>1. \A text : Promise!InSheet(sync, text) <=> \E k \in DOMAIN rows : rows[k] = text
    BY DEF Promise!InSheet
  <2>2. \A i \in RowIds : new[i] # table[i] /\ table[i] # Gone =>
            new[i] = Gone /\ ~Promise!InSheet(sync, table[i])
    BY <1>5, <2>1
  <2>3. \A i \in RowIds : table[i] = Gone /\ new[i] # Gone =>
            i \in NewIds /\ Promise!InSheet(sync, new[i])
    BY <1>1, <1>2, <1>4, <2>1
  <2>4. ASSUME NEW i \in RowIds, table[i] = Gone, new[i] # Gone,
               NEW j \in RowIds, table[j] = Gone, new[j] # Gone, new[i] = new[j]
        PROVE  i = j
    <3>1. PICK k \in DOMAIN rows : i = <<number, k>> /\ new[i] = rows[k]
      BY <2>4, <1>4
    <3>2. PICK n \in DOMAIN rows : j = <<number, n>> /\ new[j] = rows[n]
      BY <2>4, <1>4
    <3> QED
      BY <2>4, <3>1, <3>2, <1>1
  <2> HIDE DEF sync
  <2> QED
    BY <2>2, <2>3, <2>4 DEF Promise!Merges
<1>9. \A i \in NewIds : (\A k \in 1..MaxItems : i # <<number, k>>) /\ table[i] = Gone => new[i] = Gone
  <2>1. \A i \in NewIds : i \in RowIds
    BY DEF RowIds
  <2> QED
    BY <2>1, <1>1, <1>4
<1> QED
  BY <1>7, <1>8, <1>9 DEF rows, new

-----------------------------------------------------------------------------
(* Statuses                                                                 *)

Exceptions == {"none", "GlossaryUpdateFromXlsxError", "NotFoundError", "UnboundLocalError",
               "RequestError", "RequestTimeoutError", "ClientError", "KeyError", "DBAPIError",
               "ConnectionError", "TimeoutError", "JobExecutionFailed"}

\* What a job raises that becomes a refusal.
Refusing == {"GlossaryUpdateFromXlsxError", "NotFoundError"}

Statuses == {0, 200, 404, 408, 409, 422, 423, 500, 503}

\* The statuses of the exceptions that the two routes raise.
LEMMA StatusFacts ==
    /\ Status("GlossaryCreateError") = 422 /\ Status("AlreadyExistsError") = 422
    /\ Status("ValidationError") = 500 /\ Status("ConflictError") = 409
    /\ Status("DBAPIError") = 500 /\ Status("ConnectionError") = 500
    /\ Status("RequestTimeoutError") = 408 /\ Status("RequestError") = 503
    /\ Status("GlossaryUpdateFromXlsxError") = 423 /\ Status("NotFoundError") = 404
    /\ Status("UnboundLocalError") = 500 /\ Status("ClientError") = 500
    /\ Status("KeyError") = 500 /\ Status("TimeoutError") = 500
    /\ Status("JobExecutionFailed") = 500
<1>1. /\ "GlossaryCreateError" \in DOMAIN Handlers /\ Handlers["GlossaryCreateError"] = 422
      /\ "AlreadyExistsError" \in DOMAIN Handlers /\ Handlers["AlreadyExistsError"] = 422
      /\ "ConflictError" \in DOMAIN Handlers /\ Handlers["ConflictError"] = 409
      /\ "RequestTimeoutError" \in DOMAIN Handlers /\ Handlers["RequestTimeoutError"] = 408
      /\ "RequestError" \in DOMAIN Handlers /\ Handlers["RequestError"] = 503
      /\ "GlossaryUpdateFromXlsxError" \in DOMAIN Handlers
      /\ Handlers["GlossaryUpdateFromXlsxError"] = 423
      /\ "NotFoundError" \in DOMAIN Handlers /\ Handlers["NotFoundError"] = 404
  BY DEF Handlers
<1>2. /\ "ValidationError" \notin DOMAIN Handlers /\ "DBAPIError" \notin DOMAIN Handlers
      /\ "ConnectionError" \notin DOMAIN Handlers /\ "UnboundLocalError" \notin DOMAIN Handlers
      /\ "ClientError" \notin DOMAIN Handlers /\ "KeyError" \notin DOMAIN Handlers
      /\ "TimeoutError" \notin DOMAIN Handlers /\ "JobExecutionFailed" \notin DOMAIN Handlers
  BY DEF Handlers
<1> QED
  BY <1>1, <1>2 DEF Status

\* What a job has raised tells whether it may have landed: 200 if it has; of 404 and 423
\* only the job's tries tell more.
LEMMA JobStatusFacts ==
    ASSUME NEW raised \in Exceptions
    PROVE  /\ JobStatus(raised) \in {200, 404, 408, 423, 500, 503}
           /\ JobStatus(raised) = 200 <=> raised = "none"
           /\ JobStatus(raised) \in {404, 423} => raised \in Refusing
<1>1. \/ raised \in {"none", "TimeoutError", "RequestTimeoutError"}
      \/ raised \in {"RequestError", "GlossaryUpdateFromXlsxError", "NotFoundError"}
      \/ raised \in {"UnboundLocalError", "ClientError", "KeyError"}
      \/ raised \in {"DBAPIError", "ConnectionError", "JobExecutionFailed"}
  BY DEF Exceptions
<1>2. CASE raised \in {"none", "TimeoutError", "RequestTimeoutError"}
  BY <1>2, StatusFacts DEF JobStatus
<1>3. CASE raised \in {"RequestError", "GlossaryUpdateFromXlsxError", "NotFoundError"}
  BY <1>3, StatusFacts DEF JobStatus, Refusing
<1>4. CASE raised \in {"UnboundLocalError", "ClientError", "KeyError"}
  BY <1>4, StatusFacts DEF JobStatus
<1>5. CASE raised \in {"DBAPIError", "ConnectionError", "JobExecutionFailed"}
  BY <1>5, StatusFacts DEF JobStatus
<1> QED
  BY <1>1, <1>2, <1>3, <1>4, <1>5

\* What the statuses tell a client.
LEMMA MeaningFacts ==
    /\ Meaning(200) = "modified"
    /\ \A status \in {404, 409, 422, 423} : Meaning(status) = "refused"
    /\ \A status \in {408, 500, 503} : Meaning(status) = "failed"
<1>1. Meaning(200) = "modified"
  BY DEF Meaning
<1>2. /\ Meaning(404) = "refused" /\ Meaning(409) = "refused"
      /\ Meaning(422) = "refused" /\ Meaning(423) = "refused"
  BY DEF Meaning
<1>3. Meaning(408) = "failed" /\ Meaning(500) = "failed" /\ Meaning(503) = "failed"
  BY DEF Meaning
<1> QED
  BY <1>1, <1>2, <1>3

\* What a bulk request is answered with, unless PostgreSQL fails, and the table then.
LEMMA OutcomeFacts ==
    ASSUME NEW es, IsBody(es), NEW t \in Contents, NEW number \in Numbers
    PROVE  LET out == Outcome(es, t, number) IN
           \/ /\ Acceptable(es, t) /\ out.exception = "none"
              /\ ~Incomplete(es) /\ ~Conflict(es, t, number)
              /\ out.table = AfterInsert(es, t, number)
           \/ /\ ~Acceptable(es, t) /\ out.exception # "none" /\ out.table = t
              /\ Status(out.exception) \in {409, 422, 500}
<1>1. ~Rejected(es) /\ ~Exists(es, t) /\ ~Incomplete(es) /\ ~Conflict(es, t, number)
          <=> Acceptable(es, t)
  BY AcceptsTheAcceptable
<1>2. \/ /\ ~Rejected(es) /\ ~Exists(es, t) /\ ~Incomplete(es) /\ ~Conflict(es, t, number)
         /\ Outcome(es, t, number) = [exception |-> "none", table |-> AfterInsert(es, t, number)]
      \/ /\ Rejected(es) \/ Exists(es, t) \/ Incomplete(es) \/ Conflict(es, t, number)
         /\ \E e \in {"GlossaryCreateError", "AlreadyExistsError", "ValidationError",
                      "ConflictError"} :
                Outcome(es, t, number) = [exception |-> e, table |-> t]
  BY Zenon DEF Outcome
<1> QED
  BY <1>1, <1>2, StatusFacts

-----------------------------------------------------------------------------
(* The inductive invariant                                                  *)

BeforeSync == {"queued", "fetch", "sync"}
AfterSync  == {"lookup", "upload", "finish"}
Ended      == {"over", "done"}

Answers == [status : Statuses, errors : BOOLEAN, again : BOOLEAN]

JobRecords == [pc : {"none"} \cup BeforeSync \cup AfterSync \cup Ended,
               sheet : Sheets \cup {NoRun.sheet}, number : 0..MaxRequests, tries : 0..MaxTries,
               file : {"create", "update"}, raised : Exceptions, landed : BOOLEAN]

\* A job has changed the table once it is past the transaction.  Before that, and when it
\* is refused, it has not, unless an earlier try has.
JobOK(j) ==
    /\ j \in JobRecords
    /\ j.pc # "none" => j.sheet \in Sheets /\ j.number \in Numbers
    /\ j.tries = 0 => ~j.landed
    /\ j.pc \in {"fetch", "sync"} => j.tries > 0 /\ (j.tries <= 1 => ~j.landed)
    /\ j.pc \in AfterSync => j.landed
    /\ j.pc \notin Ended => j.raised = "none"
    /\ j.pc \in Ended /\ j.raised = "none" => j.landed
    /\ j.raised \in Refusing /\ j.tries <= 1 => ~j.landed

\* What a client waits for.
ClientOK(c, j) ==
    \/ c = Idle
    \/ \E es \in Requests :
           c = [pc |-> "bulk", request |-> [kind |-> "bulk", elements |-> Parsed(es)]]
    \/ /\ c = [pc |-> "excel", request |-> [kind |-> "sync", sheet |-> j.sheet.rows]]
       /\ j.pc # "none"

\* A job that did not fail has put its own errors on EDU.
ReportOK(j, r) ==
    j.pc \in {"finish", "over", "done"} /\ j.raised = "none" /\ j.sheet.errors => r = j.number

\* Ids that no transaction has made up yet are in no row.
FreshOK(c, j, n, t) ==
    /\ n \in 0..MaxRequests /\ j.number <= n
    /\ c.pc = "bulk" => j.number < n
    /\ \A m \in Numbers : m > n \/ (c.pc = "bulk" /\ m = n) => Unused(t, m)

IInv ==
    /\ table \in Contents
    /\ key \in {"free", "blocked", "updating"}
    /\ report \in 0..OldReport /\ crowded \in BOOLEAN
    /\ answer \in Answers
    /\ JobOK(job) /\ ClientOK(client, job)
    /\ ReportOK(job, report) /\ FreshOK(client, job, asked, table)

-----------------------------------------------------------------------------
(* The invariant is inductive                                               *)

\* The invariant holds at the start.
LEMMA InitKeeps == ASSUME Init PROVE IInv
<1>1. table \in Contents /\ \A m \in Numbers : Unused(table, m)
  <2>1. table \in Contents /\ \A i \in NewIds : table[i] = Gone
    BY RequestsAssumption DEF Init, Contents
  <2> QED
    BY <2>1, IdFacts DEF Unused
<1>2. MaxRequests \in Nat /\ report \in 0..OldReport
  BY RequestsAssumption DEF Init, OldReport
<1>3. JobOK(job)
  <2>1. NoRun \in JobRecords
    BY <1>2, RequestsAssumption DEF NoRun, JobRecords, Exceptions
  <2> QED
    BY <2>1 DEF Init, JobOK, NoRun, AfterSync, Ended, Refusing
<1>4. answer \in Answers
  BY DEF Init, Answers, Statuses
<1>5. ReportOK(job, report) /\ FreshOK(client, job, asked, table)
  BY <1>1, <1>2 DEF Init, ReportOK, FreshOK, NoRun, Idle
<1> QED
  BY <1>1, <1>2, <1>3, <1>4, <1>5 DEF IInv, Init, ClientOK

\* What every step of the job does: it lands, or the table stays as it is.
JobMoved ==
    /\ JobOK(job') /\ ReportOK(job', report')
    /\ report' \in 0..OldReport /\ key' \in {"free", "blocked", "updating"}
    /\ job.pc \notin {"none", "done"} /\ job'.pc # "none"
    /\ job'.sheet = job.sheet /\ job'.number = job.number
    /\ UNCHANGED <<crowded, client, asked, answer>>
    /\ \/ UNCHANGED table /\ job'.landed = job.landed
       \/ /\ job.pc = "sync" /\ job'.landed /\ job'.pc # "done"
          /\ table' = Merged(job.sheet.rows, table, job.number)

\* A run of the job, and what a step before the end of it leaves alone.
Runs(run) ==
    /\ run \in JobRecords /\ run.sheet = job.sheet /\ run.number = job.number
    /\ run.tries = 0 => ~run.landed
    /\ \/ UNCHANGED table /\ run.landed = job.landed
       \/ /\ job.pc = "sync" /\ run.landed
          /\ table' = Merged(job.sheet.rows, table, job.number)
    /\ job.pc \notin {"none", "done"}
    /\ report' \in 0..OldReport /\ key' \in {"free", "blocked", "updating"}
    /\ UNCHANGED <<crowded, client, asked, answer>>

\* A job that ends by an exception moves.
LEMMA OverMoves ==
    ASSUME IInv, NEW run, Runs(run), NEW exception \in Exceptions, exception # "none",
           exception \in Refusing /\ run.tries <= 1 => ~run.landed,
           job' = Over(run, exception)
    PROVE  JobMoved
<1>1. /\ job'.pc = "over" /\ job'.raised = exception /\ job'.sheet = job.sheet
      /\ job'.number = job.number /\ job'.landed = run.landed /\ job'.tries = run.tries
      /\ job' \in JobRecords
  BY DEF Runs, Over, JobRecords, Ended
<1>2. job.sheet \in Sheets /\ job.number \in Numbers
  BY DEF Runs, IInv, JobOK
<1>3. JobOK(job')
  <2>1. job'.tries = 0 => ~job'.landed
    BY <1>1 DEF Runs
  <2> QED
    BY <1>1, <1>2, <2>1 DEF JobOK, AfterSync, Ended
<1>4. ReportOK(job', report')
  BY <1>1 DEF ReportOK
<1> QED
  BY <1>1, <1>3, <1>4 DEF Runs, JobMoved

\* A job that fails moves, whatever becomes of the key.
LEMMA RaiseMoves ==
    ASSUME IInv, NEW run, Runs(run), NEW exception \in Exceptions, exception # "none",
           exception \in Refusing /\ run.tries <= 1 => ~run.landed,
           Raise(run, exception)
    PROVE  JobMoved
<1>1. CASE job' = Over(run, exception)
  BY <1>1, OverMoves
<1>2. CASE job' = Over(run, "ConnectionError")
  <2>1. /\ "ConnectionError" \in Exceptions /\ "ConnectionError" # "none"
        /\ "ConnectionError" \notin Refusing
    BY DEF Exceptions, Refusing
  <2> QED
    BY <1>2, <2>1, OverMoves
<1> QED
  BY <1>1, <1>2 DEF Raise

\* A job that goes on within one of the two halves of its way, or is stored.
LEMMA GotoMoves ==
    ASSUME IInv, NEW label \in {"sync", "finish", "done"}, Goto(label), Runs(job),
           \/ job.pc = "fetch" /\ label = "sync"
           \/ job.pc = "upload" /\ label = "finish" /\ report' = job.number
           \/ job.pc = "over" /\ label = "done" /\ report' = report
    PROVE  JobMoved
<1>1. JobOK(job) /\ ReportOK(job, report)
  BY DEF IInv
<1>2. /\ job'.pc = label /\ job'.raised = job.raised /\ job'.sheet = job.sheet
      /\ job'.number = job.number /\ job'.landed = job.landed /\ job'.tries = job.tries
      /\ job' \in JobRecords
  BY <1>1 DEF JobOK, Goto, JobRecords, BeforeSync, AfterSync, Ended
<1>3. JobOK(job')
  BY <1>1, <1>2 DEF JobOK, BeforeSync, AfterSync, Ended
<1>4. ReportOK(job', report')
  BY <1>1, <1>2 DEF ReportOK, JobOK
<1>5. ASSUME table' # table
      PROVE  job.pc = "sync"
  BY <1>5 DEF Runs
<1> QED
  BY <1>2, <1>3, <1>4, <1>5 DEF Runs, JobMoved

\* The job as it is runs.
LEMMA RunsAsItIs ==
    ASSUME IInv, job.pc \notin {"none", "done"}, UNCHANGED <<table, crowded, client, asked, answer>>,
           report' \in 0..OldReport, key' \in {"free", "blocked", "updating"}
    PROVE  Runs(job)
  BY DEF Runs, IInv, JobOK

\* Taking the job: only here the key is looked at, and 423 comes of it.
LEMMA TakeMoves == ASSUME IInv, Take PROVE JobMoved
<1> DEFINE run == [job EXCEPT !.tries = @ + 1]
<1>1. /\ job.pc = "queued" /\ report' \in 0..OldReport /\ key \in {"free", "blocked", "updating"}
      /\ JobOK(job) /\ job \in JobRecords
  BY DEF Take, JobAt, IInv, JobOK
<1>2. /\ run.sheet = job.sheet /\ run.number = job.number /\ run.landed = job.landed
      /\ run.tries = job.tries + 1 /\ run.raised = job.raised /\ run \in JobRecords
  <2>1. job.tries + 1 \in 0..MaxTries
    BY <1>1, RequestsAssumption DEF Take, JobRecords
  <2> QED
    BY <1>1, <2>1 DEF JobRecords
<1>3. run.tries <= 1 => ~run.landed
  <2>1. job.tries \in Nat
    BY <1>1 DEF JobRecords
  <2> QED
    BY <1>1, <1>2, <2>1 DEF JobOK
<1>4. key' \in {"free", "blocked", "updating"}
  BY <1>1 DEF Take, Raise
<1>5. Runs(run)
  <2>1. UNCHANGED <<table, crowded, client, asked, answer>>
    BY DEF Take
  <2>2. run.tries = 0 => ~run.landed
    BY <1>3
  <2> HIDE DEF run
  <2> QED
    BY <1>1, <1>2, <1>4, <2>1, <2>2 DEF Runs
<1>6. \/ job' = [run EXCEPT !.pc = "fetch"]
      \/ job' = Over(run, "GlossaryUpdateFromXlsxError")
      \/ job' = Over(run, "UnboundLocalError")
      \/ job' = Over(run, "ConnectionError")
  BY DEF Take, Raise
<1> HIDE DEF run
<1>7. CASE job' = [run EXCEPT !.pc = "fetch"]
  <2>1. /\ job'.pc = "fetch" /\ job'.raised = "none" /\ job'.sheet = job.sheet
        /\ job'.number = job.number /\ job'.landed = run.landed /\ job'.tries = run.tries
        /\ job' \in JobRecords
    BY <1>1, <1>2, <1>7 DEF JobOK, JobRecords, BeforeSync, AfterSync, Ended
  <2>2. /\ job'.tries > 0 /\ (job'.tries <= 1 => ~job'.landed)
        /\ job.sheet \in Sheets /\ job.number \in Numbers
    BY <1>1, <1>2, <1>3, <2>1 DEF JobOK, JobRecords
  <2>3. JobOK(job') /\ ReportOK(job', report')
    BY <2>1, <2>2 DEF JobOK, ReportOK, AfterSync, Ended, Refusing
  <2> QED
    BY <1>1, <1>5, <2>1, <2>3 DEF Runs, JobMoved
<1>8. CASE job' = Over(run, "GlossaryUpdateFromXlsxError")
  BY <1>3, <1>5, <1>8, OverMoves DEF Exceptions
<1>9. CASE job' = Over(run, "UnboundLocalError")
  BY <1>3, <1>5, <1>9, OverMoves DEF Exceptions
<1>10. CASE job' = Over(run, "ConnectionError")
  BY <1>3, <1>5, <1>10, OverMoves DEF Exceptions
<1> QED
  BY <1>6, <1>7, <1>8, <1>9, <1>10

\* The answers of the portal become exceptions that are not about the key.
LEMMA EduFacts ==
    \A response \in DOMAIN EduError :
        EduError[response] \in Exceptions /\ EduError[response] \notin Refusing \cup {"none"}
<1>1. DOMAIN EduError = {"status", "type", "zip", "connect", "timeout", "broken", "columns"}
  BY DEF EduError
<1>2. /\ EduError["status"] = "RequestError" /\ EduError["type"] = "RequestError"
      /\ EduError["zip"] = "RequestError" /\ EduError["connect"] = "RequestError"
      /\ EduError["timeout"] = "RequestTimeoutError" /\ EduError["broken"] = "ClientError"
      /\ EduError["columns"] = "KeyError"
  BY DEF EduError
<1> QED
  BY <1>1, <1>2 DEF Exceptions, Refusing

\* A failed request to the portal ends the job.
LEMMA EduMoves ==
    ASSUME IInv, NEW response \in DOMAIN EduError, Raise(job, EduError[response]),
           job.pc \notin {"none", "done"}, report' \in 0..OldReport,
           UNCHANGED <<table, crowded, client, asked, answer>>
    PROVE  JobMoved
<1>1. key' \in {"free", "blocked", "updating"}
  BY DEF IInv, Raise
<1>2. Runs(job)
  BY <1>1, RunsAsItIs
<1> QED
  BY <1>2, EduFacts, RaiseMoves

\* The download of GLOSS.xlsx: the table is not touched yet.
LEMMA FetchMoves == ASSUME IInv, Fetch PROVE JobMoved
<1>1. job.pc = "fetch" /\ report' \in 0..OldReport /\ key \in {"free", "blocked", "updating"}
  BY DEF Fetch, JobAt, IInv
<1>2. CASE Goto("sync") /\ UNCHANGED key
  <2>1. Runs(job)
    BY <1>1, <1>2, RunsAsItIs DEF Fetch
  <2> QED
    BY <1>1, <1>2, <2>1, GotoMoves
<1>3. CASE \E response \in DOMAIN EduError : Raise(job, EduError[response])
  BY <1>1, <1>3, EduMoves DEF Fetch
<1> QED
  BY <1>2, <1>3 DEF Fetch

\* The transaction of the refresh: it lands, or rolls back.
LEMMA SyncMoves == ASSUME IInv, Sync PROVE JobMoved
<1>1. /\ job.pc = "sync" /\ report' \in 0..OldReport /\ key \in {"free", "blocked", "updating"}
      /\ JobOK(job) /\ job \in JobRecords /\ key' \in {"free", "blocked", "updating"}
  BY DEF Sync, JobAt, IInv, JobOK, Raise
<1>2. CASE UNCHANGED table /\ \E e \in {"DBAPIError", "NotFoundError"} : Raise(job, e)
  <2>1. Runs(job)
    BY <1>1, <1>2, RunsAsItIs DEF Sync
  <2>2. PICK e \in {"DBAPIError", "NotFoundError"} : Raise(job, e)
    BY <1>2
  <2>3. e \in Exceptions /\ e # "none" /\ (job.tries <= 1 => ~job.landed)
    BY <1>1 DEF Exceptions, JobOK
  <2> QED
    BY <2>1, <2>2, <2>3, RaiseMoves
<1>3. CASE /\ table' = Merged(job.sheet.rows, table, job.number)
           /\ Raise([job EXCEPT !.landed = TRUE], "DBAPIError")
  <2> DEFINE run == [job EXCEPT !.landed = TRUE]
  <2>1. Runs(run)
    <3>1. /\ run.sheet = job.sheet /\ run.number = job.number /\ run.landed
          /\ run.tries = job.tries /\ run \in JobRecords
      BY <1>1 DEF JobRecords
    <3>2. job.tries > 0
      BY <1>1 DEF JobOK
    <3>3. UNCHANGED <<crowded, client, asked, answer>>
      BY DEF Sync
    <3> HIDE DEF run
    <3> QED
      BY <1>1, <1>3, <3>1, <3>2, <3>3 DEF Runs
  <2>2. "DBAPIError" \in Exceptions /\ "DBAPIError" \notin Refusing
    BY DEF Exceptions, Refusing
  <2> HIDE DEF run
  <2>3. Raise(run, "DBAPIError")
    BY <1>3 DEF run
  <2> QED
    BY <2>1, <2>2, <2>3, RaiseMoves
<1>4. CASE /\ table' = Merged(job.sheet.rows, table, job.number)
           /\ job' = [job EXCEPT !.pc = IF job.sheet.errors THEN "lookup" ELSE "finish",
                                 !.landed = TRUE]
           /\ UNCHANGED key
  <2>1. /\ job'.pc = (IF job.sheet.errors THEN "lookup" ELSE "finish") /\ job'.landed
        /\ job'.raised = "none" /\ job'.sheet = job.sheet /\ job'.number = job.number
        /\ job'.tries = job.tries /\ job' \in JobRecords
    BY <1>1, <1>4 DEF JobOK, JobRecords, AfterSync, Ended
  <2>2. job'.pc \in AfterSync /\ (job'.pc = "finish" => ~job.sheet.errors)
    BY <2>1 DEF AfterSync
  <2>3. JobOK(job') /\ job'.pc \notin {"none", "done"} /\ ReportOK(job', report')
    <3>1. job.sheet \in Sheets /\ job.number \in Numbers /\ job'.tries # 0
      BY <1>1, <2>1 DEF JobOK
    <3> QED
      BY <2>1, <2>2, <3>1 DEF JobOK, ReportOK, AfterSync, Ended, Refusing
  <2> QED
    BY <1>1, <1>4, <2>1, <2>3 DEF JobMoved, Sync
<1> QED
  BY <1>2, <1>3, <1>4 DEF Sync

\* Looking for ERRORS.xlsx: the refresh has landed by then.
LEMMA LookupMoves == ASSUME IInv, Lookup PROVE JobMoved
<1>1. job.pc = "lookup" /\ report' \in 0..OldReport /\ key \in {"free", "blocked", "updating"}
  BY DEF Lookup, JobAt, IInv
<1>2. CASE \E response \in {"status", "connect", "timeout", "broken"} : Raise(job, EduError[response])
  <2>1. {"status", "connect", "timeout", "broken"} \subseteq DOMAIN EduError
    BY DEF EduError
  <2> QED
    BY <1>1, <1>2, <2>1, EduMoves DEF Lookup
<1>3. CASE /\ job' = [job EXCEPT !.pc = "upload",
                                 !.file = IF report # 0 /\ ~crowded THEN "update" ELSE "create"]
           /\ UNCHANGED key
  <2>1. JobOK(job) /\ job \in JobRecords
    BY DEF IInv, JobOK
  <2>2. /\ job'.pc = "upload" /\ job'.landed = job.landed /\ job'.raised = job.raised
        /\ job'.sheet = job.sheet /\ job'.number = job.number /\ job'.tries = job.tries
        /\ job' \in JobRecords
    BY <2>1, <1>3 DEF JobRecords, AfterSync
  <2>3. JobOK(job') /\ ReportOK(job', report')
    BY <2>1, <2>2, <1>1 DEF JobOK, ReportOK, AfterSync, Ended, Refusing
  <2> QED
    BY <1>1, <1>3, <2>2, <2>3 DEF JobMoved, Lookup
<1> QED
  BY <1>2, <1>3 DEF Lookup

\* The upload: a job that goes on has put its own errors on EDU.
LEMMA UploadMoves == ASSUME IInv, Upload PROVE JobMoved
<1>1. /\ job.pc = "upload" /\ key \in {"free", "blocked", "updating"} /\ report \in 0..OldReport
      /\ job.number \in 0..OldReport
  BY RequestsAssumption DEF Upload, JobAt, IInv, JobOK, Numbers, OldReport
<1>2. report' \in 0..OldReport
  BY <1>1 DEF Upload
<1>3. {"status", "connect", "timeout", "broken"} \subseteq DOMAIN EduError
  BY DEF EduError
<1>4. CASE \E response \in {"status", "connect", "timeout", "broken"} : Raise(job, EduError[response])
  BY <1>1, <1>2, <1>3, <1>4, EduMoves DEF Upload
<1>5. CASE report' = job.number /\ Goto("finish") /\ UNCHANGED key
  <2>1. Runs(job)
    BY <1>1, <1>2, <1>5, RunsAsItIs DEF Upload
  <2> QED
    BY <1>1, <1>5, <2>1, GotoMoves
<1> QED
  BY <1>4, <1>5 DEF Upload

\* The cool-down.
LEMMA FinishMoves == ASSUME IInv, Finish PROVE JobMoved
<1>1. /\ job.pc = "finish" /\ report' \in 0..OldReport /\ report' = report
      /\ key' \in {"free", "blocked", "updating"} /\ JobOK(job) /\ ReportOK(job, report)
  BY DEF Finish, JobAt, IInv
<1>2. Runs(job)
  BY <1>1, RunsAsItIs DEF Finish
<1>3. CASE EndJob("none")
  <2>1. /\ job'.pc = "over" /\ job'.raised = "none" /\ job'.sheet = job.sheet
        /\ job'.number = job.number /\ job'.landed = job.landed /\ job' \in JobRecords
    BY <1>1, <1>3 DEF EndJob, Over, JobOK, JobRecords, Ended, Exceptions
  <2>2. job.landed /\ job.raised = "none"
    BY <1>1 DEF JobOK, AfterSync, Ended
  <2>3. JobOK(job') /\ ReportOK(job', report')
    <3>1. job'.tries = job.tries
      BY <1>3 DEF EndJob, Over
    <3> QED
      BY <1>1, <2>1, <2>2, <3>1 DEF JobOK, ReportOK, AfterSync, Ended, Refusing
  <2> QED
    BY <1>1, <1>2, <2>1, <2>3 DEF JobMoved, Runs
<1>4. CASE EndJob("ConnectionError")
  <2>1. "ConnectionError" \in Exceptions /\ "ConnectionError" \notin Refusing
    BY DEF Exceptions, Refusing
  <2> QED
    BY <1>2, <1>4, <2>1, OverMoves DEF EndJob
<1> QED
  BY <1>3, <1>4 DEF Finish

\* arq ends the job by its timeout, wherever it is, or for its tries.
LEMMA CutShortMoves == ASSUME IInv, JobTimeout \/ Exhaust PROVE JobMoved
<1>1. /\ job.pc \notin {"none", "done"} /\ report' \in 0..OldReport
      /\ key' \in {"free", "blocked", "updating"}
      /\ EndJob("TimeoutError") \/ EndJob("JobExecutionFailed")
  BY DEF JobTimeout, Exhaust, JobAt, IInv
<1>2. Runs(job)
  BY <1>1, RunsAsItIs DEF JobTimeout, Exhaust
<1>3. /\ {"TimeoutError", "JobExecutionFailed"} \subseteq Exceptions
      /\ "TimeoutError" \notin Refusing /\ "JobExecutionFailed" \notin Refusing
  BY DEF Exceptions, Refusing
<1> QED
  BY <1>1, <1>2, <1>3, OverMoves DEF EndJob

\* The result is stored.
LEMMA StoreMoves == ASSUME IInv, Store PROVE JobMoved
<1>1. /\ job.pc = "over" /\ Goto("done") /\ report' = report /\ report' \in 0..OldReport
      /\ key' \in {"free", "blocked", "updating"}
  BY DEF Store, JobAt, IInv
<1>2. Runs(job)
  BY <1>1, RunsAsItIs DEF Store
<1> QED
  BY <1>1, <1>2, GotoMoves

\* A job that is cut off goes back to the queue, and has been tried by then.
LEMMA InterruptMoves == ASSUME IInv, Interrupt PROVE JobMoved
<1>1. /\ job.pc \in {"fetch", "sync", "lookup", "upload", "finish", "over"}
      /\ JobOK(job) /\ job \in JobRecords
      /\ job' = [job EXCEPT !.pc = "queued", !.file = "create", !.raised = "none"]
      /\ UNCHANGED <<table, key, report, crowded, client, asked, answer>>
  BY DEF Interrupt, IInv, JobOK
<1>2. /\ job'.pc = "queued" /\ job'.raised = "none" /\ job'.sheet = job.sheet
      /\ job'.number = job.number /\ job'.landed = job.landed /\ job'.tries = job.tries
      /\ job' \in JobRecords
  BY <1>1 DEF JobRecords, BeforeSync, Exceptions
<1>3. JobOK(job') /\ ReportOK(job', report')
  BY <1>1, <1>2 DEF JobOK, ReportOK, BeforeSync, AfterSync, Ended, Refusing
<1> QED
  BY <1>1, <1>2, <1>3 DEF JobMoved, IInv

JobStep == Take \/ Exhaust \/ Fetch \/ Sync \/ Lookup \/ Upload \/ Finish
           \/ JobTimeout \/ Store \/ Interrupt

\* Every step of the job, whether or not a client waits for it.
LEMMA JobStepMoves == ASSUME IInv, JobStep PROVE JobMoved
  BY TakeMoves, FetchMoves, SyncMoves, LookupMoves, UploadMoves, FinishMoves,
     CutShortMoves, StoreMoves, InterruptMoves DEF JobStep

\* Every step of the job keeps the invariant.
LEMMA JobMovedKeeps == ASSUME IInv, JobMoved PROVE IInv'
<1>1. ClientOK(client', job')
  BY DEF IInv, JobMoved, ClientOK
<1>2. table' \in Contents /\ FreshOK(client', job', asked', table')
  <2>1. CASE UNCHANGED table
    BY <2>1 DEF IInv, JobMoved, FreshOK
  <2>2. CASE table' = Merged(job.sheet.rows, table, job.number)
    <3>1. job.sheet \in Sheets /\ job.number \in Numbers /\ table \in Contents
      BY DEF IInv, JobMoved, JobOK
    <3>2. /\ table' \in Contents
          /\ \A i \in NewIds : (\A k \in 1..MaxItems : i # <<job.number, k>>) /\ table[i] = Gone =>
                 table'[i] = Gone
      BY <2>2, <3>1, MergeEffect
    <3>3. ASSUME NEW m \in Numbers, m # job.number, Unused(table, m)
          PROVE  Unused(table', m)
      BY <3>2, <3>3, IdFacts DEF Unused
    <3>4. FreshOK(client, job, asked, table)
      BY DEF IInv
    <3>5. \A m \in Numbers : m > asked \/ (client.pc = "bulk" /\ m = asked) =>
              m # job.number /\ Unused(table, m)
      BY <3>1, <3>4 DEF FreshOK, Numbers
    <3> QED
      BY <3>2, <3>3, <3>4, <3>5 DEF FreshOK, JobMoved
  <2> QED
    BY <2>1, <2>2 DEF JobMoved
<1> QED
  BY <1>1, <1>2 DEF IInv, JobMoved

\* A client that has just been answered waits for nothing, and the rest of the state
\* may be what it was.
LEMMA RespondKeeps ==
    ASSUME IInv, NEW status \in Statuses, NEW errors \in BOOLEAN, NEW again \in BOOLEAN,
           Respond(status, errors, again),
           UNCHANGED <<key, report, crowded, asked>>, table' = table,
           job' = job \/ job' = NoRun
    PROVE  IInv'
<1>1. client' = Idle /\ answer' \in Answers
  BY DEF Respond, Answers
<1>2. ClientOK(client', job')
  BY <1>1 DEF ClientOK
<1>3. JobOK(job') /\ ReportOK(job', report') /\ job'.number <= asked
  <2>1. NoRun \in JobRecords /\ asked \in 0..MaxRequests
    BY RequestsAssumption DEF NoRun, JobRecords, Exceptions, IInv, FreshOK
  <2>2. JobOK(NoRun) /\ ReportOK(NoRun, report) /\ NoRun.number <= asked
    BY <2>1 DEF JobOK, ReportOK, NoRun, AfterSync, Ended, Refusing
  <2> QED
    BY <2>2 DEF IInv, FreshOK
<1>4. FreshOK(client', job', asked', table')
  BY <1>1, <1>3 DEF IInv, FreshOK, Idle
<1> QED
  BY <1>1, <1>2, <1>3, <1>4 DEF IInv

\* What an open bulk request is about.
LEMMA BulkFacts ==
    ASSUME IInv, client.pc = "bulk"
    PROVE  /\ client.request.kind = "bulk" /\ IsBody(client.request.elements)
           /\ client.request \in Jobs
           /\ asked \in Numbers /\ job.number < asked /\ Unused(table, asked)
           /\ \A m \in Numbers : m > asked => Unused(table, m)
<1>1. PICK es \in Requests :
          client = [pc |-> "bulk", request |-> [kind |-> "bulk", elements |-> Parsed(es)]]
  BY DEF IInv, ClientOK, Idle
<1>2. client.request = [kind |-> "bulk", elements |-> Parsed(es)]
  BY <1>1
<1>3. client.request \in Jobs
  BY <1>2 DEF Jobs
<1>4. FreshOK(client, job, asked, table) /\ job.number \in 0..MaxRequests
  BY DEF IInv, JobOK, JobRecords
<1>5. asked \in Numbers /\ job.number < asked
  BY <1>4, RequestsAssumption DEF FreshOK, Numbers
<1>6. Unused(table, asked) /\ \A m \in Numbers : m > asked => Unused(table, m)
  BY <1>4, <1>5 DEF FreshOK
<1> QED
  BY <1>2, <1>3, <1>5, <1>6 DEF IsBody

\* The table after a bulk request.
LEMMA BulkLands ==
    ASSUME IInv, client.pc = "bulk", Acceptable(client.request.elements, table)
    PROVE  LET out == Outcome(client.request.elements, table, asked) IN
           /\ out.exception = "none" /\ out.table \in Contents
           /\ Promise!Stored(client.request.elements, out.table)
           /\ Promise!OnlyTheirRows(client.request.elements, out.table)
           /\ \A m \in Numbers : m > asked => Unused(out.table, m)
<1> DEFINE es == client.request.elements
           new == AfterInsert(es, table, asked)
<1>1. /\ IsBody(es) /\ asked \in Numbers /\ Unused(table, asked) /\ table \in Contents
      /\ \A m \in Numbers : m > asked => Unused(table, m)
  BY BulkFacts DEF IInv
<1>2. /\ Outcome(es, table, asked).exception = "none" /\ Outcome(es, table, asked).table = new
      /\ ~Incomplete(es) /\ ~Conflict(es, table, asked)
  BY <1>1, OutcomeFacts
<1>3. /\ new \in Contents /\ Promise!Stored(es, new) /\ Promise!OnlyTheirRows(es, new)
      /\ \A i \in NewIds : (\A k \in 1..MaxItems : i # <<asked, k>>) => new[i] = table[i]
  BY <1>1, <1>2, InsertEffect
<1>4. ASSUME NEW m \in Numbers, m > asked
      PROVE  Unused(new, m)
  <2> HIDE DEF new
  <2>1. asked \in Nat
    BY <1>1 DEF Numbers
  <2>2. m # asked
    BY <1>4, <2>1
  <2>3. \A k \in 1..MaxItems : <<m, k>> \in NewIds /\ \A n \in 1..MaxItems : <<m, k>> # <<asked, n>>
    BY <2>2, IdFacts
  <2> QED
    BY <1>1, <1>3, <1>4, <2>3 DEF Unused
<1> QED
  BY <1>2, <1>3, <1>4

\* An answer to a bulk request, with the transaction committed or rolled back.
LEMMA BulkKeeps ==
    ASSUME IInv, client.pc = "bulk", NEW status \in Statuses, Respond(status, FALSE, FALSE),
           table' \in {table, Outcome(client.request.elements, table, asked).table},
           UNCHANGED <<key, report, crowded, job, asked>>
    PROVE  IInv'
<1>1. CASE table' = table
  BY <1>1, RespondKeeps
<1>2. CASE table' # table
  <2>1. IsBody(client.request.elements) /\ asked \in Numbers /\ table \in Contents
    BY BulkFacts DEF IInv
  <2>2. Acceptable(client.request.elements, table)
    BY <2>1, <1>2, OutcomeFacts
  <2>3. table' \in Contents /\ \A m \in Numbers : m > asked => Unused(table', m)
    BY <2>2, <1>2, BulkLands
  <2>4. client' = Idle /\ answer' \in Answers
    BY DEF Respond, Answers
  <2>5. ClientOK(client', job')
    BY <2>4 DEF ClientOK
  <2>6. FreshOK(client', job', asked', table')
    BY <2>3, <2>4 DEF IInv, FreshOK, Idle
  <2> QED
    BY <2>3, <2>4, <2>5, <2>6 DEF IInv
<1> QED
  BY <1>1, <1>2

\* A new body finds the ids unused that its transaction may make up.
LEMMA PostKeeps == ASSUME IInv, Post PROVE IInv'
<1>1. PICK es \in Requests :
          client' = [pc |-> "bulk", request |-> [kind |-> "bulk", elements |-> Parsed(es)]]
  BY DEF Post
<1>2. ClientOK(client', job')
  BY <1>1 DEF ClientOK
<1>3. FreshOK(client', job', asked', table')
  <2>1. /\ FreshOK(client, job, asked, table) /\ client.pc = "idle"
        /\ asked' = asked + 1 /\ asked < MaxRequests /\ job' = job /\ table' = table
        /\ MaxRequests \in Nat /\ job.number \in 0..MaxRequests
    BY RequestsAssumption DEF IInv, Post, JobOK, JobRecords
  <2> QED
    BY <2>1, <1>1 DEF FreshOK, Numbers
<1> QED
  BY <1>2, <1>3 DEF IInv, Post

\* A new job has a number of its own and has not landed.
LEMMA GetKeeps == ASSUME IInv, Get PROVE IInv'
<1>1. PICK s \in Sheets :
          /\ client' = [pc |-> "excel", request |-> [kind |-> "sync", sheet |-> s.rows]]
          /\ job' = [NoRun EXCEPT !.pc = "queued", !.sheet = s, !.number = asked + 1]
  BY DEF Get
<1>2. /\ FreshOK(client, job, asked, table)
      /\ asked' = asked + 1 /\ asked < MaxRequests /\ table' = table
      /\ MaxRequests \in Nat /\ asked \in 0..MaxRequests
  BY RequestsAssumption DEF IInv, Get, FreshOK
<1>3. job' = [pc |-> "queued", sheet |-> s, number |-> asked + 1, tries |-> 0,
              file |-> "create", raised |-> "none", landed |-> FALSE]
  BY <1>1 DEF NoRun
<1>4. asked + 1 \in Numbers /\ asked + 1 \in 0..MaxRequests
  BY <1>2 DEF Numbers
<1>5. JobOK(job')
  BY <1>3, <1>4, RequestsAssumption
  DEF JobOK, JobRecords, BeforeSync, AfterSync, Ended, Exceptions, Refusing
<1>6. ClientOK(client', job') /\ ReportOK(job', report')
  BY <1>1, <1>3 DEF ClientOK, ReportOK
<1>7. FreshOK(client', job', asked', table')
  BY <1>1, <1>2, <1>3 DEF FreshOK, Numbers
<1> QED
  BY <1>5, <1>6, <1>7 DEF IInv, Get

\* Every step of the system keeps the invariant.
LEMMA NextKeeps == IInv /\ [Next]_vars => IInv'
<1> SUFFICES ASSUME IInv, [Next]_vars PROVE IInv'
  OBVIOUS
<1>1. CASE Post
  BY <1>1, PostKeeps
<1>2. CASE AnswerPost
  <2>1. IsBody(client.request.elements) /\ asked \in Numbers /\ table \in Contents
    BY <1>2, BulkFacts DEF IInv, AnswerPost
  <2> DEFINE out == Outcome(client.request.elements, table, asked)
             status == IF out.exception = "none" THEN 200 ELSE Status(out.exception)
  <2>2. status \in {200, 409, 422, 500}
    BY <2>1, OutcomeFacts
  <2>3. status \in Statuses
    BY <2>2 DEF Statuses
  <2>4. Respond(status, FALSE, FALSE) /\ table' = out.table
    BY <1>2 DEF AnswerPost, Fail
  <2> QED
    BY <1>2, <2>3, <2>4, BulkKeeps DEF AnswerPost
<1>3. CASE PostFails
  <2>1. Status("DBAPIError") \in Statuses
    BY StatusFacts DEF Statuses
  <2> QED
    BY <1>3, <2>1, BulkKeeps DEF PostFails, Fail
<1>4. CASE Get
  BY <1>4, GetKeeps
<1>5. CASE AnswerGet
  <2>1. job.raised \in Exceptions
    BY DEF IInv, JobOK, JobRecords
  <2>2. JobStatus(job.raised) \in Statuses
    BY <2>1, JobStatusFacts DEF Statuses
  <2>3. (job.raised = "none" /\ job.sheet.errors) \in BOOLEAN /\ (job.tries > 1) \in BOOLEAN
    OBVIOUS
  <2> QED
    BY <1>5, <2>2, <2>3, RespondKeeps DEF AnswerGet
<1>6. CASE GiveUp
  <2>1. Status("RequestTimeoutError") \in Statuses /\ Status("ConnectionError") \in Statuses
    BY StatusFacts DEF Statuses
  <2> QED
    BY <1>6, <2>1, RespondKeeps DEF GiveUp, Fail
<1>7. CASE EnqueueFails
  <2>1. Status("ConnectionError") \in Statuses
    BY StatusFacts DEF Statuses
  <2> QED
    BY <1>7, <2>1, RespondKeeps DEF EnqueueFails, Fail
<1>8. CASE JobStep
  BY <1>8, JobStepMoves, JobMovedKeeps
<1>9. CASE KeyFree
  BY <1>9 DEF KeyFree, IInv
<1>10. CASE UNCHANGED vars
  BY <1>10 DEF vars, IInv
<1> QED
  BY <1>1, <1>2, <1>3, <1>4, <1>5, <1>6, <1>7, <1>8, <1>9, <1>10 DEF Next, JobStep

\* The invariant: records, what a client waits for, when a job has landed, whose errors
\* are on EDU and which ids are still new, at every moment.
THEOREM Inductive == Spec => []IInv
<1>1. Init => IInv
  BY InitKeeps
<1> QED
  BY <1>1, NextKeeps, PTL DEF Spec

\* The table, the key, the file on EDU and the job stay within their types, and the only
\* statuses of the two routes are 200, 404, 408, 409, 422, 423, 500 and 503
\* (exception_handler.py:134-146, repository.py:251-254).
THEOREM TypeInvariant == Spec => []TypeOK
<1>1. IInv => TypeOK
  <2> SUFFICES ASSUME IInv PROVE TypeOK
    OBVIOUS
  <2>1. client.pc \in {"idle", "bulk", "excel"}
    BY DEF IInv, ClientOK, Idle
  <2>2. job \in JobRecords /\ asked \in 0..MaxRequests
    BY DEF IInv, JobOK, FreshOK
  <2>3. /\ job.pc \in {"none", "queued", "fetch", "sync", "lookup", "upload", "finish",
                       "over", "done"}
        /\ job.number \in 0..MaxRequests /\ job.file \in {"create", "update"}
        /\ job.landed \in BOOLEAN /\ job.tries \in 0..MaxTries
    BY <2>2 DEF JobRecords, BeforeSync, AfterSync, Ended
  <2>4. /\ answer.status \in {0, 200, 404, 408, 409, 422, 423, 500, 503}
        /\ answer.errors \in BOOLEAN /\ answer.again \in BOOLEAN
    BY DEF IInv, Answers, Statuses
  <2> QED
    BY <2>1, <2>2, <2>3, <2>4 DEF IInv, TypeOK, Contents
<1> QED
  BY <1>1, Inductive, PTL

\* The filter builder keeps its promise whatever requests have come (repository.py:150-197).
THEOREM FiltersSelect == Spec => []FiltersMean
<1>1. FiltersMean
  BY Builder DEF FiltersMean
<1> QED
  BY <1>1, PTL

-----------------------------------------------------------------------------
(* What the answers say                                                     *)

\* A response of 200 to a bulk request, but for failures of PostgreSQL, goes to acceptable
\* bodies and to all of them; after a refresh it says what is on EDU
\* (requests/glossary.py:12-45, edu.py:55-115, glossary.py:186-216).
THEOREM TrueAnswers == Spec => AnswersAreTrue
<1> DEFINE status == answer'.status
           Honest ==
             /\ client.pc = "bulk" /\ client'.pc = "idle" =>
                  IF Acceptable(client.request.elements, table) THEN status \in {200, 500}
                  ELSE status \in {409, 422, 500}
             /\ client.pc = "excel" /\ client'.pc = "idle" /\ status = 200 =>
                  /\ answer'.errors = job.sheet.errors
                  /\ answer'.errors => report' = job.number
<1>1. IInv /\ [Next]_vars => Honest
  <2> SUFFICES ASSUME IInv, [Next]_vars PROVE Honest
    OBVIOUS
  <2>1. CASE AnswerPost
    <3>1. IsBody(client.request.elements) /\ asked \in Numbers /\ table \in Contents
      BY <2>1, BulkFacts DEF IInv, AnswerPost
    <3> DEFINE out == Outcome(client.request.elements, table, asked)
    <3>2. status = IF out.exception = "none" THEN 200 ELSE Status(out.exception)
      BY <2>1 DEF AnswerPost, Fail, Respond
    <3>3. \/ Acceptable(client.request.elements, table) /\ out.exception = "none"
          \/ /\ ~Acceptable(client.request.elements, table) /\ out.exception # "none"
             /\ Status(out.exception) \in {409, 422, 500}
      BY <3>1, OutcomeFacts
    <3>4. client.pc = "bulk"
      BY <2>1 DEF AnswerPost
    <3> HIDE DEF out
    <3> QED
      BY <3>2, <3>3, <3>4
  <2>2. CASE PostFails
    BY <2>2, StatusFacts DEF PostFails, Fail, Respond
  <2>3. CASE AnswerGet
    <3>1. client.pc = "excel" /\ job.pc = "done" /\ report' = report
      BY <2>3 DEF AnswerGet
    <3>2. status = JobStatus(job.raised)
      BY <2>3 DEF AnswerGet, Respond
    <3>3. job.raised \in Exceptions /\ job.sheet \in Sheets /\ ReportOK(job, report)
      BY <3>1 DEF IInv, JobOK, JobRecords
    <3>4. status = 200 => job.raised = "none"
      <4>1. JobStatus(job.raised) = 200 => job.raised = "none"
        BY <3>3, JobStatusFacts
      <4> QED
        BY <3>2, <4>1
    <3>5. job.sheet.errors \in BOOLEAN
      BY <3>3, RequestsAssumption
    <3>6. job.raised = "none" => (answer'.errors <=> job.sheet.errors) /\ answer'.errors \in BOOLEAN
      BY <2>3 DEF AnswerGet, Respond
    <3>7. job.raised = "none" => answer'.errors = job.sheet.errors
      BY <3>5, <3>6, Zenon
    <3> QED
      BY <3>1, <3>3, <3>4, <3>7 DEF ReportOK
  <2>4. CASE GiveUp \/ EnqueueFails
    <3>1. client.pc = "excel" /\ status \in {408, 500}
      BY <2>4, StatusFacts DEF GiveUp, EnqueueFails, Fail, Respond
    <3> QED
      BY <3>1
  <2>5. CASE Post \/ Get
    BY <2>5 DEF Post, Get
  <2>6. CASE JobStep \/ KeyFree
    <3>1. client' = client
      BY <2>6 DEF JobStep, Take, Exhaust, Fetch, Sync, Lookup, Upload, Finish, JobTimeout, Store,
                  Interrupt, KeyFree
    <3> QED
      BY <3>1
  <2>7. CASE UNCHANGED vars
    BY <2>7 DEF vars
  <2> QED
    BY <2>1, <2>2, <2>3, <2>4, <2>5, <2>6, <2>7 DEF Next, JobStep
<1>2. IInv /\ [Next]_vars => [Honest]_vars
  BY <1>1
<1>3. AnswersAreTrue <=> [][Honest]_vars
  BY PTL DEF AnswersAreTrue
<1> QED
  BY <1>2, <1>3, Inductive, PTL DEF Spec

-----------------------------------------------------------------------------
(* The contract                                                             *)

\* The state of the contract.
request == [c \in {"client"} |-> client.request]
landed  == [c \in {"client"} |-> client.pc = "excel" /\ job.landed]
loose   == IF client.pc = "excel" \/ job.pc \in {"none", "done"} THEN {}
           ELSE {[kind |-> "sync", sheet |-> job.sheet.rows]}
reply   == [c \in {"client"} |-> Told]

\* The one client gives up or is answered.
LEMMA Answered ==
    ASSUME IInv, client.pc # "idle", client' = Idle
    PROVE  Promise!Answer("client", Told')
<1>1. client.request # NoJob
  <2>1. client.request \in Jobs
    BY DEF IInv, ClientOK, JobOK, Jobs, Idle
  <2> QED
    BY <2>1, NoJobAssumption
<1>2. request' = [request EXCEPT !["client"] = NoJob]
  BY DEF request, Idle
<1>3. landed' = [landed EXCEPT !["client"] = FALSE]
  <2>1. ~(client'.pc = "excel" /\ job'.landed)
    BY DEF Idle
  <2>2. landed' = [c \in {"client"} |-> FALSE]
    BY <2>1 DEF landed
  <2> QED
    BY <2>2 DEF landed
<1>4. reply' = [reply EXCEPT !["client"] = Told']
  BY DEF reply
<1> QED
  BY <1>1, <1>2, <1>3, <1>4 DEF Promise!Answer, Promise!Open, request, landed, reply

\* What an answer tells the one client.
LEMMA AnsweredWith ==
    ASSUME IInv, client.pc # "idle", client' = Idle
    PROVE  /\ answer'.status = 200 => Promise!Answer("client", "modified")
           /\ answer'.status \in {404, 409, 422, 423} /\ ~answer'.again =>
                  Promise!Answer("client", "refused")
           /\ \/ answer'.status \in {408, 500, 503}
              \/ answer'.status \in {404, 423} /\ answer'.again
              => Promise!Answer("client", "failed")
<1>1. ASSUME answer'.status = 200 PROVE Told' = "modified"
  BY <1>1, MeaningFacts DEF Told
<1>2. ASSUME answer'.status \in {404, 409, 422, 423}, ~answer'.again PROVE Told' = "refused"
  BY <1>2, MeaningFacts DEF Told
<1>3. ASSUME answer'.status \in {408, 500, 503} PROVE Told' = "failed"
  BY <1>3, MeaningFacts DEF Told
<1>4. ASSUME answer'.status \in {404, 423}, answer'.again PROVE Told' = "failed"
  BY <1>4, MeaningFacts DEF Told
<1> QED
  BY <1>1, <1>2, <1>3, <1>4, Answered

\* A bulk request that is answered has landed at once or never does.
LEMMA BulkAnswered ==
    ASSUME IInv, AnswerPost \/ PostFails
    PROVE  Promise!Acknowledge("client") \/ Promise!Refuse("client") \/ Promise!Fail("client")
<1> DEFINE es  == client.request.elements
           out == Outcome(es, table, asked)
<1>1. client.pc = "bulk" /\ client' = Idle /\ ~answer'.again /\ loose' = loose
  <2>1. client.pc = "bulk" /\ client' = Idle /\ ~answer'.again /\ job' = job
    BY DEF AnswerPost, PostFails, Fail, Respond
  <2> QED
    BY <2>1 DEF loose, Idle
<1>2. ~landed["client"] /\ request["client"] = client.request /\ client.request.kind = "bulk"
  BY <1>1, BulkFacts DEF landed, request
<1>3. IsBody(es) /\ asked \in Numbers /\ table \in Contents
  BY <1>1, BulkFacts DEF IInv
<1>4. Acceptable(es, table) => Promise!Effect(request["client"], out.table)
  BY <1>1, <1>2, BulkLands DEF Promise!Effect
<1>5. \/ Acceptable(es, table) /\ out.exception = "none"
      \/ /\ ~Acceptable(es, table) /\ out.exception # "none" /\ out.table = table
         /\ Status(out.exception) \in {409, 422, 500}
  BY <1>3, OutcomeFacts
<1>6. /\ answer'.status = 200 => Promise!Answer("client", "modified")
      /\ answer'.status \in {409, 422} => Promise!Answer("client", "refused")
      /\ answer'.status = 500 => Promise!Answer("client", "failed")
  BY <1>1, AnsweredWith
<1>7. CASE AnswerPost
  <2>1. table' = out.table
    BY <1>7 DEF AnswerPost
  <2>2. CASE out.exception = "none"
    <3>1. answer'.status = 200
      BY <1>7, <2>2 DEF AnswerPost, Respond
    <3>2. Promise!Answer("client", "modified")
      BY <3>1, <1>6
    <3>3. Promise!Effect(request["client"], table')
      BY <1>4, <1>5, <2>1, <2>2
    <3> QED
      BY <3>2, <3>3, <1>1, <1>2 DEF Promise!Acknowledge, request, landed, loose
  <2>3. CASE out.exception # "none"
    <3>1. answer'.status \in {409, 422, 500} /\ table' = table
      BY <1>5, <1>7, <2>1, <2>3 DEF AnswerPost, Fail, Respond
    <3>2. Promise!Answer("client", "refused") \/ Promise!Answer("client", "failed")
      BY <3>1, <1>6
    <3> QED
      BY <3>1, <3>2, <1>1, <1>2
      DEF Promise!Refuse, Promise!Refusals, Promise!Fail, request, landed, loose
  <2> QED
    BY <2>2, <2>3
<1>8. CASE PostFails
  <2>1. answer'.status = 500 /\ table' \in {table, out.table}
    BY <1>8, StatusFacts DEF PostFails, Fail, Respond
  <2>2. Promise!Answer("client", "failed")
    BY <2>1, <1>6
  <2>3. table' = table \/ Promise!Effect(request["client"], table')
    BY <2>1, <1>4, <1>5
  <2> QED
    BY <2>2, <2>3, <1>1, <1>2 DEF Promise!Fail, request, landed, loose
<1> QED
  BY <1>7, <1>8

\* A refresh that is answered has landed if the answer is 200; if it is a refusal, it
\* has not, or the client is told no more than after a failure.  One that the client
\* gives up may land later, or again.
LEMMA ExcelAnswered ==
    ASSUME IInv, AnswerGet \/ GiveUp \/ EnqueueFails
    PROVE  \/ Promise!Acknowledge("client") \/ Promise!Refuse("client")
           \/ Promise!Fail("client") \/ Promise!GiveUp("client")
<1>1. /\ client.pc = "excel" /\ client' = Idle /\ table' = table
      /\ loose = {} /\ job.pc # "none" /\ JobOK(job)
      /\ client.request = [kind |-> "sync", sheet |-> job.sheet.rows]
  BY DEF AnswerGet, GiveUp, EnqueueFails, Fail, Respond, Idle, loose, IInv, ClientOK
<1>2. (landed["client"] <=> job.landed) /\ request["client"] = client.request
  BY <1>1 DEF landed, request
<1>3. /\ answer'.status = 200 => Promise!Answer("client", "modified")
      /\ answer'.status \in {404, 423} /\ ~answer'.again => Promise!Answer("client", "refused")
      /\ \/ answer'.status \in {408, 500, 503}
         \/ answer'.status \in {404, 423} /\ answer'.again
         => Promise!Answer("client", "failed")
  BY <1>1, AnsweredWith
<1>4. CASE AnswerGet
  <2>1. job.pc = "done" /\ loose' = {}
    BY <1>4 DEF AnswerGet, loose
  <2>2. job.raised \in Exceptions /\ job.tries \in Nat
    BY <1>1 DEF JobOK, JobRecords
  <2>3. /\ answer'.status = JobStatus(job.raised)
        /\ answer'.again <=> job.tries > 1
    BY <1>4 DEF AnswerGet, Respond
  <2>4. /\ answer'.status \in {200, 404, 408, 423, 500, 503}
        /\ answer'.status = 200 => job.raised = "none"
        /\ answer'.status \in {404, 423} => job.raised \in Refusing
    BY <2>2, <2>3, JobStatusFacts
  <2>5. /\ answer'.status = 200 => job.landed
        /\ answer'.status \in {404, 423} /\ ~answer'.again => ~job.landed
    BY <2>1, <2>2, <2>3, <2>4, <1>1 DEF JobOK, Ended
  <2>6. CASE answer'.status = 200
    BY <2>1, <2>5, <2>6, <1>1, <1>2, <1>3 DEF Promise!Acknowledge, request, landed, loose
  <2>7. CASE answer'.status \in {404, 423} /\ ~answer'.again
    BY <2>1, <2>5, <2>7, <1>1, <1>2, <1>3
    DEF Promise!Refuse, Promise!Refusals, request, landed, loose
  <2>8. CASE \/ answer'.status \in {408, 500, 503}
             \/ answer'.status \in {404, 423} /\ answer'.again
    BY <2>1, <2>8, <1>1, <1>3 DEF Promise!Fail, request, landed, loose
  <2> QED
    BY <2>4, <2>6, <2>7, <2>8
<1>5. CASE GiveUp
  <2>1. Promise!Answer("client", "failed") /\ job' = job
    <3>1. job' = job /\ answer'.status \in {408, 500}
      BY <1>5, StatusFacts DEF GiveUp, Fail, Respond
    <3> QED
      BY <3>1, <1>3
  <2>2. CASE job.pc = "done"
    <3>1. loose' = {}
      BY <1>1, <2>1, <2>2 DEF loose, Idle
    <3> QED
      BY <2>1, <3>1, <1>1 DEF Promise!Fail, request, landed, loose
  <2>3. CASE job.pc # "done"
    <3>1. loose' = {client.request}
      BY <1>1, <2>1, <2>3 DEF loose, Idle
    <3>2. Promise!Repeats(request["client"])
      BY <1>1, <1>2 DEF Promise!Repeats
    <3> QED
      BY <2>1, <2>3, <3>1, <3>2, <1>1, <1>2 DEF Promise!GiveUp, request, landed, loose
  <2> QED
    BY <2>2, <2>3
<1>6. CASE EnqueueFails
  <2>1. Promise!Answer("client", "failed")
    <3>1. answer'.status = 500
      BY <1>6, StatusFacts DEF EnqueueFails, Fail, Respond
    <3> QED
      BY <3>1, <1>3
  <2>2. loose' = {}
    BY <1>6 DEF EnqueueFails, NoRun, loose
  <2> QED
    BY <2>1, <2>2, <1>1 DEF Promise!Fail, request, landed, loose
<1> QED
  BY <1>4, <1>5, <1>6

\* A step of the job lands the request, perhaps once more, for a client that waits or
\* for one that does not, ends a job that nobody waits for, or is none of the contract's
\* business.
LEMMA JobServes ==
    ASSUME IInv, JobMoved
    PROVE  Promise!Land("client") \/ Promise!LandLate \/ UNCHANGED Promise!vars
<1>1. /\ job.pc \notin {"none", "done"} /\ job'.pc # "none"
      /\ job'.sheet = job.sheet /\ client' = client /\ answer' = answer
      /\ JobOK(job) /\ JobOK(job') /\ ClientOK(client, job)
  BY DEF JobMoved, IInv
<1>2. request' = request /\ reply' = reply
  BY <1>1 DEF request, reply, Told
<1> DEFINE late == [kind |-> "sync", sheet |-> job.sheet.rows]
<1>3. Promise!Repeats(late)
  BY DEF Promise!Repeats
<1>4. CASE UNCHANGED table /\ job'.landed = job.landed
  <2>1. landed' = landed
    BY <1>1, <1>4 DEF landed
  <2>2. CASE client.pc = "excel" \/ job'.pc # "done"
    <3>1. loose' = loose
      BY <1>1, <1>4, <2>2 DEF loose
    <3> QED
      BY <1>2, <1>4, <2>1, <3>1 DEF Promise!vars, request, landed, loose, reply
  <2>3. CASE client.pc # "excel" /\ job'.pc = "done"
    <3>1. loose = {late} /\ loose' = {}
      BY <1>1, <2>3 DEF loose
    <3>2. late \in loose /\ loose' = loose \ {late}
      BY <3>1
    <3> QED
      BY <1>2, <1>4, <2>1, <3>2 DEF Promise!LandLate, request, landed, loose, reply
  <2> QED
    BY <2>2, <2>3
<1>5. CASE /\ job.pc = "sync" /\ job'.landed /\ job'.pc # "done"
           /\ table' = Merged(job.sheet.rows, table, job.number)
  <2>1. job.sheet \in Sheets /\ job.number \in Numbers /\ table \in Contents
    BY <1>1, <1>5 DEF JobOK, IInv
  <2>2. Promise!Effect(late, table')
    BY <1>5, <2>1, MergeEffect DEF Promise!Effect
  <2>3. loose' = loose
    BY <1>1, <1>5 DEF loose
  <2>4. CASE client.pc = "excel"
    <3>1. client.request = late /\ late # NoJob
      <4>1. client.request = late
        BY <1>1, <2>4 DEF ClientOK, Idle
      <4>2. late \in Jobs
        BY <2>1 DEF Jobs
      <4> QED
        BY <4>1, <4>2, NoJobAssumption
    <3>2. landed' = [landed EXCEPT !["client"] = TRUE]
      <4>1. (client.pc = "excel" /\ job.landed)'
        BY <1>1, <1>5, <2>4
      <4>2. landed' = [c \in {"client"} |-> TRUE]
        BY <4>1 DEF landed
      <4> QED
        BY <4>2 DEF landed
    <3>3. request["client"] = late
      BY <3>1 DEF request
    <3> QED
      BY <1>2, <1>3, <2>2, <2>3, <3>1, <3>2, <3>3
      DEF Promise!Land, Promise!Open, request, landed, loose, reply
  <2>5. CASE client.pc # "excel"
    <3>1. late \in loose
      BY <1>1, <1>5, <2>5 DEF loose
    <3>2. landed' = landed
      BY <1>1, <2>5 DEF landed
    <3> QED
      BY <1>2, <1>3, <2>2, <2>3, <3>1, <3>2 DEF Promise!LandLate, request, landed, loose, reply
  <2> QED
    BY <2>4, <2>5
<1> QED
  BY <1>4, <1>5 DEF JobMoved

\* A client asks.
LEMMA AskMoves == ASSUME IInv, Post \/ Get PROVE Promise!Ask("client")
<1>1. /\ client = Idle /\ client.pc = "idle"
      /\ table' = table /\ answer' = answer /\ client'.pc # "idle"
      /\ client'.request \in Jobs
  <2>1. client.pc = "idle" /\ client = Idle
    <3>1. client.pc = "idle"
      BY DEF Post, Get
    <3> QED
      BY <3>1 DEF IInv, ClientOK
  <2>2. CASE Post
    <3>1. \E es \in Requests :
              client' = [pc |-> "bulk", request |-> [kind |-> "bulk", elements |-> Parsed(es)]]
      BY <2>2 DEF Post
    <3> QED
      BY <2>1, <2>2, <3>1 DEF Post, Jobs
  <2>3. CASE Get
    <3>1. \E s \in Sheets :
              client' = [pc |-> "excel", request |-> [kind |-> "sync", sheet |-> s.rows]]
      BY <2>3 DEF Get
    <3>2. table' = table /\ answer' = answer
      BY <2>3 DEF Get
    <3> QED
      BY <2>1, <3>1, <3>2 DEF Jobs
  <2> QED
    BY <2>2, <2>3
<1>2. request["client"] = NoJob /\ request' = [request EXCEPT !["client"] = client'.request]
  BY <1>1 DEF request, Idle
<1>3. landed' = landed
  <2>1. CASE Post
    <3>1. client'.pc = "bulk"
      BY <2>1 DEF Post
    <3> QED
      BY <1>1, <3>1 DEF landed
  <2>2. CASE Get
    <3>1. ~job'.landed
      BY <2>2 DEF Get, NoRun
    <3> QED
      BY <1>1, <3>1 DEF landed
  <2> QED
    BY <2>1, <2>2
<1>4. loose' = loose
  <2>1. CASE Post
    <3>1. client'.pc = "bulk" /\ job' = job
      BY <2>1 DEF Post
    <3> QED
      BY <1>1, <3>1 DEF loose
  <2>2. CASE Get
    <3>1. \E s \in Sheets :
              client' = [pc |-> "excel", request |-> [kind |-> "sync", sheet |-> s.rows]]
      BY <2>2 DEF Get
    <3>2. client.pc = "idle" /\ job.pc \in {"none", "done"}
      BY <2>2 DEF Get
    <3>3. client'.pc = "excel"
      BY <3>1
    <3> QED
      BY <3>2, <3>3 DEF loose
  <2> QED
    BY <2>1, <2>2
<1>5. reply' = reply
  BY <1>1 DEF reply, Told
<1> QED
  BY <1>1, <1>2, <1>3, <1>4, <1>5 DEF Promise!Ask, Promise!Open, request, landed, loose, reply

\* The statuses keep the contract: 200 says that the request has taken effect, and a 4xx
\* other than 408 that it has not and will not, unless arq has run the job again.  In that
\* case, and after 408, 500 and 503, it may have, or still may, also more than once
\* (exception_handler.py:134-146, glossary.py:131, 197, 235-240).
THEOREM Contract == Spec => StatusContract
<1>1. Init => Promise!Init
  <2> SUFFICES ASSUME Init PROVE Promise!Init
    OBVIOUS
  <2>1. table \in [RowIds -> [Fields -> Texts \cup {Null}] \cup {Gone}]
    <3>1. Rows \subseteq [Fields -> Texts \cup {Null}]
      BY DEF Rows
    <3> QED
      BY <3>1, RequestsAssumption DEF Init
  <2>2. client.request = NoJob /\ client.pc = "idle" /\ ~job.landed /\ job.pc = "none"
    BY DEF Init, Idle, NoRun
  <2>3. answer.status = 0
    BY DEF Init
  <2>4. /\ request = [c \in {"client"} |-> NoJob] /\ landed = [c \in {"client"} |-> FALSE]
        /\ loose = {} /\ reply = [c \in {"client"} |-> "none"]
    BY <2>2, <2>3 DEF request, landed, loose, reply, Told
  <2> QED
    BY <2>1, <2>4 DEF Promise!Init, request, landed, loose, reply
<1>2. IInv /\ [Next]_vars => [Promise!Next]_(Promise!vars)
  <2> SUFFICES ASSUME IInv, [Next]_vars PROVE [Promise!Next]_(Promise!vars)
    OBVIOUS
  <2>1. CASE Post \/ Get
    BY <2>1, AskMoves DEF Promise!Next
  <2>2. CASE AnswerPost \/ PostFails
    BY <2>2, BulkAnswered DEF Promise!Next
  <2>3. CASE AnswerGet \/ GiveUp \/ EnqueueFails
    BY <2>3, ExcelAnswered DEF Promise!Next
  <2>4. CASE JobStep
    BY <2>4, JobStepMoves, JobServes DEF Promise!Next
  <2>5. CASE KeyFree \/ UNCHANGED vars
    BY <2>5 DEF KeyFree, vars, Promise!vars, Told
  <2> QED
    BY <2>1, <2>2, <2>3, <2>4, <2>5 DEF Next, JobStep
<1> QED
  BY <1>1, <1>2, Inductive, PTL DEF Spec, StatusContract, Promise!Spec
=============================================================================
