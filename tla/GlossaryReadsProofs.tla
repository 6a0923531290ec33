------------------------- MODULE GlossaryReadsProofs -------------------------
(* Theorems about the walk of a client through the pages of the listing and   *)
(* of the search, for any table, any contents, any page size and any number   *)
(* of commits between the pages.                                              *)
EXTENDS GlossaryReads, FiniteSetTheorems, WellFoundedInduction, TLAPS

\* How many elements come before one with key k.
Before(k, T) == {e \in T : Less(ListKey(e), k)}
Rank(k, T)   == Cardinality(Before(k, T))

-----------------------------------------------------------------------------
(* The inductive invariants                                                 *)

\* Without a removal, an element that was there at first has been shown or comes on a
\* later page.
NothingMissed ==
    walk.op = "list" /\ "removed" \notin since =>
        /\ start \subseteq IdsOf(table)
        /\ \A e \in table : e.id \in start =>
             \/ e.id \in ToSet(walk.seen)
             \/ walk.step # "ended" /\ walk.offset <= Rank(ListKey(e), table)

\* Without an insertion, an element that was shown comes before the next page.
NothingRepeated ==
    walk.op = "list" /\ "inserted" \notin since =>
        /\ ~Repeated
        /\ \A e \in table :
             e.id \in ToSet(walk.seen) => Rank(ListKey(e), table) < walk.offset

\* A listing has a page size; a search is one statement.
WalkShape ==
    /\ walk.op = "list" => walk.limit > 0
    /\ walk.op = "search" => walk.step # "page"

\* What a walk that has shown n of m rows knows: every page but the last was full.
Progress(m) ==
    /\ Len(walk.seen) = IF walk.step = "ended" THEN m ELSE walk.offset
    /\ Len(walk.seen) <= m
    /\ walk.counts \subseteq {m}

\* An undisturbed search shows its rows up to those with equal keys, which may change
\* places from page to page.
SearchInv ==
    walk.op = "search" /\ Undisturbed =>
        /\ Progress(TotalCount(table))
        /\ walk.seen = << >> \/ \E s \in Sorted(Found(table), SearchKey) :
             \A i \in DOMAIN walk.seen : \E r \in Found(table) :
                r.element.id = walk.seen[i] /\ SearchKey(r) = SearchKey(s[i])

ListTotals ==
    walk.op = "list" /\ Undisturbed =>
        /\ Progress(Cardinality(table))
        /\ walk.step = "page" => walk.total = Cardinality(table)

IInv == TypeOK /\ WalkShape /\ NothingMissed /\ NothingRepeated /\ ListTotals /\ SearchInv
-----------------------------------------------------------------------------
(* Tables                                                                   *)

\* A subset of a set of ids is finite, and there are only so many of them.
LEMMA IdsFinite ==
    /\ IsFiniteSet(Ids) /\ Cardinality(Ids) \in Nat
    /\ \A I \in SUBSET Ids : IsFiniteSet(I) /\ Cardinality(I) \in Nat /\ Cardinality(I) <= Cardinality(Ids)
BY ConstantsAssumption, FS_CardinalityType, FS_Subset

\* An injection into a finite set counts (the form used below).
LEMMA Injects ==
    ASSUME NEW S, NEW T, IsFiniteSet(T), NEW f \in [S -> T],
           \A x, y \in S : f[x] = f[y] => x = y
    PROVE  /\ IsFiniteSet(S) /\ Cardinality(S) \in Nat /\ Cardinality(T) \in Nat
           /\ Cardinality(S) <= Cardinality(T)
           /\ Cardinality(S) = Cardinality(T) => \A t \in T : \E x \in S : f[x] = t
<1>1. f \in Injection(S, T)
  BY DEF Injection, IsInjective
<1>2. /\ IsFiniteSet(S)
      /\ Cardinality(S) <= Cardinality(T)
      /\ Cardinality(S) = Cardinality(T) <=> f \in Surjection(S, T)
  BY <1>1, FS_Injection
<1>3. Cardinality(S) \in Nat /\ Cardinality(T) \in Nat
  BY <1>2, FS_CardinalityType
<1>4. QED
  BY <1>2, <1>3 DEF Surjection

\* A table is finite, holds no more elements than there are ids, and an id names one
\* element of it (the primary key of glossary_element).
LEMMA TableFacts ==
    ASSUME NEW T \in Tables
    PROVE  /\ T \subseteq Elements
           /\ IsFiniteSet(T)
           /\ Cardinality(T) \in 0..Cardinality(Ids)
           /\ \A e, f \in T : e.id = f.id => e = f
<1>1. PICK I \in SUBSET Ids : \E f \in [I -> Contents] : T = {[id |-> i, says |-> f[i]] : i \in I}
  BY DEF Tables
<1>7. PICK f \in [I -> Contents] : T = {[id |-> i, says |-> f[i]] : i \in I}
  BY <1>1
<1>2. T \subseteq Elements /\ \A e, g \in T : e.id = g.id => e = g
  BY <1>7 DEF Elements
<1>3. [e \in T |-> e.id] \in [T -> Ids]
  BY <1>2 DEF Elements
<1>4. \A x, y \in T : [e \in T |-> e.id][x] = [e \in T |-> e.id][y] => x = y
  BY <1>2
<1>5. /\ IsFiniteSet(T) /\ Cardinality(T) \in Nat /\ Cardinality(T) <= Cardinality(Ids)
  <2> DEFINE g == [e \in T |-> e.id]
  <2>1. g \in [T -> Ids] /\ \A x, y \in T : g[x] = g[y] => x = y
    BY <1>3, <1>4
  <2> HIDE DEF g
  <2>2. QED
    BY <2>1, IdsFinite, Injects
<1>6. QED
  BY <1>2, <1>5, IdsFinite

\* The fields of an element.
LEMMA ElementFacts ==
    ASSUME NEW e \in Elements
    PROVE  /\ e.id \in Ids /\ e.id \in Nat /\ e.says \in Contents
           /\ e.says.abbreviation \in Text /\ e.says.term \in Text /\ e.says.definition \in Nat
           /\ e.says.abbreviation.at \in Nat /\ e.says.term.at \in Nat
           /\ e.says.abbreviation.folded \in Nat /\ e.says.term.folded \in Nat
           /\ e.says.abbreviation.parts \subseteq Part /\ e.says.abbreviation.parts # {}
           /\ e.says.term.parts \subseteq Part /\ e.says.term.parts # {}
<1>1. e.id \in Ids /\ e.id \in Nat /\ e.says \in Contents
  BY ConstantsAssumption DEF Elements
<1>2. e.says.abbreviation \in Text /\ e.says.term \in Text /\ e.says.definition \in Nat
  BY <1>1, ContentsAssumption
<1>3. e.says.abbreviation.parts # {} /\ e.says.term.parts # {}
  <2>1. \A t \in UNION {{c.abbreviation, c.term} : c \in Contents} : t.parts # {}
    BY ContentsAssumption
  <2>2. QED
    BY <1>1, <2>1
<1>4. QED
  BY <1>1, <1>2, <1>3 DEF Text

-----------------------------------------------------------------------------
(* Orders                                                                   *)

\* The order of triples, written out.
LEMMA LessThree ==
    ASSUME NEW a, NEW b, NEW c, NEW x, NEW y, NEW z
    PROVE  Less(<<a, b, c>>, <<x, y, z>>) <=>
             a < x \/ (a = x /\ b < y) \/ (a = x /\ b = y /\ c < z)
<1> DEFINE k == <<a, b, c>>
           l == <<x, y, z>>
<1>1. DOMAIN k = {1, 2, 3} /\ k[1] = a /\ k[2] = b /\ k[3] = c
  OBVIOUS
<1>2. l[1] = x /\ l[2] = y /\ l[3] = z
  OBVIOUS
<1>3. 1..(1-1) = {} /\ 1..(2-1) = {1} /\ 1..(3-1) = {1, 2}
  OBVIOUS
<1> HIDE DEF k, l
<1>4. Less(k, l) <=> \/ k[1] < l[1]
                     \/ k[2] < l[2] /\ k[1] = l[1]
                     \/ k[3] < l[3] /\ k[1] = l[1] /\ k[2] = l[2]
  BY <1>1, <1>3, Zenon DEF Less
<1>5. QED
  BY <1>1, <1>2, <1>4 DEF k, l

\* The order of quadruples, written out.
LEMMA LessFour ==
    ASSUME NEW a, NEW b, NEW c, NEW d, NEW x, NEW y, NEW z, NEW w
    PROVE  Less(<<a, b, c, d>>, <<x, y, z, w>>) <=>
             \/ a < x \/ (a = x /\ b < y) \/ (a = x /\ b = y /\ c < z)
             \/ (a = x /\ b = y /\ c = z /\ d < w)
<1> DEFINE k == <<a, b, c, d>>
           l == <<x, y, z, w>>
<1>1. DOMAIN k = {1, 2, 3, 4} /\ k[1] = a /\ k[2] = b /\ k[3] = c /\ k[4] = d
  OBVIOUS
<1>2. l[1] = x /\ l[2] = y /\ l[3] = z /\ l[4] = w
  OBVIOUS
<1>3. 1..(1-1) = {} /\ 1..(2-1) = {1} /\ 1..(3-1) = {1, 2} /\ 1..(4-1) = {1, 2, 3}
  OBVIOUS
<1> HIDE DEF k, l
<1>4. Less(k, l) <=> \/ k[1] < l[1]
                     \/ k[2] < l[2] /\ k[1] = l[1]
                     \/ k[3] < l[3] /\ k[1] = l[1] /\ k[2] = l[2]
                     \/ k[4] < l[4] /\ k[1] = l[1] /\ k[2] = l[2] /\ k[3] = l[3]
  BY <1>1, <1>3, Zenon DEF Less
<1>5. QED
  BY <1>1, <1>2, <1>4 DEF k, l

\* What ORDER BY returns holds every row once, and none before a smaller one.
LEMMA SetToSeqsFacts ==
    ASSUME NEW S, IsFiniteSet(S), NEW s \in SetToSeqs(S)
    PROVE  /\ s \in Seq(S) /\ Len(s) = Cardinality(S) /\ DOMAIN s = 1..Cardinality(S)
           /\ \A i \in DOMAIN s : s[i] \in S
           /\ \A i, j \in DOMAIN s : s[i] = s[j] => i = j
           /\ \A e \in S : \E i \in DOMAIN s : s[i] = e
<1> DEFINE n == Cardinality(S)
<1>1. n \in Nat
  BY FS_CardinalityType
<1>2. s \in [1..n -> S] /\ \A i, j \in 1..n : i # j => s[i] # s[j]
  BY DEF SetToSeqs
<1>3. IsFiniteSet(1..n) /\ Cardinality(1..n) = n
  BY <1>1, FS_Interval
<1>4. \A e \in S : \E i \in 1..n : s[i] = e
  <2> DEFINE D == 1..n
  <2>1. s \in [D -> S] /\ (\A i, j \in D : s[i] = s[j] => i = j) /\ Cardinality(D) = Cardinality(S)
    BY <1>2, <1>3
  <2> HIDE DEF D
  <2>2. \A e \in S : \E i \in D : s[i] = e
    BY <2>1, Injects
  <2>3. QED
    BY <2>2 DEF D
<1>5. QED
  BY <1>1, <1>2, <1>4
\* A one-to-one correspondence keeps the count.
LEMMA Counts ==
    ASSUME NEW S, NEW T, IsFiniteSet(S), NEW f \in [S -> T],
           \A x, y \in S : f[x] = f[y] => x = y,
           \A t \in T : \E x \in S : f[x] = t
    PROVE  IsFiniteSet(T) /\ Cardinality(T) = Cardinality(S)
<1>1. f \in Injection(S, T) /\ f \in Surjection(S, T)
  BY DEF Injection, IsInjective, Surjection
<1>2. QED
  BY <1>1, FS_Surjection

\* LIMIT and OFFSET: which rows a page holds (glossary_element.py:118).
LEMMA PageFacts ==
    ASSUME NEW S, NEW s \in Seq(S), NEW offset \in Nat, NEW limit \in Nat
    PROVE  LET p == Page(s, offset, limit) IN
             /\ p \in Seq(S) /\ Len(p) \in Nat /\ DOMAIN p = 1..Len(p)
             /\ \A i \in DOMAIN p : offset + i \in DOMAIN s /\ p[i] = s[offset + i]
             /\ \A j \in DOMAIN s : offset < j /\ (limit = 0 \/ j <= offset + limit) =>
                    j - offset \in DOMAIN p
             /\ limit = 0 /\ offset <= Len(s) => Len(p) = Len(s) - offset
             /\ limit > 0 => Len(p) <= limit
             /\ limit > 0 /\ offset + limit <= Len(s) => Len(p) = limit
             /\ limit > 0 /\ offset <= Len(s) /\ Len(s) < offset + limit => Len(p) = Len(s) - offset
<1> DEFINE last == IF limit = 0 THEN Len(s) ELSE Min({offset + limit, Len(s)})
           p == SubSeq(s, offset + 1, last)
<1>1. /\ last \in Nat /\ last <= Len(s)
      /\ limit = 0 => last = Len(s)
      /\ limit > 0 => last <= offset + limit
      /\ limit > 0 /\ offset + limit <= Len(s) => last = offset + limit
      /\ limit > 0 /\ Len(s) < offset + limit => last = Len(s)
  BY DEF Min
<1>2. Page(s, offset, limit) = p
  BY DEF Page
<1> HIDE DEF last
<1>3. /\ p \in Seq(S) /\ Len(p) \in Nat /\ DOMAIN p = 1..Len(p)
      /\ Len(p) = IF last < offset + 1 THEN 0 ELSE last - offset
      /\ \A i \in DOMAIN p : p[i] = s[offset + i]
  BY <1>1
<1>4. PICK n \in Nat : n = Len(s) /\ DOMAIN s = 1..n
  OBVIOUS
<1>5. PICK m \in Nat : m = Len(p) /\ DOMAIN p = 1..m
  BY <1>3
<1> HIDE DEF p
<1>6. m = IF last < offset + 1 THEN 0 ELSE last - offset
  BY <1>3, <1>5
<1>7. /\ limit = 0 /\ offset <= n => m = n - offset
      /\ limit > 0 => m <= limit
      /\ limit > 0 /\ offset + limit <= n => m = limit
      /\ limit > 0 /\ offset <= n /\ n < offset + limit => m = n - offset
  BY <1>1, <1>4, <1>6
<1>8. /\ \A i \in 1..m : offset + i \in 1..n
      /\ \A j \in 1..n : offset < j /\ (limit = 0 \/ j <= offset + limit) => j - offset \in 1..m
  BY <1>1, <1>4, <1>6
<1>9. QED
  BY <1>2, <1>3, <1>4, <1>5, <1>7, <1>8

-----------------------------------------------------------------------------
(* The order of the listing                                                 *)

\* abbreviation, term, id is a strict order, total on elements with different ids.
LEMMA ListKeyOrder ==
    ASSUME NEW e \in Elements, NEW f \in Elements, NEW g \in Elements
    PROVE  /\ ~Less(ListKey(e), ListKey(e))
           /\ Less(ListKey(e), ListKey(f)) \/ Less(ListKey(f), ListKey(e)) \/ e.id = f.id
           /\ ListKey(e) = ListKey(f) => e.id = f.id
<1> DEFINE A(x) == x.says.abbreviation.at
           T(x) == x.says.term.at
           I(x) == x.id
<1>1. /\ A(e) \in Nat /\ T(e) \in Nat /\ I(e) \in Nat
      /\ A(f) \in Nat /\ T(f) \in Nat /\ I(f) \in Nat
  BY ElementFacts
<1>2. \A x, y : Less(<<A(x), T(x), I(x)>>, <<A(y), T(y), I(y)>>) <=>
                   A(x) < A(y) \/ (A(x) = A(y) /\ T(x) < T(y))
                   \/ (A(x) = A(y) /\ T(x) = T(y) /\ I(x) < I(y))
  BY LessThree
<1>3. \A x : ListKey(x) = <<A(x), T(x), I(x)>>
  BY DEF ListKey
<1> HIDE DEF A, T
<1>4. QED
  BY <1>1, <1>2, <1>3

\* In the order of the listing an element stands behind exactly those before it.
LEMMA ListPosition ==
    ASSUME NEW T \in Tables, NEW s \in Sorted(T, ListKey)
    PROVE  /\ s \in Seq(T) /\ Len(s) = Cardinality(T) /\ DOMAIN s = 1..Cardinality(T)
           /\ \A i \in DOMAIN s : s[i] \in T
           /\ \A i, j \in DOMAIN s : s[i] = s[j] => i = j
           /\ \A e \in T : \E i \in DOMAIN s : s[i] = e
           /\ \A i \in DOMAIN s : Rank(ListKey(s[i]), T) = i - 1
<1>1. T \subseteq Elements /\ IsFiniteSet(T) /\ Cardinality(T) \in Nat
      /\ \A e, f \in T : e.id = f.id => e = f
  BY TableFacts, IdsFinite
<1>2. s \in SetToSeqs(T) /\ \A i, j \in DOMAIN s : i < j => ~Less(ListKey(s[j]), ListKey(s[i]))
  BY DEF Sorted
<1>3. /\ s \in Seq(T) /\ Len(s) = Cardinality(T) /\ DOMAIN s = 1..Cardinality(T)
      /\ \A i \in DOMAIN s : s[i] \in T
      /\ \A i, j \in DOMAIN s : s[i] = s[j] => i = j
      /\ \A e \in T : \E i \in DOMAIN s : s[i] = e
  BY <1>1, <1>2, SetToSeqsFacts
<1>4. ASSUME NEW i \in DOMAIN s
      PROVE  Rank(ListKey(s[i]), T) = i - 1
  <2> DEFINE B == Before(ListKey(s[i]), T)
             D == 1..(i - 1)
             g == [j \in D |-> s[j]]
  <2>1. i \in Nat /\ D \subseteq DOMAIN s /\ \A j \in DOMAIN s : j \in D <=> j < i
    BY <1>1, <1>3
  <2>2. \A j \in DOMAIN s : s[j] \in T /\ s[j] \in Elements
    BY <1>1, <1>3
  <2>3. \A j \in D : s[j] \in B
    <3>1. SUFFICES ASSUME NEW j \in D PROVE Less(ListKey(s[j]), ListKey(s[i]))
      BY <2>1, <2>2 DEF Before
    <3>2. j < i /\ j \in DOMAIN s /\ s[j].id # s[i].id
      BY <1>1, <1>3, <2>1, <2>2
    <3>3. ~Less(ListKey(s[i]), ListKey(s[j]))
      BY <1>2, <3>2
    <3>4. QED
      BY <2>2, <3>2, <3>3, ListKeyOrder
  <2>4. \A e \in B : \E j \in D : g[j] = e
    <3>1. SUFFICES ASSUME NEW e \in T, Less(ListKey(e), ListKey(s[i])) PROVE \E j \in D : s[j] = e
      BY DEF Before
    <3>2. PICK j \in DOMAIN s : s[j] = e
      BY <1>3
    <3>3. j # i
      BY <2>2, <3>1, <3>2, ListKeyOrder
    <3>4. ~(i < j)
      BY <1>2, <3>1, <3>2
    <3>5. QED
      BY <1>1, <1>3, <2>1, <3>2, <3>3, <3>4
  <2>5. g \in [D -> B] /\ \A x, y \in D : g[x] = g[y] => x = y
    BY <1>3, <2>1, <2>3
  <2>6. IsFiniteSet(D) /\ Cardinality(D) = i - 1
    <3>1. PICK k \in Nat : k = i - 1
      BY <1>1, <1>3, <2>1
    <3>2. IsFiniteSet(1..k) /\ Cardinality(1..k) = IF 1 > k THEN 0 ELSE k - 1 + 1
      BY FS_Interval
    <3>3. Cardinality(1..k) = k
      BY <3>2
    <3>4. QED
      BY <3>1, <3>2, <3>3
  <2> HIDE DEF B, D, g
  <2>7. Cardinality(B) = Cardinality(D)
    BY <2>4, <2>5, <2>6, Counts
  <2>8. QED
    BY <2>6, <2>7 DEF Rank, B
<1>5. QED
  BY <1>3, <1>4

\* While no element is taken away or moved, none comes earlier in the listing.
LEMMA RankGrows ==
    ASSUME NEW T \in Tables, NEW U \in Tables,
           {ListKey(e) : e \in T} \subseteq {ListKey(e) : e \in U}
    PROVE  /\ IdsOf(T) \subseteq IdsOf(U)
           /\ \A e \in T, f \in U : e.id = f.id => ListKey(e) = ListKey(f)
           /\ \A k : Rank(k, T) <= Rank(k, U)
           /\ \A k : Rank(k, T) \in Nat
<1>1. /\ T \subseteq Elements /\ IsFiniteSet(T) /\ U \subseteq Elements /\ IsFiniteSet(U)
      /\ \A e, f \in U : e.id = f.id => e = f
      /\ \A e, f \in T : e.id = f.id => e = f
  BY TableFacts
<1>2. \A e \in T : \E f \in U : ListKey(f) = ListKey(e)
  OBVIOUS
<1>3. \A e \in T, f \in U : ListKey(f) = ListKey(e) => f.id = e.id
  BY <1>1, ListKeyOrder
<1>4. IdsOf(T) \subseteq IdsOf(U) /\ \A e \in T, f \in U : e.id = f.id => ListKey(e) = ListKey(f)
  BY <1>1, <1>2, <1>3 DEF IdsOf
<1>5. ASSUME NEW k
      PROVE  Rank(k, T) <= Rank(k, U) /\ Rank(k, T) \in Nat
  <2> DEFINE g == [e \in Before(k, T) |-> CHOOSE f \in U : ListKey(f) = ListKey(e)]
  <2>1. Before(k, T) \subseteq T /\ Before(k, U) \subseteq U
    BY DEF Before
  <2>2. \A e \in Before(k, T) : g[e] \in U /\ ListKey(g[e]) = ListKey(e)
    BY <1>2, <2>1
  <2>3. \A e \in Before(k, T) : g[e] \in Before(k, U) /\ g[e].id = e.id
    BY <1>3, <2>1, <2>2 DEF Before
  <2>4. g \in [Before(k, T) -> Before(k, U)] /\ \A x, y \in Before(k, T) : g[x] = g[y] => x = y
    BY <1>1, <2>1, <2>3
  <2>5. IsFiniteSet(Before(k, U))
    BY <1>1, <2>1, FS_Subset
  <2> HIDE DEF g
  <2>6. QED
    BY <2>4, <2>5, Injects DEF Rank
<1>6. QED
  BY <1>4, <1>5
-----------------------------------------------------------------------------
(* The order of the search                                                  *)

\* A nonempty set of numbers has a least one.
LEMMA MinOfNats ==
    ASSUME NEW S \in SUBSET Nat, S # {}
    PROVE  Min(S) \in S /\ \A y \in S : Min(S) <= y
<1> DEFINE Lt(x, y) == x < y
           R == OpToRel(Lt, Nat)
<1>1. \A x, y \in Nat : <<x, y>> \in R <=> x < y
  BY Zenon DEF OpToRel
<1>2. IsWellFoundedOn(R, Nat)
  BY <1>1, NatLessThanWellFounded, Zenon
<1>3. PICK j \in S : \A k \in S : ~(<<k, j>> \in R)
  <2> HIDE DEF R
  <2>1. QED
    BY <1>2, WFMin
<1>4. \A k \in S : ~(k < j)
  BY <1>1, <1>3
<1>5. \E x \in S : \A y \in S : x <= y
  BY <1>4
<1>6. QED
  BY <1>5 DEF Min

\* The keys of the search: a rank, two texts and a definition.
Quads == Nat \X Nat \X Nat \X Nat

\* rank, the two texts and the definition are a strict total order of keys.
LEMMA QuadOrder ==
    ASSUME NEW k \in Quads, NEW l \in Quads, NEW m \in Quads
    PROVE  /\ ~Less(k, k)
           /\ Less(k, l) \/ Less(l, k) \/ k = l
           /\ Less(k, l) /\ Less(l, m) => Less(k, m)
           /\ k[1] < l[1] => Less(k, l)
<1>1. PICK a, b, c, d \in Nat : k = <<a, b, c, d>>
  BY DEF Quads
<1>2. PICK x, y, z, w \in Nat : l = <<x, y, z, w>>
  BY DEF Quads
<1>3. PICK p, q, r, s \in Nat : m = <<p, q, r, s>>
  BY DEF Quads
<1>4. ~Less(k, k)
  BY <1>1, LessFour
<1>5. Less(k, l) \/ Less(l, k) \/ k = l
  BY <1>1, <1>2, LessFour
<1>6. Less(k, l) /\ Less(l, m) => Less(k, m)
  <2>1. Less(k, l) <=> \/ a < x \/ (a = x /\ b < y) \/ (a = x /\ b = y /\ c < z)
                       \/ (a = x /\ b = y /\ c = z /\ d < w)
    BY <1>1, <1>2, LessFour
  <2>2. Less(l, m) <=> \/ x < p \/ (x = p /\ y < q) \/ (x = p /\ y = q /\ z < r)
                       \/ (x = p /\ y = q /\ z = r /\ w < s)
    BY <1>2, <1>3, LessFour
  <2>3. Less(k, m) <=> \/ a < p \/ (a = p /\ b < q) \/ (a = p /\ b = q /\ c < r)
                       \/ (a = p /\ b = q /\ c = r /\ d < s)
    BY <1>1, <1>3, LessFour
  <2>4. QED
    BY <2>1, <2>2, <2>3
<1>7. k[1] < l[1] => Less(k, l)
  BY <1>1, <1>2, LessFour
<1>8. QED
  BY <1>4, <1>5, <1>6, <1>7

\* Two orders of the same rows: the row at a place of one is not less than the row at
\* that place of the other.
LEMMA NotLess ==
    ASSUME NEW S, IsFiniteSet(S), \A r \in S : SearchKey(r) \in Quads,
           NEW s \in Sorted(S, SearchKey), NEW t \in Sorted(S, SearchKey), NEW i \in DOMAIN s
    PROVE  ~Less(SearchKey(s[i]), SearchKey(t[i]))
<1> DEFINE n == Cardinality(S)
           D == {r \in S : ~Less(SearchKey(s[i]), SearchKey(r))}
<1>1. n \in Nat
  BY FS_CardinalityType
<1>2. /\ s \in SetToSeqs(S) /\ \A j, k \in DOMAIN s : j < k => ~Less(SearchKey(s[k]), SearchKey(s[j]))
      /\ t \in SetToSeqs(S) /\ \A j, k \in DOMAIN t : j < k => ~Less(SearchKey(t[k]), SearchKey(t[j]))
  BY DEF Sorted
<1>3. /\ s \in Seq(S) /\ DOMAIN s = 1..n /\ \A j, k \in DOMAIN s : s[j] = s[k] => j = k
      /\ t \in Seq(S) /\ DOMAIN t = 1..n /\ \A r \in S : \E j \in DOMAIN t : t[j] = r
  BY <1>2, SetToSeqsFacts
<1>4. i \in 1..n /\ \A j \in 1..n : s[j] \in S /\ t[j] \in S
  BY <1>2, <1>3 DEF SetToSeqs
<1>5. SUFFICES ASSUME Less(SearchKey(s[i]), SearchKey(t[i])) PROVE FALSE
  OBVIOUS
<1>6. IsFiniteSet(D)
  BY FS_Subset
<1>7. i <= Cardinality(D)
  <2> DEFINE g == [j \in 1..i |-> s[j]]
  <2>1. \A j \in 1..i : s[j] \in D
    <3>1. SUFFICES ASSUME NEW j \in 1..i PROVE ~Less(SearchKey(s[i]), SearchKey(s[j]))
      BY <1>1, <1>4
    <3>2. j \in DOMAIN s /\ i \in DOMAIN s
      BY <1>1, <1>3, <1>4
    <3>3. CASE j = i
      BY <1>4, <3>3, QuadOrder
    <3>4. CASE j # i
      <4>1. j < i
        BY <1>1, <1>4, <3>4
      <4>2. QED
        BY <1>2, <3>2, <4>1
    <3>5. QED
      BY <3>3, <3>4
  <2>2. g \in [1..i -> D] /\ \A x, y \in 1..i : g[x] = g[y] => x = y
    <3>1. 1..i \subseteq DOMAIN s
      BY <1>1, <1>3, <1>4
    <3>2. QED
      BY <1>3, <2>1, <3>1
  <2>3. Cardinality(1..i) = i
    BY <1>1, <1>4, FS_Interval
  <2> HIDE DEF g, D
  <2>4. Cardinality(1..i) <= Cardinality(D)
    BY <1>6, <2>2, Injects
  <2>5. QED
    BY <2>3, <2>4
<1>8. Cardinality(D) <= i - 1
  <2> DEFINE g == [r \in D |-> CHOOSE j \in 1..n : t[j] = r]
  <2>1. PICK m \in Nat : m = i - 1
    BY <1>1, <1>4
  <2>2. \A r \in D : g[r] \in 1..n /\ t[g[r]] = r
    BY <1>3
  <2>3. \A r \in D : g[r] \in 1..m
    <3>1. SUFFICES ASSUME NEW j \in 1..n, t[j] \in D, j >= i PROVE FALSE
      BY <1>1, <1>4, <2>1, <2>2
    <3>2. SearchKey(s[i]) \in Quads /\ SearchKey(t[i]) \in Quads /\ SearchKey(t[j]) \in Quads
      BY <1>4
    <3>3. ~Less(SearchKey(s[i]), SearchKey(t[j]))
      BY <3>1
    <3>4. j # i
      BY <1>5, <3>3
    <3>5. ~Less(SearchKey(t[j]), SearchKey(t[i]))
      <4>1. i < j /\ i \in DOMAIN t /\ j \in DOMAIN t
        BY <1>1, <1>3, <1>4, <3>1, <3>4
      <4>2. QED
        BY <1>2, <4>1
    <3>6. Less(SearchKey(t[j]), SearchKey(s[i])) \/ SearchKey(t[j]) = SearchKey(s[i])
      BY <3>2, <3>3, QuadOrder
    <3>7. QED
      BY <1>5, <3>2, <3>5, <3>6, QuadOrder
  <2>4. g \in [D -> 1..m] /\ \A x, y \in D : g[x] = g[y] => x = y
    BY <2>2, <2>3
  <2>5. IsFiniteSet(1..m) /\ Cardinality(1..m) = m
    <3>1. IsFiniteSet(1..m) /\ Cardinality(1..m) = IF 1 > m THEN 0 ELSE m - 1 + 1
      BY FS_Interval
    <3>2. QED
      BY <3>1
  <2> HIDE DEF g, D
  <2>6. Cardinality(D) <= Cardinality(1..m)
    BY <2>4, <2>5, Injects
  <2>7. QED
    BY <2>1, <2>5, <2>6
<1>9. Cardinality(D) \in Nat
  BY <1>6, FS_CardinalityType
<1>10. QED
  BY <1>1, <1>4, <1>7, <1>8, <1>9

\* Whatever order ORDER BY returns, the keys come in the same order: two pages read one
\* after the other differ in rows with equal keys only (glossary_element.py:76-88).
LEMMA SameKeys ==
    ASSUME NEW S, IsFiniteSet(S), \A r \in S : SearchKey(r) \in Quads,
           NEW s \in Sorted(S, SearchKey), NEW t \in Sorted(S, SearchKey), NEW i \in DOMAIN s
    PROVE  SearchKey(s[i]) = SearchKey(t[i])
<1>1. s \in SetToSeqs(S) /\ t \in SetToSeqs(S)
  BY DEF Sorted
<1>2. i \in DOMAIN t /\ s[i] \in S /\ t[i] \in S
  BY <1>1, SetToSeqsFacts
<1>3. ~Less(SearchKey(s[i]), SearchKey(t[i])) /\ ~Less(SearchKey(t[i]), SearchKey(s[i]))
  BY <1>2, NotLess
<1>4. QED
  BY <1>2, <1>3, QuadOrder
-----------------------------------------------------------------------------
(* What the search finds                                                    *)

\* A synonym reaches a stage exactly if it holds the query or fits it
\* (glossary_element.py:27-52).
LEMMA StagesFacts ==
    ASSUME NEW p \in Part
    PROVE  /\ Stages(p) \subseteq 1..4
           /\ Stages(p) # {} <=> p.how # "apart" \/ p.fits
<1>1. Stages(p) \subseteq 1..4
  BY DEF Stages
<1>2. \A k \in Stages(p) : p.how # "apart" \/ p.fits
  BY DEF Stages
<1>3. p.how # "apart" => 4 \in Stages(p)
  BY DEF Stages
<1>4. p.fits => 2 \in Stages(p)
  BY DEF Stages
<1>5. QED
  BY <1>1, <1>2, <1>3, <1>4

\* The best stage of a text is one of a synonym of it, or 5.
LEMMA BestFacts ==
    ASSUME NEW x \in Text
    PROVE  /\ Best(x) \in 1..5
           /\ \A p \in x.parts : \A k \in Stages(p) : Best(x) <= k
           /\ Best(x) = 5 \/ \E p \in x.parts : Best(x) \in Stages(p)
<1> DEFINE U == UNION {Stages(p) : p \in x.parts}
           S == {5} \cup U
<1>1. \A p \in x.parts : Stages(p) \subseteq 1..4
  BY StagesFacts DEF Text
<1>2. /\ S \subseteq 1..5 /\ 5 \in S
      /\ \A p \in x.parts : Stages(p) \subseteq S
      /\ \A k \in S : k = 5 \/ \E p \in x.parts : k \in Stages(p)
  <2>1. /\ 5 \in S
        /\ \A p \in x.parts : Stages(p) \subseteq S
        /\ \A k \in S : k = 5 \/ \E p \in x.parts : k \in Stages(p)
    <3>1. \A k : k \in U <=> \E p \in x.parts : k \in Stages(p)
      OBVIOUS
    <3> HIDE DEF U
    <3>2. \A k : k \in S <=> k \in U \/ k = 5
      OBVIOUS
    <3> HIDE DEF S
    <3>3. QED
      BY <3>1, <3>2
  <2>2. S \subseteq 1..5
    <3> HIDE DEF S
    <3>1. \A k \in S : k \in 1..5
      BY <1>1, <2>1
    <3>2. QED
      BY <3>1
  <2>3. QED
    BY <2>1, <2>2
<1>3. Best(x) = Min(S)
  BY DEF Best
<1> HIDE DEF S
<1>4. Min(S) \in S /\ \A y \in S : Min(S) <= y
  BY <1>2, MinOfNats
<1>5. QED
  BY <1>2, <1>3, <1>4

\* The rows of ge_splitted and their levels: a pair of synonyms of one element
\* (glossary_element.py:27-57).
LEMMA RowFacts ==
    ASSUME NEW T \in Tables, NEW q \in Rows(T)
    PROVE  /\ q.element \in T
           /\ q.abbreviation \in q.element.says.abbreviation.parts
           /\ q.term \in q.element.says.term.parts
           /\ Levels(q) \subseteq 1..8
           /\ \A l \in Levels(q) : \/ \E k \in Stages(q.abbreviation) : l = 2 * k - 1
                                   \/ \E k \in Stages(q.term) : l = 2 * k
           /\ \A k \in Stages(q.abbreviation) : 2 * k - 1 \in Levels(q)
           /\ \A k \in Stages(q.term) : 2 * k \in Levels(q)
<1>1. PICK e \in T : q \in [element : {e}, abbreviation : e.says.abbreviation.parts,
                                           term : e.says.term.parts]
  BY DEF Rows
<1>2. q.element = e /\ q.abbreviation \in e.says.abbreviation.parts /\ q.term \in e.says.term.parts
  BY <1>1
<1>3. q.abbreviation \in Part /\ q.term \in Part
  BY <1>2, TableFacts, ElementFacts
<1>4. Stages(q.abbreviation) \subseteq 1..4 /\ Stages(q.term) \subseteq 1..4
  BY <1>3, StagesFacts
<1>5. Levels(q) \subseteq 1..8
  BY <1>4 DEF Levels
<1>6. /\ \A l \in Levels(q) : \/ \E k \in Stages(q.abbreviation) : l = 2 * k - 1
                              \/ \E k \in Stages(q.term) : l = 2 * k
      /\ \A k \in Stages(q.abbreviation) : 2 * k - 1 \in Levels(q)
      /\ \A k \in Stages(q.term) : 2 * k \in Levels(q)
  BY DEF Levels
<1>7. QED
  BY <1>2, <1>5, <1>6

\* Every pair of synonyms of an element is a row.
LEMMA RowExists ==
    ASSUME NEW T, NEW e \in T,
           NEW p \in e.says.abbreviation.parts, NEW t \in e.says.term.parts
    PROVE  \E q \in Rows(T) : q.element = e /\ q.abbreviation = p /\ q.term = t
<1> DEFINE q == [element |-> e, abbreviation |-> p, term |-> t]
<1>1. q \in [element : {e}, abbreviation : e.says.abbreviation.parts, term : e.says.term.parts]
  OBVIOUS
<1>2. q \in Rows(T)
  BY <1>1 DEF Rows
<1>3. QED
  BY <1>2

\* The rank of an element is that of its best synonym: abbreviations at stage k have
\* rank 2k - 1, terms 2k (glossary_element.py:27-70).
LEMMA RankOfFound ==
    ASSUME NEW T \in Tables, NEW r \in Found(T)
    PROVE  LET A == Best(r.element.says.abbreviation)
               B == Best(r.element.says.term)
           IN /\ r = [element |-> r.element, rank |-> r.rank]
              /\ r.element \in T /\ r.rank \in 1..8
              /\ r.rank <= 2 * A - 1 /\ r.rank <= 2 * B
              /\ r.rank \in {2 * A - 1, 2 * B}
<1> DEFINE Own(e) == {q \in Matching(T) : q.element = e}
           M(e) == {Min(Levels(q)) : q \in Own(e)}
<1>1. PICK row \in Matching(T) : r = [element |-> row.element, rank |-> Min(M(row.element))]
  BY DEF Found
<1> DEFINE e == row.element
           A == Best(e.says.abbreviation)
           B == Best(e.says.term)
<1>2. r.element = e /\ r.rank = Min(M(e)) /\ r = [element |-> r.element, rank |-> r.rank]
  BY <1>1
<1>3. row \in Rows(T) /\ e \in T /\ e \in Elements
  BY RowFacts, TableFacts DEF Matching
<1>4. /\ A \in 1..5 /\ B \in 1..5
      /\ \A p \in e.says.abbreviation.parts : \A k \in Stages(p) : A <= k
      /\ \A p \in e.says.term.parts : \A k \in Stages(p) : B <= k
      /\ A = 5 \/ \E p \in e.says.abbreviation.parts : A \in Stages(p)
      /\ B = 5 \/ \E p \in e.says.term.parts : B \in Stages(p)
  BY <1>3, ElementFacts, BestFacts
<1>5. \A q \in Own(e) : q \in Rows(T) /\ q.element = e /\ Levels(q) # {}
  BY DEF Matching
<1>6. \A q \in Own(e) : /\ Min(Levels(q)) \in Levels(q) /\ Min(Levels(q)) \in 1..8
                        /\ \A l \in Levels(q) : Min(Levels(q)) <= l
  <2>1. SUFFICES ASSUME NEW q \in Own(e)
                 PROVE  /\ Min(Levels(q)) \in Levels(q) /\ Min(Levels(q)) \in 1..8
                        /\ \A l \in Levels(q) : Min(Levels(q)) <= l
    OBVIOUS
  <2>2. Levels(q) \subseteq 1..8 /\ Levels(q) # {}
    BY <1>5, RowFacts
  <2>3. Levels(q) \in SUBSET Nat
    BY <2>2
  <2>4. Min(Levels(q)) \in Levels(q) /\ \A l \in Levels(q) : Min(Levels(q)) <= l
    BY <2>2, <2>3, MinOfNats
  <2>5. QED
    BY <2>2, <2>4
<1>7. Min(M(e)) \in M(e) /\ \A m \in M(e) : Min(M(e)) <= m
  <2>1. M(e) \in SUBSET Nat
    BY <1>6
  <2>2. M(e) # {}
    OBVIOUS
  <2>3. QED
    BY <2>1, <2>2, MinOfNats
<1>8. PICK best \in Own(e) : r.rank = Min(Levels(best))
  BY <1>2, <1>7
<1>9. r.rank \in 1..8 /\ r.rank \in Levels(best)
  BY <1>6, <1>8
<1>10. \/ \E k \in Nat : A <= k /\ r.rank = 2 * k - 1
       \/ \E k \in Nat : B <= k /\ r.rank = 2 * k
  <2>1. /\ best \in Rows(T) /\ best.element = e
        /\ best.abbreviation \in e.says.abbreviation.parts /\ best.term \in e.says.term.parts
    BY <1>5, RowFacts
  <2>2. best.abbreviation \in Part /\ best.term \in Part
    BY <1>3, <2>1, ElementFacts
  <2>3. Stages(best.abbreviation) \subseteq Nat /\ Stages(best.term) \subseteq Nat
    BY <2>2, StagesFacts
  <2>4. \/ \E k \in Stages(best.abbreviation) : r.rank = 2 * k - 1
        \/ \E k \in Stages(best.term) : r.rank = 2 * k
    BY <1>9, <2>1, RowFacts
  <2>5. QED
    BY <1>4, <2>1, <2>3, <2>4
<1>11. ASSUME NEW p \in e.says.abbreviation.parts, NEW t \in e.says.term.parts
       PROVE  /\ \A k \in Stages(p) : r.rank <= 2 * k - 1
              /\ \A k \in Stages(t) : r.rank <= 2 * k
  <2>1. PICK q \in Rows(T) : q.element = e /\ q.abbreviation = p /\ q.term = t
    BY <1>3, RowExists
  <2>2. /\ \A k \in Stages(p) : 2 * k - 1 \in Levels(q)
        /\ \A k \in Stages(t) : 2 * k \in Levels(q)
    BY <2>1, RowFacts
  <2>3. ASSUME NEW l \in Levels(q) PROVE r.rank <= l
    <3>1. q \in Own(e)
      BY <2>1 DEF Matching
    <3>2. Min(Levels(q)) <= l /\ Min(Levels(q)) \in 1..8
      BY <1>6, <3>1
    <3>3. r.rank <= Min(Levels(q))
      BY <1>2, <1>7, <3>1
    <3>4. l \in 1..8
      BY <2>1, RowFacts
    <3>5. QED
      BY <1>9, <3>2, <3>3, <3>4
  <2>4. QED
    BY <2>2, <2>3
<1>12. r.rank <= 2 * A - 1
  <2>1. CASE A = 5
    BY <1>9, <2>1
  <2>2. CASE A # 5
    <3>1. PICK p \in e.says.abbreviation.parts : A \in Stages(p)
      BY <1>4, <2>2
    <3>2. PICK t \in e.says.term.parts : TRUE
      BY <1>3, ElementFacts
    <3>3. QED
      BY <1>11, <3>1, <3>2
  <2>3. QED
    BY <2>1, <2>2
<1>13. r.rank <= 2 * B
  <2>1. CASE B = 5
    BY <1>9, <2>1
  <2>2. CASE B # 5
    <3>1. PICK t \in e.says.term.parts : B \in Stages(t)
      BY <1>4, <2>2
    <3>2. PICK p \in e.says.abbreviation.parts : TRUE
      BY <1>3, ElementFacts
    <3>3. QED
      BY <1>11, <3>1, <3>2
  <2>3. QED
    BY <2>1, <2>2
<1>14. r.rank \in {2 * A - 1, 2 * B}
  <2> HIDE DEF A, B
  <2>1. QED
    BY <1>4, <1>9, <1>10, <1>12, <1>13
<1>15. QED
  BY <1>2, <1>3, <1>9, <1>12, <1>13, <1>14
\* The search holds an element once, and no more rows than the table (rn = 1).
LEMMA FoundFacts ==
    ASSUME NEW T \in Tables
    PROVE  /\ IsFiniteSet(Found(T)) /\ TotalCount(T) \in 0..Cardinality(Ids)
           /\ \A r \in Found(T) : r.element \in T /\ r.element \in Elements /\ r.rank \in 1..8
           /\ \A r, q \in Found(T) : r.element.id = q.element.id => r = q
           /\ \A r \in Found(T) : SearchKey(r) \in Quads /\ SearchKey(r)[1] = r.rank
<1>1. \A e, f \in T : e.id = f.id => e = f
  BY TableFacts
<1>2. \A r \in Found(T) : r.element \in T /\ r.element \in Elements /\ r.rank \in 1..8
  BY RankOfFound, TableFacts
<1>3. ASSUME NEW r \in Found(T), NEW q \in Found(T), r.element.id = q.element.id
      PROVE  r = q
  <2> DEFINE A == Best(r.element.says.abbreviation)
             B == Best(r.element.says.term)
  <2>1. r.element = q.element
    BY <1>1, <1>2, <1>3
  <2>2. A \in 1..5 /\ B \in 1..5
    BY <1>2, ElementFacts, BestFacts
  <2>3. /\ r.rank \in 1..8 /\ r.rank <= 2 * A - 1 /\ r.rank <= 2 * B /\ r.rank \in {2 * A - 1, 2 * B}
        /\ r = [element |-> r.element, rank |-> r.rank]
    BY RankOfFound
  <2>4. /\ q.rank \in 1..8 /\ q.rank <= 2 * A - 1 /\ q.rank <= 2 * B /\ q.rank \in {2 * A - 1, 2 * B}
        /\ q = [element |-> q.element, rank |-> q.rank]
    BY <2>1, RankOfFound
  <2> HIDE DEF A, B
  <2>5. r.rank = q.rank
    BY <2>2, <2>3, <2>4
  <2>6. QED
    BY <2>1, <2>3, <2>4, <2>5
<1>4. IsFiniteSet(Found(T)) /\ TotalCount(T) \in 0..Cardinality(Ids)
  <2> DEFINE g == [r \in Found(T) |-> r.element]
  <2>1. g \in [Found(T) -> T] /\ \A x, y \in Found(T) : g[x] = g[y] => x = y
    BY <1>2, <1>3
  <2>2. IsFiniteSet(T) /\ Cardinality(T) \in 0..Cardinality(Ids)
    BY TableFacts
  <2> HIDE DEF g
  <2>3. /\ IsFiniteSet(Found(T)) /\ Cardinality(Found(T)) \in Nat
        /\ Cardinality(Found(T)) <= Cardinality(T)
    BY <2>1, <2>2, Injects
  <2>4. QED
    BY <2>2, <2>3, IdsFinite DEF TotalCount
<1>5. ASSUME NEW r \in Found(T)
      PROVE  SearchKey(r) \in Quads /\ SearchKey(r)[1] = r.rank
  <2> DEFINE c == r.element.says
  <2>1. /\ c.abbreviation.folded \in Nat /\ c.term.folded \in Nat /\ c.definition \in Nat
        /\ r.rank \in Nat
    BY <1>2, ElementFacts
  <2>2. \E a, b \in Nat : SearchKey(r) = <<r.rank, a, b, c.definition>>
    BY <2>1 DEF SearchKey
  <2>3. QED
    BY <2>1, <2>2 DEF Quads
<1>6. QED
  BY <1>2, <1>3, <1>4, <1>5

\* The search finds exactly the elements that have to do with the query.
LEMMA FoundIsRelevant ==
    ASSUME NEW T \in Tables, NEW e \in T
    PROVE  Relevant(e) <=> \E r \in Found(T) : r.element = e
<1> DEFINE Own == {q \in Rows(T) : q.element = e /\ Levels(q) # {}}
<1>1. (\E r \in Found(T) : r.element = e) <=> \E q \in Matching(T) : q.element = e
  <2> DEFINE Rk(x) == Min({Min(Levels(q)) : q \in {p \in Matching(T) : p.element = x}})
  <2>1. Found(T) = {[element |-> q.element, rank |-> Rk(q.element)] : q \in Matching(T)}
    BY DEF Found
  <2> HIDE DEF Rk
  <2>2. \A q \in Matching(T) : \E r \in Found(T) : r.element = q.element
    <3>1. SUFFICES ASSUME NEW q \in Matching(T) PROVE \E r \in Found(T) : r.element = q.element
      OBVIOUS
    <3> DEFINE r == [element |-> q.element, rank |-> Rk(q.element)]
    <3>2. r \in Found(T)
      BY <2>1
    <3>3. r.element = q.element
      OBVIOUS
    <3>4. QED
      BY <3>2, <3>3
  <2>3. \A r \in Found(T) : \E q \in Matching(T) : r.element = q.element
    BY <2>1
  <2>4. QED
    BY <2>2, <2>3
<1>2. (\E q \in Matching(T) : q.element = e) <=> \E q \in Own : TRUE
  BY DEF Matching
<1>3. /\ e \in Elements /\ e.says.abbreviation.parts # {} /\ e.says.term.parts # {}
      /\ e.says.abbreviation.parts \subseteq Part /\ e.says.term.parts \subseteq Part
  BY TableFacts, ElementFacts
<1>4. ASSUME NEW q \in Own PROVE Relevant(e)
  <2>1. /\ q.abbreviation \in e.says.abbreviation.parts /\ q.term \in e.says.term.parts
        /\ Stages(q.abbreviation) # {} \/ Stages(q.term) # {}
    BY RowFacts
  <2>2. QED
    BY <1>3, <2>1, StagesFacts DEF Relevant
<1>5. ASSUME Relevant(e) PROVE \E q \in Own : TRUE
  <2>1. \E p \in e.says.abbreviation.parts, t \in e.says.term.parts : Stages(p) # {} \/ Stages(t) # {}
    BY <1>3, <1>5, StagesFacts DEF Relevant
  <2>2. PICK p \in e.says.abbreviation.parts, t \in e.says.term.parts : Stages(p) # {} \/ Stages(t) # {}
    BY <2>1
  <2>3. PICK q \in Rows(T) : q.element = e /\ q.abbreviation = p /\ q.term = t
    BY RowExists
  <2>4. Levels(q) # {}
    BY <2>2, <2>3, RowFacts
  <2>5. QED
    BY <2>3, <2>4
<1>6. QED
  BY <1>1, <1>2, <1>4, <1>5
-----------------------------------------------------------------------------
(* Turning a page                                                           *)

\* What is known of a page that is read from n rows.
PageShape(page, n) ==
    /\ page \in Seq(Ids) /\ Len(page) \in Nat /\ DOMAIN page = 1..Len(page)
    /\ \A i \in DOMAIN page : walk.offset + i \in 1..n
    /\ \A j \in 1..n : walk.offset < j /\ (walk.limit = 0 \/ j <= walk.offset + walk.limit) =>
           j - walk.offset \in DOMAIN page
    /\ walk.limit = 0 /\ walk.offset <= n => Len(page) = n - walk.offset
    /\ walk.limit > 0 => Len(page) <= walk.limit
    /\ walk.limit > 0 /\ walk.offset + walk.limit <= n => Len(page) = walk.limit
    /\ walk.limit > 0 /\ walk.offset <= n /\ n < walk.offset + walk.limit =>
           Len(page) = n - walk.offset

\* The fields of a walk are typed.
LEMMA WalkFacts ==
    ASSUME walk \in Walks
    PROVE  /\ walk.op \in {"none", "list", "search"} /\ walk.step \in {"next", "page", "ended"}
           /\ walk.limit \in Limits \cup {0} /\ walk.limit \in Nat /\ walk.offset \in Nat
           /\ walk.seen \in Seq(Ids)
           /\ Len(walk.seen) \in Nat /\ DOMAIN walk.seen = 1..Len(walk.seen)
           /\ walk.total \in 0..Cardinality(Ids) /\ walk.counts \subseteq 0..Cardinality(Ids)
<1>1. /\ walk.op \in {"none", "list", "search"} /\ walk.step \in {"next", "page", "ended"}
      /\ walk.limit \in Limits \cup {0} /\ walk.offset \in Nat /\ walk.seen \in Seq(Ids)
      /\ walk.total \in 0..Cardinality(Ids) /\ walk.counts \subseteq 0..Cardinality(Ids)
  BY DEF Walks
<1>2. Limits \cup {0} \subseteq Nat
  BY ConstantsAssumption
<1>3. walk.limit \in Nat
  BY <1>1, <1>2
<1>4. Len(walk.seen) \in Nat /\ DOMAIN walk.seen = 1..Len(walk.seen)
  BY <1>1
<1>5. QED
  BY <1>1, <1>3, <1>4

\* The client puts the page behind those it has and goes on by one page.
LEMMA TurnFacts ==
    ASSUME walk \in Walks, NEW page \in Seq(Ids), NEW counts \in SUBSET (0..Cardinality(Ids)),
           Turn(page, counts)
    PROVE  /\ walk' \in Walks
           /\ walk'.op = walk.op /\ walk'.limit = walk.limit /\ walk'.total = walk.total
           /\ walk'.step = IF Len(page) < walk.limit \/ walk.limit = 0 THEN "ended" ELSE "next"
           /\ walk'.offset = walk.offset + walk.limit
           /\ walk'.seen = walk.seen \o page
           /\ walk'.counts = walk.counts \cup counts
<1> DEFINE step == IF Len(page) < walk.limit \/ walk.limit = 0 THEN "ended" ELSE "next"
<1>1. walk' = [walk EXCEPT !.step = step,
                           !.offset = walk.offset + walk.limit,
                           !.seen = walk.seen \o page,
                           !.counts = walk.counts \cup counts]
  BY DEF Turn
<1>2. /\ walk.offset + walk.limit \in Nat /\ walk.seen \o page \in Seq(Ids)
      /\ walk.counts \cup counts \in SUBSET (0..Cardinality(Ids))
      /\ step \in {"next", "page", "ended"}
  <2>1. walk.offset \in Nat /\ walk.limit \in Nat /\ walk.seen \in Seq(Ids)
        /\ walk.counts \subseteq 0..Cardinality(Ids)
    BY WalkFacts
  <2>2. walk.seen \o page \in Seq(Ids)
    BY <2>1
  <2>3. walk.counts \cup counts \in SUBSET (0..Cardinality(Ids))
    BY <2>1
  <2>4. walk.offset + walk.limit \in Nat
    BY <2>1
  <2>5. QED
    BY <2>2, <2>3, <2>4
<1> HIDE DEF step
<1>3. /\ walk'.op = walk.op /\ walk'.limit = walk.limit /\ walk'.total = walk.total
      /\ walk'.step = step /\ walk'.offset = walk.offset + walk.limit
      /\ walk'.seen = walk.seen \o page /\ walk'.counts = walk.counts \cup counts
  BY <1>1 DEF Walks
<1>4. walk' \in Walks
  BY <1>1, <1>2 DEF Walks
<1>5. QED
  BY <1>3, <1>4 DEF step

\* The walk after a page: what was seen stays where it was.
LEMMA SeenGrows ==
    ASSUME NEW p \in Seq(Ids), NEW q \in Seq(Ids)
    PROVE  /\ p \o q \in Seq(Ids) /\ Len(p \o q) = Len(p) + Len(q)
           /\ DOMAIN (p \o q) = 1..(Len(p) + Len(q))
           /\ \A i \in DOMAIN (p \o q) : IF i <= Len(p) THEN i \in DOMAIN p /\ (p \o q)[i] = p[i]
                                         ELSE i - Len(p) \in DOMAIN q /\ (p \o q)[i] = q[i - Len(p)]
           /\ ToSet(p \o q) = ToSet(p) \cup ToSet(q)
<1>1. /\ p \o q \in Seq(Ids) /\ Len(p \o q) = Len(p) + Len(q)
      /\ DOMAIN (p \o q) = 1..(Len(p) + Len(q))
      /\ \A i \in 1..(Len(p) + Len(q)) : (p \o q)[i] = IF i <= Len(p) THEN p[i] ELSE q[i - Len(p)]
  OBVIOUS
<1>2. PICK m \in Nat : m = Len(p) /\ DOMAIN p = 1..m
  OBVIOUS
<1>3. PICK n \in Nat : n = Len(q) /\ DOMAIN q = 1..n
  OBVIOUS
<1> DEFINE r == p \o q
<1> HIDE DEF r
<1>4. DOMAIN r = 1..(m + n) /\ \A i \in 1..(m + n) : r[i] = IF i <= m THEN p[i] ELSE q[i - m]
  BY <1>1, <1>2, <1>3 DEF r
<1>5. \A i \in DOMAIN r : IF i <= m THEN i \in DOMAIN p /\ r[i] = p[i]
                          ELSE i - m \in DOMAIN q /\ r[i] = q[i - m]
  <2>1. \A i \in 1..(m + n) : IF i <= m THEN i \in 1..m ELSE i - m \in 1..n
    OBVIOUS
  <2>2. QED
    BY <1>2, <1>3, <1>4, <2>1
<1>6. (\A i \in DOMAIN p : i \in DOMAIN r /\ r[i] = p[i])
      /\ \A i \in DOMAIN q : m + i \in DOMAIN r /\ r[m + i] = q[i]
  <2>1. ASSUME NEW i \in 1..m PROVE i \in 1..(m + n) /\ r[i] = p[i]
    BY <1>4
  <2>2. ASSUME NEW i \in 1..n PROVE m + i \in 1..(m + n) /\ r[m + i] = q[i]
    <3>1. PICK k \in 1..(m + n) : k = m + i /\ ~(k <= m) /\ k - m = i
      OBVIOUS
    <3>2. r[k] = q[k - m]
      BY <1>4, <3>1
    <3>3. QED
      BY <3>1, <3>2
  <2>3. QED
    BY <1>2, <1>3, <1>4, <2>1, <2>2
<1>7. ToSet(r) = ToSet(p) \cup ToSet(q)
  <2>1. \A x \in ToSet(r) : x \in ToSet(p) \cup ToSet(q)
    BY <1>5 DEF ToSet
  <2>2. \A x \in ToSet(p) : x \in ToSet(r)
    BY <1>6 DEF ToSet
  <2>3. \A x \in ToSet(q) : x \in ToSet(r)
    BY <1>6 DEF ToSet
  <2>4. QED
    BY <2>1, <2>2, <2>3
<1>8. QED
  BY <1>1, <1>2, <1>5, <1>7 DEF r

\* A page of the listing.
LEMMA ListPageStep ==
    ASSUME TypeOK, ListPage
    PROVE  \E s \in Sorted(table, ListKey) : \E page \in Seq(Ids) :
              /\ PageShape(page, Cardinality(table))
              /\ \A i \in DOMAIN page : page[i] = s[walk.offset + i].id
              /\ Turn(page, {walk.total})
<1>1. PICK s \in Sorted(table, ListKey) :
         LET rows == Page(s, walk.offset, walk.limit)
         IN Turn([i \in DOMAIN rows |-> rows[i].id], {walk.total})
  BY DEF ListPage
<1> DEFINE rows == Page(s, walk.offset, walk.limit)
           page == [i \in DOMAIN rows |-> rows[i].id]
           n == Cardinality(table)
<1>2. Turn(page, {walk.total})
  BY <1>1
<1>3. walk.offset \in Nat /\ walk.limit \in Nat /\ table \in Tables
  BY WalkFacts DEF TypeOK
<1>4. s \in Seq(table) /\ Len(s) = n /\ DOMAIN s = 1..n /\ table \subseteq Elements
  BY <1>3, ListPosition, TableFacts
<1> HIDE DEF page, n
<1>5. /\ rows \in Seq(table) /\ Len(rows) \in Nat /\ DOMAIN rows = 1..Len(rows)
      /\ \A i \in DOMAIN rows : walk.offset + i \in DOMAIN s /\ rows[i] = s[walk.offset + i]
      /\ \A j \in DOMAIN s : walk.offset < j /\ (walk.limit = 0 \/ j <= walk.offset + walk.limit) =>
             j - walk.offset \in DOMAIN rows
      /\ walk.limit = 0 /\ walk.offset <= Len(s) => Len(rows) = Len(s) - walk.offset
      /\ walk.limit > 0 => Len(rows) <= walk.limit
      /\ walk.limit > 0 /\ walk.offset + walk.limit <= Len(s) => Len(rows) = walk.limit
      /\ walk.limit > 0 /\ walk.offset <= Len(s) /\ Len(s) < walk.offset + walk.limit =>
             Len(rows) = Len(s) - walk.offset
  BY <1>3, <1>4, PageFacts
<1> HIDE DEF rows
<1>6. \A i \in DOMAIN rows : rows[i].id \in Ids
  BY <1>4, <1>5, ElementFacts
<1>7. page \in Seq(Ids) /\ Len(page) = Len(rows) /\ DOMAIN page = DOMAIN rows
      /\ \A i \in DOMAIN page : page[i] = rows[i].id
  BY <1>5, <1>6 DEF page
<1>8. PageShape(page, n) /\ \A i \in DOMAIN page : page[i] = s[walk.offset + i].id
  BY <1>4, <1>5, <1>7 DEF PageShape
<1>9. QED
  BY <1>2, <1>7, <1>8 DEF n

\* A page of the search.
LEMMA SearchStep ==
    ASSUME TypeOK, Search
    PROVE  \E s \in Sorted(Found(table), SearchKey) : \E page \in Seq(Ids) :
              /\ PageShape(page, TotalCount(table))
              /\ \A i \in DOMAIN page : page[i] = s[walk.offset + i].element.id
              /\ \E counts \in SUBSET {TotalCount(table)} : Turn(page, counts)
<1>1. PICK s \in Sorted(Found(table), SearchKey) :
         LET rows == Page(s, walk.offset, walk.limit)
             page == [i \in DOMAIN rows |-> rows[i].element.id]
         IN Turn(page, IF page = << >> THEN {} ELSE {TotalCount(table)})
  BY DEF Search
<1> DEFINE rows == Page(s, walk.offset, walk.limit)
           page == [i \in DOMAIN rows |-> rows[i].element.id]
           n == TotalCount(table)
<1>2. Turn(page, IF page = << >> THEN {} ELSE {n})
  BY <1>1
<1>3. walk.offset \in Nat /\ walk.limit \in Nat /\ table \in Tables
  BY WalkFacts DEF TypeOK
<1>4. /\ s \in Seq(Found(table)) /\ Len(s) = n /\ DOMAIN s = 1..n
      /\ \A r \in Found(table) : r.element \in Elements
  <2>1. s \in SetToSeqs(Found(table)) /\ IsFiniteSet(Found(table))
    BY <1>3, FoundFacts DEF Sorted
  <2>2. QED
    BY <1>3, <2>1, SetToSeqsFacts, FoundFacts DEF TotalCount
<1>5. /\ rows \in Seq(Found(table)) /\ Len(rows) \in Nat /\ DOMAIN rows = 1..Len(rows)
      /\ \A i \in DOMAIN rows : walk.offset + i \in DOMAIN s /\ rows[i] = s[walk.offset + i]
      /\ \A j \in DOMAIN s : walk.offset < j /\ (walk.limit = 0 \/ j <= walk.offset + walk.limit) =>
             j - walk.offset \in DOMAIN rows
      /\ walk.limit = 0 /\ walk.offset <= Len(s) => Len(rows) = Len(s) - walk.offset
      /\ walk.limit > 0 => Len(rows) <= walk.limit
      /\ walk.limit > 0 /\ walk.offset + walk.limit <= Len(s) => Len(rows) = walk.limit
      /\ walk.limit > 0 /\ walk.offset <= Len(s) /\ Len(s) < walk.offset + walk.limit =>
             Len(rows) = Len(s) - walk.offset
  BY <1>3, <1>4, PageFacts
<1> HIDE DEF rows
<1>6. \A i \in DOMAIN rows : rows[i].element.id \in Ids
  BY <1>4, <1>5, ElementFacts
<1>7. page \in Seq(Ids) /\ Len(page) = Len(rows) /\ DOMAIN page = DOMAIN rows
      /\ \A i \in DOMAIN page : page[i] = rows[i].element.id
  BY <1>5, <1>6
<1> HIDE DEF page, n
<1>8. PageShape(page, n) /\ \A i \in DOMAIN page : page[i] = s[walk.offset + i].element.id
  BY <1>4, <1>5, <1>7 DEF PageShape
<1>9. \E counts \in SUBSET {n} : Turn(page, counts)
  BY <1>2
<1>10. QED
  BY <1>7, <1>8, <1>9 DEF n
\* A client that begins has seen nothing.
LEMMA OpenFacts ==
    ASSUME Open
    PROVE  /\ walk' \in Walks /\ walk'.op \in {"list", "search"} /\ walk'.step = "next"
           /\ walk'.op = "list" => walk'.limit > 0
           /\ walk'.offset = 0 /\ walk'.seen = << >> /\ walk'.counts = {}
           /\ start' = IdsOf(table) /\ since' = {} /\ table' = table /\ writes' = writes
<1>1. PICK op \in {"list", "search"}, limit \in Limits :
         /\ op = "list" => limit > 0
         /\ walk' = [NoWalk EXCEPT !.op = op, !.step = "next", !.limit = limit]
  BY DEF Open
<1>2. walk' = [op |-> op, step |-> "next", limit |-> limit, offset |-> 0,
               seen |-> << >>, total |-> 0, counts |-> {}]
  BY <1>1 DEF NoWalk
<1>3. 0 \in 0..Cardinality(Ids)
  BY IdsFinite
<1>4. walk' \in Walks
  BY <1>2, <1>3 DEF Walks
<1>5. /\ walk'.op = op /\ walk'.step = "next" /\ walk'.limit = limit
      /\ walk'.offset = 0 /\ walk'.seen = << >> /\ walk'.counts = {}
  BY <1>2
<1>6. start' = IdsOf(table) /\ since' = {} /\ table' = table /\ writes' = writes
  BY DEF Open
<1>7. walk'.op = "list" => walk'.limit > 0
  BY <1>1, <1>5
<1>8. QED
  BY <1>4, <1>5, <1>6, <1>7

\* The first statement of the listing counts the table.
LEMMA TotalFacts ==
    ASSUME TypeOK, ListTotal
    PROVE  /\ walk' \in Walks /\ walk.op = "list" /\ walk'.op = "list"
           /\ walk.step = "next" /\ walk'.step = "page"
           /\ walk'.total = Cardinality(table) /\ walk'.limit = walk.limit
           /\ walk'.offset = walk.offset /\ walk'.seen = walk.seen /\ walk'.counts = walk.counts
           /\ UNCHANGED <<table, start, since, writes>>
<1>1. walk \in Walks /\ Cardinality(table) \in 0..Cardinality(Ids)
  BY TableFacts DEF TypeOK
<1>2. walk' = [walk EXCEPT !.step = "page", !.total = Cardinality(table)]
  BY DEF ListTotal
<1>3. walk' \in Walks
  BY <1>1, <1>2 DEF Walks
<1>4. QED
  BY <1>1, <1>2, <1>3 DEF ListTotal, Walks

\* Types: no step leaves them.
LEMMA TypesStep ==
    ASSUME TypeOK, [Next]_vars
    PROVE  TypeOK'
<1>1. /\ table \in Tables /\ start \subseteq Ids /\ walk \in Walks
      /\ since \subseteq {"changed", "removed", "inserted"} /\ writes \in 0..MaxWrites
  BY DEF TypeOK
<1>2. CASE Open
  <2>1. IdsOf(table) \subseteq Ids
    BY <1>1, TableFacts, ElementFacts DEF IdsOf
  <2>2. QED
    BY <1>1, <1>2, <2>1, OpenFacts DEF TypeOK
<1>3. CASE Search
  <2>1. PICK s \in Sorted(Found(table), SearchKey), page \in Seq(Ids) :
           \E counts \in SUBSET {TotalCount(table)} : Turn(page, counts)
    BY <1>3, SearchStep
  <2>2. PICK counts \in SUBSET {TotalCount(table)} : Turn(page, counts)
    BY <2>1
  <2>3. counts \in SUBSET (0..Cardinality(Ids))
    BY <1>1, <2>2, FoundFacts
  <2>4. walk' \in Walks
    BY <1>1, <2>2, <2>3, TurnFacts
  <2>5. QED
    BY <1>1, <1>3, <2>4 DEF Search, TypeOK
<1>4. CASE ListTotal
  BY <1>1, <1>4, TotalFacts DEF TypeOK
<1>5. CASE ListPage
  <2>1. PICK s \in Sorted(table, ListKey), page \in Seq(Ids) : Turn(page, {walk.total})
    BY <1>5, ListPageStep
  <2>2. {walk.total} \in SUBSET (0..Cardinality(Ids))
    BY <1>1, WalkFacts
  <2>3. walk' \in Walks
    BY <1>1, <2>1, <2>2, TurnFacts
  <2>4. QED
    BY <1>1, <1>5, <2>3 DEF ListPage, TypeOK
<1>6. CASE Commit
  <2>1. table' \in Tables /\ walk' = walk /\ start' = start
    BY <1>6 DEF Commit
  <2>2. since' \subseteq {"changed", "removed", "inserted"}
    BY <1>1, <1>6 DEF Commit
  <2>3. writes' \in 0..MaxWrites
    BY <1>1, <1>6, ConstantsAssumption DEF Commit
  <2>4. QED
    BY <1>1, <2>1, <2>2, <2>3 DEF TypeOK
<1>7. CASE UNCHANGED vars
  BY <1>1, <1>7 DEF vars, TypeOK
<1>8. QED
  BY <1>2, <1>3, <1>4, <1>5, <1>6, <1>7 DEF Next

\* Types: the first states have them.
LEMMA TypesInit ==
    ASSUME Init
    PROVE  TypeOK
<1>1. IdsOf(table) \subseteq Ids
  BY TableFacts, ElementFacts DEF Init, IdsOf
<1>2. NoWalk \in Walks
  BY IdsFinite DEF NoWalk, Walks
<1>3. QED
  BY <1>1, <1>2, ConstantsAssumption DEF Init, TypeOK

\* The variables of the reads keep their types: a total is never more than there are
\* elements, and a page holds ids of the table (glossary_element.py:67-118).
THEOREM TypeInvariant == Spec => []TypeOK
<1>1. QED
  BY TypesInit, TypesStep, PTL DEF Spec
-----------------------------------------------------------------------------
(* The listing                                                              *)

\* A listing keeps its page size, a search is never between two statements.
LEMMA ShapeStep ==
    ASSUME TypeOK, WalkShape, Next
    PROVE  WalkShape'
<1>1. walk \in Walks /\ table \in Tables
  BY DEF TypeOK
<1>2. CASE Open
  BY <1>2, OpenFacts DEF WalkShape
<1>3. CASE Search
  <2>1. PICK s \in Sorted(Found(table), SearchKey), page \in Seq(Ids) :
           \E counts \in SUBSET {TotalCount(table)} : Turn(page, counts)
    BY <1>3, SearchStep
  <2>2. PICK counts \in SUBSET {TotalCount(table)} : Turn(page, counts)
    BY <2>1
  <2>3. counts \in SUBSET (0..Cardinality(Ids))
    BY <1>1, <2>2, FoundFacts
  <2>4. walk'.op = "search" /\ walk'.step # "page"
    BY <1>1, <1>3, <2>2, <2>3, TurnFacts DEF Search
  <2>5. QED
    BY <2>4 DEF WalkShape
<1>4. CASE ListTotal
  BY <1>4, TotalFacts DEF WalkShape
<1>5. CASE ListPage
  <2>1. PICK s \in Sorted(table, ListKey), page \in Seq(Ids) : Turn(page, {walk.total})
    BY <1>5, ListPageStep
  <2>2. {walk.total} \in SUBSET (0..Cardinality(Ids))
    BY <1>1, WalkFacts
  <2>3. walk'.op = "list" /\ walk'.limit = walk.limit /\ walk.op = "list"
    BY <1>1, <1>5, <2>1, <2>2, TurnFacts DEF ListPage
  <2>4. QED
    BY <2>3 DEF WalkShape
<1>6. CASE Commit
  BY <1>6 DEF Commit, WalkShape
<1>7. QED
  BY <1>2, <1>3, <1>4, <1>5, <1>6 DEF Next

\* What a page of the listing does to the walk: the element at place k of the order is
\* seen exactly if k is on the page, and the walk ends with a page that is not full.
LEMMA ListPageFacts ==
    ASSUME TypeOK, WalkShape, ListPage
    PROVE  \E page \in Seq(Ids) :
             /\ walk'.op = "list" /\ walk.op = "list" /\ walk.step = "page"
             /\ PageShape(page, Cardinality(table)) /\ Turn(page, {walk.total})
             /\ walk'.seen = walk.seen \o page
             /\ walk'.limit = walk.limit /\ walk'.offset = walk.offset + walk.limit
             /\ walk'.step = IF Len(page) < walk.limit THEN "ended" ELSE "next"
             /\ \A i, j \in DOMAIN page : page[i] = page[j] => i = j
             /\ \A i \in DOMAIN page : \E e \in table :
                    e.id = page[i] /\ Rank(ListKey(e), table) = walk.offset + i - 1
             /\ \A e \in table :
                  LET r == Rank(ListKey(e), table) IN
                    /\ r \in Nat /\ r < Cardinality(table)
                    /\ walk.offset <= r /\ r < walk.offset + walk.limit =>
                         r + 1 - walk.offset \in DOMAIN page /\ page[r + 1 - walk.offset] = e.id
<1>1. PICK s \in Sorted(table, ListKey) : \E page \in Seq(Ids) :
              /\ PageShape(page, Cardinality(table))
              /\ \A i \in DOMAIN page : page[i] = s[walk.offset + i].id
              /\ Turn(page, {walk.total})
  BY ListPageStep
<1>2. PICK page \in Seq(Ids) :
              /\ PageShape(page, Cardinality(table))
              /\ \A i \in DOMAIN page : page[i] = s[walk.offset + i].id
              /\ Turn(page, {walk.total})
  BY <1>1
<1>3. walk \in Walks /\ table \in Tables /\ walk.offset \in Nat /\ walk.limit \in Nat
  BY WalkFacts DEF TypeOK
<1>4. walk.op = "list" /\ walk.step = "page" /\ walk.limit > 0
  BY DEF ListPage, WalkShape
<1>5. {walk.total} \in SUBSET (0..Cardinality(Ids))
  BY <1>3, WalkFacts
<1>6. /\ walk'.op = "list" /\ walk'.seen = walk.seen \o page
      /\ walk'.limit = walk.limit /\ walk'.offset = walk.offset + walk.limit
      /\ walk'.step = IF Len(page) < walk.limit THEN "ended" ELSE "next"
  BY <1>2, <1>3, <1>4, <1>5, TurnFacts
<1> DEFINE n == Cardinality(table)
           R(e) == Rank(ListKey(e), table)
<1>7. /\ n \in Nat /\ DOMAIN s = 1..n
      /\ \A i \in 1..n : s[i] \in table /\ R(s[i]) = i - 1
      /\ \A i, j \in 1..n : s[i] = s[j] => i = j
      /\ \A e \in table : \E i \in 1..n : s[i] = e
      /\ \A e, f \in table : e.id = f.id => e = f
  <2>1. n \in Nat /\ \A e, f \in table : e.id = f.id => e = f
    BY <1>3, TableFacts, IdsFinite
  <2>2. /\ s \in Seq(table) /\ DOMAIN s = 1..n
        /\ \A i, j \in DOMAIN s : s[i] = s[j] => i = j
        /\ \A e \in table : \E i \in DOMAIN s : s[i] = e
        /\ \A i \in DOMAIN s : R(s[i]) = i - 1
    BY <1>3, ListPosition
  <2>3. \A i \in DOMAIN s : s[i] \in table
    BY <1>3, ListPosition
  <2>4. QED
    BY <2>1, <2>2, <2>3
<1>8. /\ \A i \in DOMAIN page : walk.offset + i \in 1..n /\ i \in Nat
      /\ \A j \in 1..n : walk.offset < j /\ j <= walk.offset + walk.limit => j - walk.offset \in DOMAIN page
  BY <1>2 DEF PageShape
<1> HIDE DEF n, R
<1>9. \A i, j \in DOMAIN page : page[i] = page[j] => i = j
  <2>1. SUFFICES ASSUME NEW i \in DOMAIN page, NEW j \in DOMAIN page, page[i] = page[j]
                 PROVE  i = j
    OBVIOUS
  <2>2. s[walk.offset + i].id = s[walk.offset + j].id
    BY <1>2, <2>1
  <2>3. walk.offset + i = walk.offset + j
    BY <1>7, <1>8, <2>2
  <2>4. QED
    BY <1>3, <1>8, <2>3
<1>10. \A i \in DOMAIN page : \E e \in table : e.id = page[i] /\ R(e) = walk.offset + i - 1
  <2>1. SUFFICES ASSUME NEW i \in DOMAIN page
                 PROVE  \E e \in table : e.id = page[i] /\ R(e) = walk.offset + i - 1
    OBVIOUS
  <2>2. s[walk.offset + i] \in table /\ R(s[walk.offset + i]) = walk.offset + i - 1
    <3>1. PICK k \in 1..n : k = walk.offset + i
      BY <1>8
    <3>2. s[k] \in table /\ R(s[k]) = k - 1
      BY <1>7
    <3>3. QED
      BY <1>3, <1>7, <1>8, <3>1, <3>2
  <2>3. page[i] = s[walk.offset + i].id
    BY <1>2
  <2>4. QED
    BY <2>2, <2>3
<1>11. ASSUME NEW e \in table
       PROVE  /\ R(e) \in Nat /\ R(e) < n
              /\ walk.offset <= R(e) /\ R(e) < walk.offset + walk.limit =>
                   R(e) + 1 - walk.offset \in DOMAIN page /\ page[R(e) + 1 - walk.offset] = e.id
  <2>1. PICK i \in 1..n : s[i] = e
    BY <1>7
  <2>2. R(e) = i - 1 /\ i \in Nat /\ 1 <= i /\ i <= n
    BY <1>7, <2>1
  <2>3. R(e) \in Nat /\ R(e) < n
    BY <1>7, <2>2
  <2>4. ASSUME walk.offset <= R(e), R(e) < walk.offset + walk.limit
        PROVE  R(e) + 1 - walk.offset \in DOMAIN page /\ page[R(e) + 1 - walk.offset] = e.id
    <3>1. walk.offset < i /\ i <= walk.offset + walk.limit
          /\ R(e) + 1 - walk.offset = i - walk.offset /\ walk.offset + (i - walk.offset) = i
      BY <1>3, <2>2, <2>4
    <3>2. i - walk.offset \in DOMAIN page
      BY <1>8, <3>1
    <3>3. page[i - walk.offset] = s[i].id
      BY <1>2, <3>1, <3>2
    <3>4. QED
      BY <2>1, <3>1, <3>2, <3>3
  <2>5. QED
    BY <2>3, <2>4
<1>12. QED
  BY <1>2, <1>4, <1>6, <1>9, <1>10, <1>11 DEF n, R
\* No commit of a walk may take away or move an element: then the listing still has
\* before it what it has not shown (glossary_element.py:118).
LEMMA MissedStep ==
    ASSUME TypeOK, WalkShape, NothingMissed, Next
    PROVE  NothingMissed'
<1>1. walk \in Walks /\ table \in Tables /\ walk.offset \in Nat /\ walk.limit \in Nat
      /\ walk.seen \in Seq(Ids)
  BY WalkFacts DEF TypeOK
<1>2. SUFFICES ASSUME walk'.op = "list", "removed" \notin since'
               PROVE  /\ start' \subseteq IdsOf(table')
                      /\ \A e \in table' : e.id \in start' =>
                           \/ e.id \in ToSet(walk'.seen)
                           \/ walk'.step # "ended" /\ walk'.offset <= Rank(ListKey(e), table')
  BY DEF NothingMissed
<1>3. \A k : Rank(k, table) \in Nat
  BY <1>1, RankGrows
<1>4. CASE Open
  <2>1. walk'.offset = 0 /\ walk'.step = "next" /\ start' = IdsOf(table) /\ table' = table
    BY <1>4, OpenFacts
  <2>2. \A k : 0 <= Rank(k, table)
    BY <1>3
  <2>3. QED
    BY <2>1, <2>2
<1>5. CASE Search
  <2>1. PICK s \in Sorted(Found(table), SearchKey), page \in Seq(Ids) :
           \E counts \in SUBSET {TotalCount(table)} : Turn(page, counts)
    BY <1>5, SearchStep
  <2>2. PICK counts \in SUBSET {TotalCount(table)} : Turn(page, counts)
    BY <2>1
  <2>3. counts \in SUBSET (0..Cardinality(Ids))
    BY <1>1, <2>2, FoundFacts
  <2>4. walk'.op = "search"
    BY <1>1, <1>5, <2>2, <2>3, TurnFacts DEF Search
  <2>5. QED
    BY <1>2, <2>4
<1>6. CASE ListTotal
  BY <1>2, <1>6, TotalFacts DEF NothingMissed
<1>7. CASE ListPage
  <2>1. PICK page \in Seq(Ids) :
             /\ walk'.op = "list" /\ walk.op = "list" /\ walk.step = "page"
             /\ PageShape(page, Cardinality(table)) /\ Turn(page, {walk.total})
             /\ walk'.seen = walk.seen \o page
             /\ walk'.limit = walk.limit /\ walk'.offset = walk.offset + walk.limit
             /\ walk'.step = IF Len(page) < walk.limit THEN "ended" ELSE "next"
             /\ \A e \in table :
                  LET r == Rank(ListKey(e), table) IN
                    /\ r \in Nat /\ r < Cardinality(table)
                    /\ walk.offset <= r /\ r < walk.offset + walk.limit =>
                         r + 1 - walk.offset \in DOMAIN page /\ page[r + 1 - walk.offset] = e.id
    BY <1>7, ListPageFacts
  <2>2. table' = table /\ start' = start /\ since' = since /\ walk.limit > 0
    BY <1>7, <2>1 DEF ListPage, WalkShape
  <2>3. /\ start \subseteq IdsOf(table)
        /\ \A e \in table : e.id \in start =>
             \/ e.id \in ToSet(walk.seen)
             \/ walk.step # "ended" /\ walk.offset <= Rank(ListKey(e), table)
    BY <1>2, <2>1, <2>2 DEF NothingMissed
  <2>4. ToSet(walk'.seen) = ToSet(walk.seen) \cup ToSet(page)
    BY <1>1, <2>1, SeenGrows
  <2>5. ASSUME NEW e \in table, e.id \in start
        PROVE  \/ e.id \in ToSet(walk'.seen)
               \/ walk'.step # "ended" /\ walk'.offset <= Rank(ListKey(e), table)
    <3> DEFINE r == Rank(ListKey(e), table)
    <3>1. CASE e.id \in ToSet(walk.seen)
      BY <2>4, <3>1
    <3>2. CASE walk.offset <= r /\ r < walk.offset + walk.limit
      <4>1. r + 1 - walk.offset \in DOMAIN page /\ page[r + 1 - walk.offset] = e.id
        BY <2>1, <3>2
      <4>2. e.id \in ToSet(page)
        BY <4>1 DEF ToSet
      <4>3. QED
        BY <2>4, <4>2
    <3>3. CASE r >= walk.offset + walk.limit
      <4>1. r \in Nat /\ r < Cardinality(table) /\ Cardinality(table) \in Nat
        BY <1>1, <2>1, TableFacts, IdsFinite
      <4>2. Len(page) = walk.limit
        BY <1>1, <2>1, <2>2, <3>3, <4>1 DEF PageShape
      <4>3. walk'.step = "next"
        BY <1>1, <2>1, <4>2
      <4>4. QED
        BY <2>1, <3>3, <4>3, <4>1
    <3>4. r \in Nat
      BY <1>3
    <3> HIDE DEF r
    <3>5. QED
      BY <1>1, <2>3, <2>5, <3>1, <3>2, <3>3, <3>4 DEF r
  <2>6. QED
    BY <2>2, <2>3, <2>5
<1>8. CASE Commit
  <2>1. walk' = walk /\ start' = start /\ table' \in Tables
    BY <1>8 DEF Commit
  <2>2. {ListKey(e) : e \in table} \subseteq {ListKey(e) : e \in table'} /\ "removed" \notin since
    BY <1>2, <1>8 DEF Commit
  <2>3. /\ start \subseteq IdsOf(table)
        /\ \A e \in table : e.id \in start =>
             \/ e.id \in ToSet(walk.seen)
             \/ walk.step # "ended" /\ walk.offset <= Rank(ListKey(e), table)
    BY <1>2, <2>1, <2>2 DEF NothingMissed
  <2>4. /\ IdsOf(table) \subseteq IdsOf(table')
        /\ \A e \in table, f \in table' : e.id = f.id => ListKey(e) = ListKey(f)
        /\ \A k : Rank(k, table) <= Rank(k, table')
    BY <1>1, <2>1, <2>2, RankGrows
  <2>5. \A k : Rank(k, table') \in Nat
    BY <2>1, RankGrows
  <2>6. ASSUME NEW f \in table', f.id \in start
        PROVE  \/ f.id \in ToSet(walk.seen)
               \/ walk.step # "ended" /\ walk.offset <= Rank(ListKey(f), table')
    <3>1. PICK e \in table : e.id = f.id
      BY <2>3, <2>6 DEF IdsOf
    <3>2. ListKey(e) = ListKey(f)
      BY <2>4, <3>1
    <3>3. Rank(ListKey(e), table) <= Rank(ListKey(f), table')
      BY <2>4, <3>2
    <3>4. \/ f.id \in ToSet(walk.seen)
          \/ walk.step # "ended" /\ walk.offset <= Rank(ListKey(e), table)
      BY <2>3, <2>6, <3>1
    <3>5. QED
      BY <1>1, <1>3, <2>5, <3>3, <3>4
  <2>7. QED
    BY <2>1, <2>3, <2>4, <2>6
<1>9. QED
  BY <1>4, <1>5, <1>6, <1>7, <1>8 DEF Next

\* No commit of a walk may insert or move an element: then what was shown stays before
\* the next page (glossary_element.py:118).
LEMMA RepeatedStep ==
    ASSUME TypeOK, WalkShape, NothingRepeated, Next
    PROVE  NothingRepeated'
<1>1. walk \in Walks /\ table \in Tables /\ walk.offset \in Nat /\ walk.limit \in Nat
      /\ walk.seen \in Seq(Ids)
  BY WalkFacts DEF TypeOK
<1>2. SUFFICES ASSUME walk'.op = "list", "inserted" \notin since'
               PROVE  /\ \A i, j \in DOMAIN walk'.seen : i # j => walk'.seen[i] # walk'.seen[j]
                      /\ \A e \in table' :
                           e.id \in ToSet(walk'.seen) => Rank(ListKey(e), table') < walk'.offset
  BY DEF NothingRepeated, Repeated
<1>3. \A k : Rank(k, table) \in Nat
  BY <1>1, RankGrows
<1>4. CASE Open
  <2>1. walk'.seen = << >>
    BY <1>4, OpenFacts
  <2>2. DOMAIN walk'.seen = {} /\ ToSet(walk'.seen) = {}
    BY <2>1 DEF ToSet
  <2>3. QED
    BY <2>2
<1>5. CASE Search
  <2>1. PICK s \in Sorted(Found(table), SearchKey), page \in Seq(Ids) :
           \E counts \in SUBSET {TotalCount(table)} : Turn(page, counts)
    BY <1>5, SearchStep
  <2>2. PICK counts \in SUBSET {TotalCount(table)} : Turn(page, counts)
    BY <2>1
  <2>3. counts \in SUBSET (0..Cardinality(Ids))
    BY <1>1, <2>2, FoundFacts
  <2>4. walk'.op = "search"
    BY <1>1, <1>5, <2>2, <2>3, TurnFacts DEF Search
  <2>5. QED
    BY <1>2, <2>4
<1>6. CASE ListTotal
  BY <1>2, <1>6, TotalFacts DEF NothingRepeated, Repeated
<1>7. CASE ListPage
  <2>1. PICK page \in Seq(Ids) :
             /\ walk'.op = "list" /\ walk.op = "list" /\ walk.step = "page"
             /\ PageShape(page, Cardinality(table)) /\ Turn(page, {walk.total})
             /\ walk'.seen = walk.seen \o page
             /\ walk'.limit = walk.limit /\ walk'.offset = walk.offset + walk.limit
             /\ \A i, j \in DOMAIN page : page[i] = page[j] => i = j
             /\ \A i \in DOMAIN page : \E e \in table :
                    e.id = page[i] /\ Rank(ListKey(e), table) = walk.offset + i - 1
    BY <1>7, ListPageFacts
  <2>2. table' = table /\ since' = since /\ walk.limit > 0
    BY <1>7, <2>1 DEF ListPage, WalkShape
  <2>3. /\ \A i, j \in DOMAIN walk.seen : i # j => walk.seen[i] # walk.seen[j]
        /\ \A e \in table : e.id \in ToSet(walk.seen) => Rank(ListKey(e), table) < walk.offset
    BY <1>2, <2>1, <2>2 DEF NothingRepeated, Repeated
  <2>4. \A e, f \in table : e.id = f.id => e = f
    BY <1>1, TableFacts
  <2>5. PICK m \in Nat : m = Len(walk.seen) /\ DOMAIN walk.seen = 1..m
    BY <1>1
  <2>6. /\ \A i \in DOMAIN walk'.seen :
              IF i <= m THEN i \in DOMAIN walk.seen /\ walk'.seen[i] = walk.seen[i]
              ELSE i - m \in DOMAIN page /\ walk'.seen[i] = page[i - m]
        /\ ToSet(walk'.seen) = ToSet(walk.seen) \cup ToSet(page)
        /\ \A i \in DOMAIN walk'.seen : i \in Nat
    BY <1>1, <2>1, <2>5, SeenGrows
  <2>7. \A i \in DOMAIN page : i \in Nat /\ i >= 1 /\ i <= walk.limit
    BY <1>1, <2>1, <2>2 DEF PageShape
  <2>8. \A i \in DOMAIN page : page[i] \notin ToSet(walk.seen)
    <3>1. SUFFICES ASSUME NEW i \in DOMAIN page, page[i] \in ToSet(walk.seen) PROVE FALSE
      OBVIOUS
    <3>2. PICK e \in table : e.id = page[i] /\ Rank(ListKey(e), table) = walk.offset + i - 1
      BY <2>1
    <3>3. Rank(ListKey(e), table) < walk.offset
      BY <2>3, <3>1, <3>2
    <3>4. QED
      BY <1>1, <2>7, <3>2, <3>3
  <2>9. ASSUME NEW i \in DOMAIN walk'.seen, NEW j \in DOMAIN walk'.seen,
               walk'.seen[i] = walk'.seen[j]
        PROVE  i = j
    <3>1. i \in Nat /\ j \in Nat
      BY <2>6
    <3>2. CASE i <= m /\ j <= m
      BY <2>3, <2>6, <2>9, <3>2
    <3>3. CASE ~(i <= m) /\ ~(j <= m)
      <4>1. i - m = j - m
        BY <2>1, <2>6, <2>9, <3>3
      <4>2. QED
        BY <2>5, <3>1, <4>1
    <3>4. CASE i <= m /\ ~(j <= m)
      <4>1. walk.seen[i] \in ToSet(walk.seen) /\ walk'.seen[i] = walk.seen[i]
        BY <2>6, <3>4 DEF ToSet
      <4>2. walk'.seen[j] \notin ToSet(walk.seen)
        BY <2>6, <2>8, <3>4
      <4>3. QED
        BY <2>9, <4>1, <4>2
    <3>5. CASE ~(i <= m) /\ j <= m
      <4>1. walk.seen[j] \in ToSet(walk.seen) /\ walk'.seen[j] = walk.seen[j]
        BY <2>6, <3>5 DEF ToSet
      <4>2. walk'.seen[i] \notin ToSet(walk.seen)
        BY <2>6, <2>8, <3>5
      <4>3. QED
        BY <2>9, <4>1, <4>2
    <3>6. QED
      BY <3>2, <3>3, <3>4, <3>5
  <2>10. ASSUME NEW e \in table, e.id \in ToSet(walk'.seen)
         PROVE  Rank(ListKey(e), table) < walk.offset + walk.limit
    <3>1. CASE e.id \in ToSet(walk.seen)
      BY <1>1, <1>3, <2>3, <3>1
    <3>2. CASE e.id \in ToSet(page)
      <4>1. PICK i \in DOMAIN page : page[i] = e.id
        BY <3>2 DEF ToSet
      <4>2. Rank(ListKey(e), table) = walk.offset + i - 1
        BY <2>1, <2>4, <4>1
      <4>3. QED
        BY <1>1, <2>7, <4>2
    <3>3. QED
      BY <2>6, <2>10, <3>1, <3>2
  <2>11. QED
    BY <2>1, <2>2, <2>9, <2>10
<1>8. CASE Commit
  <2>1. walk' = walk /\ table' \in Tables
    BY <1>8 DEF Commit
  <2>2. {ListKey(e) : e \in table'} \subseteq {ListKey(e) : e \in table} /\ "inserted" \notin since
    BY <1>2, <1>8 DEF Commit
  <2>3. /\ \A i, j \in DOMAIN walk.seen : i # j => walk.seen[i] # walk.seen[j]
        /\ \A e \in table : e.id \in ToSet(walk.seen) => Rank(ListKey(e), table) < walk.offset
    BY <1>2, <2>1, <2>2 DEF NothingRepeated, Repeated
  <2>4. /\ IdsOf(table') \subseteq IdsOf(table)
        /\ \A e \in table', f \in table : e.id = f.id => ListKey(e) = ListKey(f)
        /\ \A k : Rank(k, table') <= Rank(k, table)
        /\ \A k : Rank(k, table') \in Nat
    BY <1>1, <2>1, <2>2, RankGrows
  <2>5. ASSUME NEW f \in table', f.id \in ToSet(walk.seen)
        PROVE  Rank(ListKey(f), table') < walk.offset
    <3>1. PICK e \in table : e.id = f.id
      BY <2>4 DEF IdsOf
    <3>2. ListKey(e) = ListKey(f)
      BY <2>4, <3>1
    <3>3. Rank(ListKey(f), table') <= Rank(ListKey(e), table)
      BY <2>4, <3>2
    <3>4. Rank(ListKey(e), table) < walk.offset
      BY <2>3, <2>5, <3>1
    <3>5. QED
      BY <1>1, <1>3, <2>4, <3>3, <3>4
  <2>6. QED
    BY <2>1, <2>3, <2>5
<1>9. QED
  BY <1>4, <1>5, <1>6, <1>7, <1>8 DEF Next
-----------------------------------------------------------------------------
(* Undisturbed walks                                                        *)

\* A page brings a walk that had shown all the rows up to it to its end, or to the
\* next full page: for the listing and the search alike (glossary_element.py:67, 118).
LEMMA TurnProgress ==
    ASSUME walk \in Walks, NEW m \in 0..Cardinality(Ids), NEW page \in Seq(Ids),
           NEW counts \in SUBSET {m}, PageShape(page, m), Turn(page, counts),
           Progress(m), walk.step # "ended"
    PROVE  Progress(m)'
<1>1. /\ walk.offset \in Nat /\ walk.limit \in Nat /\ walk.seen \in Seq(Ids)
      /\ m \in Nat /\ counts \in SUBSET (0..Cardinality(Ids))
  BY WalkFacts, IdsFinite
<1>2. /\ walk'.step = IF Len(page) < walk.limit \/ walk.limit = 0 THEN "ended" ELSE "next"
      /\ walk'.offset = walk.offset + walk.limit
      /\ walk'.seen = walk.seen \o page
      /\ walk'.counts = walk.counts \cup counts
  BY <1>1, TurnFacts
<1>3. Len(walk.seen) = walk.offset /\ walk.offset <= m /\ walk.counts \subseteq {m}
  BY DEF Progress
<1>4. Len(walk'.seen) = walk.offset + Len(page) /\ Len(page) \in Nat
  BY <1>1, <1>2, <1>3, SeenGrows DEF PageShape
<1>5. /\ walk.limit = 0 => Len(page) = m - walk.offset
      /\ walk.limit > 0 => Len(page) <= walk.limit
      /\ walk.limit > 0 /\ walk.offset + walk.limit <= m => Len(page) = walk.limit
      /\ walk.limit > 0 /\ m < walk.offset + walk.limit => Len(page) = m - walk.offset
  BY <1>3 DEF PageShape
<1>6. PICK l \in Nat : l = Len(page)
  BY <1>4
<1>7. CASE walk'.step = "ended"
  <2>1. l = m - walk.offset
    BY <1>1, <1>2, <1>5, <1>6, <1>7
  <2>2. Len(walk'.seen) = m
    BY <1>1, <1>4, <1>6, <2>1
  <2>3. walk'.counts \subseteq {m}
    BY <1>2, <1>3
  <2>4. m <= m
    BY <1>1
  <2>5. QED
    BY <1>7, <2>2, <2>3, <2>4 DEF Progress
<1>8. CASE walk'.step # "ended"
  <2>1. walk.limit > 0 /\ l = walk.limit
    BY <1>1, <1>2, <1>5, <1>6, <1>8
  <2>2. walk.offset + walk.limit <= m
    BY <1>1, <1>3, <1>5, <1>6, <2>1
  <2>3. Len(walk'.seen) = walk'.offset /\ Len(walk'.seen) <= m
    BY <1>1, <1>2, <1>4, <1>6, <2>1, <2>2
  <2>4. QED
    BY <1>2, <1>3, <1>8, <2>3 DEF Progress
<1>9. QED
  BY <1>7, <1>8

\* The totals of an undisturbed listing are the number of its elements.
LEMMA ListTotalsStep ==
    ASSUME TypeOK, WalkShape, ListTotals, Next
    PROVE  ListTotals'
<1>1. walk \in Walks /\ table \in Tables /\ walk.offset \in Nat /\ walk.limit \in Nat
      /\ Cardinality(table) \in 0..Cardinality(Ids)
  BY WalkFacts, TableFacts DEF TypeOK
<1>2. SUFFICES ASSUME walk'.op = "list", since' = {}
               PROVE  /\ Progress(Cardinality(table))'
                      /\ walk'.step = "page" => walk'.total = Cardinality(table')
  BY DEF ListTotals, Undisturbed
<1>3. CASE Open
  <2>1. /\ walk'.step = "next" /\ walk'.offset = 0 /\ walk'.seen = << >> /\ walk'.counts = {}
        /\ table' = table
    BY <1>3, OpenFacts
  <2>2. Len(walk'.seen) = 0 /\ 0 <= Cardinality(table)
    BY <1>1, <2>1, IdsFinite
  <2>3. QED
    BY <2>1, <2>2 DEF Progress
<1>4. CASE Search
  <2>1. PICK s \in Sorted(Found(table), SearchKey), page \in Seq(Ids) :
           \E counts \in SUBSET {TotalCount(table)} : Turn(page, counts)
    BY <1>4, SearchStep
  <2>2. PICK counts \in SUBSET {TotalCount(table)} : Turn(page, counts)
    BY <2>1
  <2>3. counts \in SUBSET (0..Cardinality(Ids))
    BY <1>1, <2>2, FoundFacts
  <2>4. walk'.op = "search"
    BY <1>1, <1>4, <2>2, <2>3, TurnFacts DEF Search
  <2>5. QED
    BY <1>2, <2>4
<1>5. CASE ListTotal
  <2>1. /\ walk.op = "list" /\ walk.step = "next" /\ walk'.step = "page" /\ since = {}
        /\ walk'.total = Cardinality(table) /\ table' = table
        /\ walk'.offset = walk.offset /\ walk'.seen = walk.seen /\ walk'.counts = walk.counts
    BY <1>2, <1>5, TotalFacts
  <2>2. Progress(Cardinality(table))
    BY <2>1 DEF ListTotals, Undisturbed
  <2>3. QED
    BY <2>1, <2>2 DEF Progress
<1>6. CASE ListPage
  <2>1. PICK page \in Seq(Ids) :
             /\ walk'.op = "list" /\ walk.op = "list" /\ walk.step = "page"
             /\ PageShape(page, Cardinality(table)) /\ Turn(page, {walk.total})
             /\ walk'.step = IF Len(page) < walk.limit THEN "ended" ELSE "next"
    BY <1>6, ListPageFacts
  <2>2. table' = table /\ since' = since
    BY <1>6 DEF ListPage
  <2>3. Progress(Cardinality(table)) /\ walk.total = Cardinality(table)
    BY <1>2, <2>1, <2>2 DEF ListTotals, Undisturbed
  <2>4. PICK m \in 0..Cardinality(Ids) : m = Cardinality(table)
    BY <1>1
  <2>5. Progress(m)'
    BY <1>1, <2>1, <2>3, <2>4, TurnProgress
  <2>6. QED
    BY <2>1, <2>2, <2>4, <2>5 DEF Progress
<1>7. CASE Commit
  BY <1>2, <1>7 DEF Commit
<1>8. QED
  BY <1>3, <1>4, <1>5, <1>6, <1>7 DEF Next

\* An undisturbed search has shown, place by place, rows with the keys of one order.
LEMMA SearchInvStep ==
    ASSUME TypeOK, WalkShape, SearchInv, Next
    PROVE  SearchInv'
<1>1. walk \in Walks /\ table \in Tables /\ walk.offset \in Nat /\ walk.limit \in Nat
      /\ walk.seen \in Seq(Ids)
  BY WalkFacts DEF TypeOK
<1> DEFINE F == Found(table)
           n == TotalCount(table)
           Shown == walk.seen = << >> \/ \E s \in Sorted(F, SearchKey) :
                       \A i \in DOMAIN walk.seen : \E r \in F :
                          r.element.id = walk.seen[i] /\ SearchKey(r) = SearchKey(s[i])
<1>2. SUFFICES ASSUME walk'.op = "search", since' = {}
               PROVE  Progress(n)' /\ Shown'
  BY DEF SearchInv, Undisturbed
<1>3. n \in 0..Cardinality(Ids) /\ IsFiniteSet(F) /\ \A r \in F : SearchKey(r) \in Quads
  BY <1>1, FoundFacts
<1>4. CASE Open
  <2>1. /\ walk'.step = "next" /\ walk'.offset = 0 /\ walk'.seen = << >> /\ walk'.counts = {}
        /\ table' = table
    BY <1>4, OpenFacts
  <2>2. Len(walk'.seen) = 0 /\ 0 <= n
    BY <1>3, <2>1, IdsFinite
  <2>3. QED
    BY <2>1, <2>2 DEF Progress
<1>5. CASE Search
  <2>1. /\ walk.op = "search" /\ walk.step = "next" /\ table' = table /\ since = {}
    BY <1>2, <1>5 DEF Search
  <2>2. Progress(n) /\ Shown
    BY <2>1 DEF SearchInv, Undisturbed
  <2>3. PICK t \in Sorted(F, SearchKey) : \E page \in Seq(Ids) :
              /\ PageShape(page, n)
              /\ \A i \in DOMAIN page : page[i] = t[walk.offset + i].element.id
              /\ \E counts \in SUBSET {n} : Turn(page, counts)
    BY <1>5, SearchStep
  <2>4. PICK page \in Seq(Ids) :
              /\ PageShape(page, n)
              /\ \A i \in DOMAIN page : page[i] = t[walk.offset + i].element.id
              /\ \E counts \in SUBSET {n} : Turn(page, counts)
    BY <2>3
  <2>5. PICK counts \in SUBSET {n} : Turn(page, counts)
    BY <2>4
  <2> HIDE DEF n, F
  <2>6. counts \in SUBSET (0..Cardinality(Ids))
    BY <1>3
  <2>7. walk'.seen = walk.seen \o page
    BY <1>1, <2>5, <2>6, TurnFacts
  <2>8. PICK m \in 0..Cardinality(Ids) : m = n
    BY <1>3
  <2>9. Progress(m)'
    BY <1>1, <2>1, <2>2, <2>4, <2>5, <2>8, TurnProgress
  <2>10. n' = n /\ F' = F
    BY <2>1 DEF n, F
  <2>11. Progress(n)'
    BY <2>8, <2>9, <2>10 DEF Progress
  <2>12. /\ Len(walk.seen) = walk.offset /\ DOMAIN walk.seen = 1..walk.offset
    BY <1>1, <2>1, <2>2 DEF Progress
  <2>13. \A i \in DOMAIN walk'.seen :
            IF i <= walk.offset THEN i \in DOMAIN walk.seen /\ walk'.seen[i] = walk.seen[i]
            ELSE i - walk.offset \in DOMAIN page /\ walk'.seen[i] = page[i - walk.offset]
    BY <1>1, <2>7, <2>12, SeenGrows
  <2>14. t \in SetToSeqs(F)
    BY DEF Sorted
  <2>15. DOMAIN t = 1..n /\ \A i \in DOMAIN t : t[i] \in F
    BY <1>3, <2>14, SetToSeqsFacts DEF n, F, TotalCount
  <2>16. ASSUME NEW i \in DOMAIN walk'.seen
         PROVE  \E r \in F : r.element.id = walk'.seen[i] /\ SearchKey(r) = SearchKey(t[i])
    <3>1. CASE i <= walk.offset
      <4>1. i \in DOMAIN walk.seen /\ walk'.seen[i] = walk.seen[i] /\ walk.seen # << >>
        BY <2>13, <3>1
      <4>2. PICK s \in Sorted(F, SearchKey) :
                       \A k \in DOMAIN walk.seen : \E r \in F :
                          r.element.id = walk.seen[k] /\ SearchKey(r) = SearchKey(s[k])
        BY <2>2, <4>1
      <4>3. PICK r \in F : r.element.id = walk.seen[i] /\ SearchKey(r) = SearchKey(s[i])
        BY <4>1, <4>2
      <4>4. i \in DOMAIN t /\ DOMAIN s = DOMAIN t
        <5>1. s \in SetToSeqs(F)
          BY DEF Sorted
        <5>2. DOMAIN s = 1..n
          BY <1>3, <5>1, SetToSeqsFacts DEF n, F, TotalCount
        <5>3. i \in 1..walk.offset /\ walk.offset <= n /\ n \in Nat
          BY <1>3, <2>2, <2>12, <4>1 DEF Progress
        <5>4. QED
          BY <1>1, <2>15, <5>2, <5>3
      <4>5. SearchKey(s[i]) = SearchKey(t[i])
        BY <1>3, <4>4, SameKeys
      <4>6. QED
        BY <4>1, <4>3, <4>5
    <3>2. CASE ~(i <= walk.offset)
      <4>1. i - walk.offset \in DOMAIN page /\ walk'.seen[i] = page[i - walk.offset]
        BY <2>13, <3>2
      <4>2. i \in Nat /\ walk.offset + (i - walk.offset) = i
        <5>1. i \in 1..(Len(walk.seen) + Len(page)) /\ Len(walk.seen) \in Nat /\ Len(page) \in Nat
          BY <1>1, <2>7, SeenGrows
        <5>2. QED
          BY <1>1, <5>1
      <4>3. walk.offset + (i - walk.offset) \in 1..n
        BY <2>4, <4>1 DEF PageShape
      <4>4. t[i] \in F /\ walk'.seen[i] = t[i].element.id
        BY <2>4, <2>15, <4>1, <4>2, <4>3
      <4>5. QED
        BY <4>4
    <3>3. QED
      BY <3>1, <3>2
  <2>17. Shown'
    BY <2>10, <2>16
  <2>18. QED
    BY <2>11, <2>17
<1>6. CASE ListTotal
  BY <1>2, <1>6, TotalFacts
<1>7. CASE ListPage
  BY <1>2, <1>7, ListPageFacts
<1>8. CASE Commit
  BY <1>2, <1>8 DEF Commit
<1>9. QED
  BY <1>4, <1>5, <1>6, <1>7, <1>8 DEF Next
-----------------------------------------------------------------------------
(* The theorems                                                             *)

\* The invariants hold at first.
LEMMA InvariantInit ==
    ASSUME Init
    PROVE  IInv
<1>1. walk.op = "none" /\ walk.step = "ended"
  BY DEF Init, NoWalk
<1>2. TypeOK
  BY TypesInit
<1>3. QED
  BY <1>1, <1>2 DEF IInv, WalkShape, NothingMissed, NothingRepeated, ListTotals, SearchInv

\* No step breaks them.
LEMMA InvariantStep ==
    ASSUME IInv, [Next]_vars
    PROVE  IInv'
<1>1. TypeOK /\ WalkShape /\ NothingMissed /\ NothingRepeated /\ ListTotals /\ SearchInv
  BY DEF IInv
<1>2. TypeOK'
  BY <1>1, TypesStep
<1>3. CASE Next
  <2>1. WalkShape' /\ NothingMissed' /\ NothingRepeated'
    BY <1>1, <1>3, ShapeStep, MissedStep, RepeatedStep
  <2>2. ListTotals' /\ SearchInv'
    BY <1>1, <1>3, ListTotalsStep, SearchInvStep
  <2>3. QED
    BY <1>2, <2>1, <2>2 DEF IInv
<1>4. CASE UNCHANGED vars
  <2>1. walk' = walk /\ table' = table /\ start' = start /\ since' = since
    BY <1>4 DEF vars
  <2>2. WalkShape'
    BY <1>1, <2>1 DEF WalkShape
  <2>3. NothingMissed'
    BY <1>1, <2>1 DEF NothingMissed
  <2>4. NothingRepeated'
    BY <1>1, <2>1 DEF NothingRepeated, Repeated
  <2>5. ListTotals'
    BY <1>1, <2>1 DEF ListTotals, Undisturbed, Progress
  <2>6. SearchInv'
    BY <1>1, <2>1 DEF SearchInv, Undisturbed, Progress
  <2>7. QED
    BY <1>2, <2>2, <2>3, <2>4, <2>5, <2>6 DEF IInv
<1>5. QED
  BY <1>3, <1>4

\* The inductive invariant.
THEOREM Inductive == Spec => []IInv
<1>1. QED
  BY InvariantInit, InvariantStep, PTL DEF Spec

\* The listing shows every element there was at first, whatever is inserted while the
\* client turns the pages (glossary_element.py:107-119).
THEOREM MissesNothing == Spec => []ListMissesNothing
<1>1. ASSUME IInv PROVE ListMissesNothing
  <2>1. SUFFICES ASSUME Ended("list"), "removed" \notin since, NEW i \in start
                 PROVE  i \in ToSet(walk.seen)
    BY DEF ListMissesNothing
  <2>2. /\ start \subseteq IdsOf(table) /\ walk.step = "ended"
        /\ \A e \in table : e.id \in start =>
             \/ e.id \in ToSet(walk.seen)
             \/ walk.step # "ended" /\ walk.offset <= Rank(ListKey(e), table)
    BY <1>1, <2>1 DEF IInv, NothingMissed, Ended
  <2>3. QED
    BY <2>1, <2>2 DEF IdsOf
<1>2. QED
  BY <1>1, Inductive, PTL

\* The listing shows no element twice, whatever is deleted while the client turns the
\* pages (glossary_element.py:107-119).
THEOREM RepeatsNothing == Spec => []ListRepeatsNothing
<1>1. ASSUME IInv PROVE ListRepeatsNothing
  BY <1>1 DEF IInv, NothingRepeated, ListRepeatsNothing
<1>2. QED
  BY <1>1, Inductive, PTL

\* Every total that an undisturbed walk is told is the number of elements it is shown
\* (glossary_element.py:67, 104, 112-116).
THEOREM Totals == Spec => []TotalsMatchTheWalk
<1>1. ASSUME IInv PROVE TotalsMatchTheWalk
  <2>1. SUFFICES ASSUME Undisturbed, Ended("list") \/ Ended("search"), NEW n \in walk.counts
                 PROVE  n = Len(walk.seen)
    BY DEF TotalsMatchTheWalk
  <2>2. CASE Ended("list")
    BY <1>1, <2>1, <2>2 DEF IInv, ListTotals, Progress, Ended
  <2>3. CASE Ended("search")
    BY <1>1, <2>1, <2>3 DEF IInv, SearchInv, Progress, Ended
  <2>4. QED
    BY <2>1, <2>2, <2>3
<1>2. QED
  BY <1>1, Inductive, PTL
\* What an ended, undisturbed search knows: it has shown as many rows as were found,
\* each with the key of its place in one order.
LEMMA SearchEnded ==
    ASSUME IInv, Ended("search"), Undisturbed
    PROVE  /\ table \in Tables /\ Len(walk.seen) = Cardinality(Found(table))
           /\ DOMAIN walk.seen = 1..Cardinality(Found(table)) /\ Cardinality(Found(table)) \in Nat
           /\ walk.seen = << >> \/ \E s \in Sorted(Found(table), SearchKey) :
                 \A i \in DOMAIN walk.seen : \E r \in Found(table) :
                    r.element.id = walk.seen[i] /\ SearchKey(r) = SearchKey(s[i])
<1>1. walk \in Walks /\ table \in Tables
  BY DEF IInv, TypeOK
<1>2. Progress(TotalCount(table)) /\ walk.step = "ended"
  BY DEF IInv, SearchInv, Ended
<1>3. Len(walk.seen) = Cardinality(Found(table))
  BY <1>2 DEF Progress, TotalCount
<1>4. DOMAIN walk.seen = 1..Cardinality(Found(table)) /\ Cardinality(Found(table)) \in Nat
  BY <1>1, <1>3, WalkFacts
<1>5. QED
  BY <1>1, <1>3, <1>4 DEF IInv, SearchInv, Ended

\* Rows with equal keys are of elements nobody could tell apart by their order.
LEMMA SameKeyConfusable ==
    ASSUME NEW T \in Tables, NEW r \in Found(T), NEW q \in Found(T), SearchKey(r) = SearchKey(q)
    PROVE  Confusable(r.element, q.element)
<1>1. r.rank \in 1..8 /\ q.rank \in 1..8
  BY FoundFacts
<1> DEFINE c == r.element.says
           d == q.element.says
           odd(x) == x.rank % 2 = 1
           first(x) == IF odd(x) THEN x.element.says.abbreviation.folded
                       ELSE x.element.says.term.folded
           second(x) == IF odd(x) THEN x.element.says.term.folded
                        ELSE x.element.says.abbreviation.folded
<1>2. SearchKey(r) = <<r.rank, first(r), second(r), c.definition>>
  BY DEF SearchKey
<1>3. SearchKey(q) = <<q.rank, first(q), second(q), d.definition>>
  BY DEF SearchKey
<1>4. r.rank = q.rank /\ first(r) = first(q) /\ second(r) = second(q) /\ c.definition = d.definition
  <2>1. SearchKey(r)[1] = r.rank /\ SearchKey(r)[2] = first(r) /\ SearchKey(r)[3] = second(r)
        /\ SearchKey(r)[4] = c.definition
    <3> HIDE DEF first, second, c
    <3>1. QED
      BY <1>2
  <2>2. SearchKey(q)[1] = q.rank /\ SearchKey(q)[2] = first(q) /\ SearchKey(q)[3] = second(q)
        /\ SearchKey(q)[4] = d.definition
    <3> HIDE DEF first, second, d
    <3>1. QED
      BY <1>3
  <2> HIDE DEF first, second, c, d
  <2>3. QED
    BY <2>1, <2>2
<1> HIDE DEF odd
<1>5. odd(r) <=> odd(q)
  BY <1>4 DEF odd
<1>6. QED
  BY <1>4, <1>5 DEF Confusable

\* An undisturbed search shows each element that has to do with the query, and each
\* once (glossary_element.py:59-88).
THEOREM ShowsEachOnce == Spec => []SearchShowsEachOnce
<1>1. ASSUME IInv PROVE SearchShowsEachOnce
  <2>1. SUFFICES ASSUME Ended("search"), Undisturbed, \A e, f \in table : Confusable(e, f) => e = f
                 PROVE  ~Repeated /\ ToSet(walk.seen) = IdsOf({e \in table : Relevant(e)})
    BY DEF SearchShowsEachOnce
  <2> DEFINE F == Found(table)
             n == Cardinality(F)
             Ids0 == {r.element.id : r \in F}
  <2>2. /\ table \in Tables /\ DOMAIN walk.seen = 1..n /\ n \in Nat
        /\ walk.seen = << >> \/ \E s \in Sorted(F, SearchKey) :
                 \A i \in DOMAIN walk.seen : \E r \in F :
                    r.element.id = walk.seen[i] /\ SearchKey(r) = SearchKey(s[i])
    BY <1>1, <2>1, SearchEnded
  <2>3. /\ IsFiniteSet(F) /\ \A r \in F : r.element \in table
        /\ \A r, q \in F : r.element.id = q.element.id => r = q
    BY <2>2, FoundFacts
  <2>4. Ids0 = IdsOf({e \in table : Relevant(e)})
    <3>1. \A e \in table : Relevant(e) <=> \E r \in F : r.element = e
      BY <2>2, FoundIsRelevant
    <3> HIDE DEF F
    <3>2. QED
      BY <2>3, <3>1 DEF IdsOf
  <2>5. CASE walk.seen = << >>
    <3>1. DOMAIN walk.seen = {} /\ n = 0
      BY <2>2, <2>5
    <3>2. F = {}
      BY <2>3, <3>1, FS_EmptySet
    <3>3. Ids0 = {} /\ ToSet(walk.seen) = {}
      BY <3>1, <3>2 DEF ToSet
    <3>4. QED
      BY <2>4, <3>1, <3>3 DEF Repeated
  <2>6. CASE walk.seen # << >>
    <3>1. PICK s \in Sorted(F, SearchKey) :
                 \A i \in DOMAIN walk.seen : \E r \in F :
                    r.element.id = walk.seen[i] /\ SearchKey(r) = SearchKey(s[i])
      BY <2>2, <2>6
    <3>2. s \in SetToSeqs(F)
      BY DEF Sorted
    <3>3. /\ DOMAIN s = 1..n /\ \A i \in DOMAIN s : s[i] \in F
          /\ \A i, j \in DOMAIN s : s[i] = s[j] => i = j
          /\ \A r \in F : \E i \in DOMAIN s : s[i] = r
      BY <2>3, <3>2, SetToSeqsFacts
    <3>4. ASSUME NEW i \in DOMAIN walk.seen
          PROVE  i \in DOMAIN s /\ walk.seen[i] = s[i].element.id
      <4>1. PICK r \in F : r.element.id = walk.seen[i] /\ SearchKey(r) = SearchKey(s[i])
        BY <3>1
      <4>2. i \in DOMAIN s /\ s[i] \in F
        BY <2>2, <3>3
      <4>3. Confusable(r.element, s[i].element)
        BY <2>2, <4>1, <4>2, SameKeyConfusable
      <4>4. r.element = s[i].element
        BY <2>1, <2>3, <4>2, <4>3
      <4>5. QED
        BY <4>1, <4>2, <4>4
    <3> HIDE DEF F, n
    <3>5. ~Repeated
      <4>1. SUFFICES ASSUME NEW i \in DOMAIN walk.seen, NEW j \in DOMAIN walk.seen,
                            walk.seen[i] = walk.seen[j]
                     PROVE  i = j
        BY DEF Repeated
      <4>2. s[i].element.id = s[j].element.id /\ s[i] \in F /\ s[j] \in F
        BY <3>3, <3>4, <4>1
      <4>3. s[i] = s[j]
        BY <2>3, <4>2
      <4>4. QED
        BY <3>3, <3>4, <4>3
    <3>6. ToSet(walk.seen) = Ids0
      <4>1. \A x \in ToSet(walk.seen) : x \in Ids0
        BY <3>3, <3>4 DEF ToSet
      <4>2. \A r \in F : r.element.id \in ToSet(walk.seen)
        BY <2>2, <3>3, <3>4 DEF ToSet
      <4>3. QED
        BY <4>1, <4>2
    <3>7. QED
      BY <2>4, <3>5, <3>6
  <2>7. QED
    BY <2>5, <2>6
<1>2. QED
  BY <1>1, Inductive, PTL

\* Over all pages of an undisturbed search no element comes before one with a better
\* synonym (glossary_element.py:27-88).
THEOREM BestFirst == Spec => []SearchBestFirst
<1>1. ASSUME IInv PROVE SearchBestFirst
  <2>1. SUFFICES ASSUME Ended("search"), Undisturbed,
                        NEW i \in DOMAIN walk.seen, NEW j \in DOMAIN walk.seen, i < j
                 PROVE  LET e == Says(walk.seen[i])
                            f == Says(walk.seen[j])
                            best == Min({Best(e.abbreviation), Best(e.term)})
                        IN /\ best <= Best(f.abbreviation)
                           /\ best <= Best(f.term)
                           /\ Best(f.abbreviation) = best => Best(e.abbreviation) = best
    BY DEF SearchBestFirst
  <2> DEFINE F == Found(table)
             n == Cardinality(F)
  <2>2. /\ table \in Tables /\ DOMAIN walk.seen = 1..n /\ n \in Nat
        /\ walk.seen = << >> \/ \E s \in Sorted(F, SearchKey) :
                 \A k \in DOMAIN walk.seen : \E r \in F :
                    r.element.id = walk.seen[k] /\ SearchKey(r) = SearchKey(s[k])
    BY <1>1, <2>1, SearchEnded
  <2>3. PICK s \in Sorted(F, SearchKey) :
                 \A k \in DOMAIN walk.seen : \E r \in F :
                    r.element.id = walk.seen[k] /\ SearchKey(r) = SearchKey(s[k])
    <3>1. walk.seen # << >>
      BY <2>1
    <3>2. QED
      BY <2>2, <3>1
  <2>4. PICK r \in F : r.element.id = walk.seen[i] /\ SearchKey(r) = SearchKey(s[i])
    BY <2>3
  <2>5. PICK q \in F : q.element.id = walk.seen[j] /\ SearchKey(q) = SearchKey(s[j])
    BY <2>3
  <2>6. /\ SearchKey(r) \in Quads /\ SearchKey(r)[1] = r.rank /\ r.element \in table
        /\ SearchKey(q) \in Quads /\ SearchKey(q)[1] = q.rank /\ q.element \in table
        /\ r.rank \in 1..8 /\ q.rank \in 1..8 /\ r.element \in Elements /\ q.element \in Elements
    BY <2>2, FoundFacts
  <2>7. r.rank <= q.rank
    <3>1. s \in SetToSeqs(F) /\ \A k, l \in DOMAIN s : k < l => ~Less(SearchKey(s[l]), SearchKey(s[k]))
      BY DEF Sorted
    <3>2. IsFiniteSet(F)
      BY <2>2, FoundFacts
    <3>3. DOMAIN s = 1..n
      BY <3>1, <3>2, SetToSeqsFacts
    <3>4. ~Less(SearchKey(q), SearchKey(r))
      BY <2>1, <2>2, <2>4, <2>5, <3>1, <3>3
    <3>5. ~(q.rank < r.rank)
      BY <2>6, <3>4, QuadOrder
    <3>6. QED
      BY <2>6, <3>5
  <2>8. Says(walk.seen[i]) = r.element.says /\ Says(walk.seen[j]) = q.element.says
    <3>1. \A e, f \in table : e.id = f.id => e = f
      BY <2>2, TableFacts
    <3>2. (CHOOSE e \in table : e.id = walk.seen[i]) = r.element
      BY <2>4, <2>6, <3>1
    <3>3. (CHOOSE e \in table : e.id = walk.seen[j]) = q.element
      BY <2>5, <2>6, <3>1
    <3>4. QED
      BY <3>2, <3>3 DEF Says
  <2> DEFINE A == Best(r.element.says.abbreviation)
             B == Best(r.element.says.term)
             C == Best(q.element.says.abbreviation)
             D == Best(q.element.says.term)
  <2>9. A \in 1..5 /\ B \in 1..5 /\ C \in 1..5 /\ D \in 1..5
    BY <2>6, ElementFacts, BestFacts
  <2>10. /\ r.rank <= 2 * A - 1 /\ r.rank <= 2 * B /\ r.rank \in {2 * A - 1, 2 * B}
         /\ q.rank <= 2 * C - 1 /\ q.rank <= 2 * D /\ q.rank \in {2 * C - 1, 2 * D}
    BY <2>2, RankOfFound
  <2> HIDE DEF A, B, C, D
  <2>11. PICK best \in 1..5 : best = Min({A, B}) /\ best \in {A, B} /\ best <= A /\ best <= B
    BY <2>9 DEF Min
  <2>12. best <= C /\ best <= D /\ (C = best => A = best)
    BY <2>6, <2>7, <2>9, <2>10, <2>11
  <2>13. QED
    BY <2>8, <2>11, <2>12 DEF A, B, C, D
<1>2. QED
  BY <1>1, Inductive, PTL
=============================================================================
