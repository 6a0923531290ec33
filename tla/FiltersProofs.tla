---------------------------- MODULE FiltersProofs ----------------------------
(* The filter builder builds what a tree of filters says, for trees of any    *)
(* depth and width.  The recursion goes down the layers, so the proofs look   *)
(* for the lowest layer where something fails.                                *)
EXTENDS Filters, WellFoundedInduction, TLAPS

\* The filters of the first n layers.
UpTo(n) == {f \in Trees : \E m \in DOMAIN Layers : m <= n /\ f \in Layers[m]}

-----------------------------------------------------------------------------
(* Layers                                                                   *)

\* The filters in a filter of the first n layers are in the first n - 1.
LEMMA LayerFacts ==
    /\ UpTo(0) = {} /\ UpTo(Len(Layers)) = Trees
    /\ \A n \in Nat : UpTo(n) \subseteq UpTo(n + 1) /\ UpTo(n) \subseteq Trees
    /\ \A n \in Nat : \A f \in UpTo(n + 1) : f.inner \subseteq UpTo(n)
    /\ \A f \in Trees : /\ f.condition \in {"and", "or", "none"} /\ f.own \subseteq Tests
                        /\ f.inner \subseteq Trees
<1>1. Len(Layers) \in Nat /\ DOMAIN Layers = 1..Len(Layers)
  BY LayersAssumption
<1>2. \A f : f \in Trees <=> \E m \in DOMAIN Layers : f \in Layers[m]
  BY DEF Trees
<1>3. \A m \in DOMAIN Layers : m \in Nat /\ m > 0 /\ m <= Len(Layers)
  BY <1>1
<1>4. UpTo(0) = {} /\ UpTo(Len(Layers)) = Trees
  BY <1>2, <1>3 DEF UpTo
<1>5. \A n \in Nat : UpTo(n) \subseteq UpTo(n + 1) /\ UpTo(n) \subseteq Trees
  BY <1>3 DEF UpTo
<1>6. ASSUME NEW n \in Nat, NEW f \in UpTo(n + 1)
      PROVE  f.inner \subseteq UpTo(n)
  <2>1. PICK m \in DOMAIN Layers : m <= n + 1 /\ f \in Layers[m]
    BY DEF UpTo
  <2>2. \A g \in f.inner : \E k \in DOMAIN Layers : k < m /\ g \in Layers[k]
    BY <2>1, LayersAssumption
  <2>3. QED
    BY <1>2, <1>3, <2>1, <2>2 DEF UpTo
<1>7. \A f \in Trees : /\ f.condition \in {"and", "or", "none"} /\ f.own \subseteq Tests
                        /\ f.inner \subseteq Trees
  BY <1>2, LayersAssumption
<1>8. QED
  BY <1>4, <1>5, <1>6, <1>7

\* What fails for some number of layers, and not for none, fails for a first one.
LEMMA FirstFailure ==
    ASSUME NEW S \in SUBSET Nat, 0 \notin S, NEW m \in S
    PROVE  \E n \in Nat : n \notin S /\ n + 1 \in S
<1> DEFINE Lt(x, y) == x < y
           R == OpToRel(Lt, Nat)
<1>1. \A x, y \in Nat : <<x, y>> \in R <=> x < y
  BY Zenon DEF OpToRel
<1>2. IsWellFoundedOn(R, Nat)
  BY <1>1, NatLessThanWellFounded, Zenon
<1>3. PICK j \in S : \A k \in S : ~(<<k, j>> \in R)
  <2> HIDE DEF R
  <2>1. QED
    BY <1>2, WFMin
<1>4. \A k \in S : ~(k < j)
  BY <1>1, <1>3
<1>5. j - 1 \in Nat /\ j - 1 \notin S
  BY <1>4
<1>6. (j - 1) + 1 = j
  OBVIOUS
<1>7. QED
  BY <1>5, <1>6

-----------------------------------------------------------------------------
(* The recursive functions are what their definitions say                   *)

\* One step of each.
BuildStep(f, C) ==
    LET below == {C[g] : g \in f.inner} \ {{}}
    IN  Join({Selected(t) : t \in f.own}, {And(c) : c \in below}, f.condition)
SaysStep(f, S) == f.own # {} \/ \E g \in f.inner : S[g]
DescribesStep(f, D) ==
    LET inner == {g \in f.inner : Says[g]} IN
    [r \in Rows |->
        /\ \A t \in f.own : Passes(r[t.field], t)
        /\ f.condition = "or" /\ inner # {} => \E g \in inner : D[g][r]
        /\ f.condition # "or" => \A g \in inner : D[g][r]]

\* The conditions of a filter are those of its definition (repository.py:144-197).
LEMMA ConditionsDefined ==
    \A f \in Trees : Conditions[f] = BuildStep(f, Conditions)
<1> DEFINE Good(n) == \E C : C = [f \in UpTo(n) |-> BuildStep(f, C)]
           Bad == {n \in Nat : ~Good(n)}
<1>1. Good(0)
  <2>1. <<>> = [f \in UpTo(0) |-> BuildStep(f, <<>>)]
    BY LayerFacts
  <2>2. QED
    BY <2>1
<1>2. ASSUME NEW n \in Nat, Good(n)
      PROVE  Good(n + 1)
  <2>1. PICK C : C = [f \in UpTo(n) |-> BuildStep(f, C)]
    BY <1>2
  <2> DEFINE D == [f \in UpTo(n + 1) |-> BuildStep(f, C)]
  <2>2. UpTo(n) \subseteq UpTo(n + 1) /\ \A f \in UpTo(n + 1) : f.inner \subseteq UpTo(n)
    BY LayerFacts
  <2>3. \A f \in UpTo(n) : D[f] = C[f]
    BY <2>1, <2>2
  <2>4. ASSUME NEW f \in UpTo(n + 1)
        PROVE  BuildStep(f, D) = BuildStep(f, C)
    <3>1. \A g \in f.inner : D[g] = C[g]
      BY <2>2, <2>3
    <3> HIDE DEF D
    <3>2. {D[g] : g \in f.inner} = {C[g] : g \in f.inner}
      BY <3>1
    <3>3. QED
      BY <3>2, Zenon DEF BuildStep
  <2>5. D = [f \in UpTo(n + 1) |-> BuildStep(f, D)]
    <3> HIDE DEF D
    <3>1. D = [f \in UpTo(n + 1) |-> BuildStep(f, C)]
      BY DEF D
    <3>2. QED
      BY <2>4, <3>1
  <2>6. QED
    BY <2>5
<1>3. Good(Len(Layers))
  <2>1. 0 \notin Bad /\ Bad \in SUBSET Nat
    BY <1>1
  <2>2. \A n \in Nat : n \notin Bad => n + 1 \notin Bad
    BY <1>2
  <2>3. Len(Layers) \in Nat
    BY LayersAssumption
  <2> HIDE DEF Good
  <2>4. \A n \in Nat : n \in Bad <=> ~Good(n)
    OBVIOUS
  <2> HIDE DEF Bad
  <2>5. Len(Layers) \notin Bad
    BY <2>1, <2>2, <2>3, FirstFailure
  <2>6. QED
    BY <2>3, <2>4, <2>5
<1>4. \E C : C = [f \in Trees |-> BuildStep(f, C)]
  BY <1>3, LayerFacts
<1>5. Conditions = CHOOSE C : C = [f \in Trees |-> BuildStep(f, C)]
  BY Zenon DEF Conditions, BuildStep
<1>6. Conditions = [f \in Trees |-> BuildStep(f, Conditions)]
  BY <1>4, <1>5, Zenon
<1>7. QED
  BY <1>6

\* Whether a filter says anything is whether it or a filter in it does.
LEMMA SaysDefined ==
    \A f \in Trees : Says[f] = SaysStep(f, Says)
<1> DEFINE Good(n) == \E C : C = [f \in UpTo(n) |-> SaysStep(f, C)]
           Bad == {n \in Nat : ~Good(n)}
<1>1. Good(0)
  <2>1. <<>> = [f \in UpTo(0) |-> SaysStep(f, <<>>)]
    BY LayerFacts
  <2>2. QED
    BY <2>1
<1>2. ASSUME NEW n \in Nat, Good(n)
      PROVE  Good(n + 1)
  <2>1. PICK C : C = [f \in UpTo(n) |-> SaysStep(f, C)]
    BY <1>2
  <2> DEFINE D == [f \in UpTo(n + 1) |-> SaysStep(f, C)]
  <2>2. UpTo(n) \subseteq UpTo(n + 1) /\ \A f \in UpTo(n + 1) : f.inner \subseteq UpTo(n)
    BY LayerFacts
  <2>3. \A f \in UpTo(n) : D[f] = C[f]
    BY <2>1, <2>2
  <2>4. ASSUME NEW f \in UpTo(n + 1)
        PROVE  SaysStep(f, D) = SaysStep(f, C)
    <3>1. \A g \in f.inner : D[g] = C[g]
      BY <2>2, <2>3
    <3> HIDE DEF D
    <3>2. QED
      BY <3>1 DEF SaysStep
  <2>5. D = [f \in UpTo(n + 1) |-> SaysStep(f, D)]
    <3> HIDE DEF D
    <3>1. D = [f \in UpTo(n + 1) |-> SaysStep(f, C)]
      BY DEF D
    <3>2. QED
      BY <2>4, <3>1
  <2>6. QED
    BY <2>5
<1>3. Good(Len(Layers))
  <2>1. 0 \notin Bad /\ Bad \in SUBSET Nat
    BY <1>1
  <2>2. \A n \in Nat : n \notin Bad => n + 1 \notin Bad
    BY <1>2
  <2>3. Len(Layers) \in Nat
    BY LayersAssumption
  <2> HIDE DEF Good
  <2>4. \A n \in Nat : n \in Bad <=> ~Good(n)
    OBVIOUS
  <2> HIDE DEF Bad
  <2>5. Len(Layers) \notin Bad
    BY <2>1, <2>2, <2>3, FirstFailure
  <2>6. QED
    BY <2>3, <2>4, <2>5
<1>4. \E C : C = [f \in Trees |-> SaysStep(f, C)]
  BY <1>3, LayerFacts
<1>5. Says = CHOOSE C : C = [f \in Trees |-> SaysStep(f, C)]
  BY Zenon DEF Says, SaysStep
<1>6. Says = [f \in Trees |-> SaysStep(f, Says)]
  BY <1>4, <1>5, Zenon
<1>7. QED
  BY <1>6

\* The rows a filter describes are those of its definition.
LEMMA DescribesDefined ==
    \A f \in Trees : Describes[f] = DescribesStep(f, Describes)
<1> DEFINE Good(n) == \E C : C = [f \in UpTo(n) |-> DescribesStep(f, C)]
           Bad == {n \in Nat : ~Good(n)}
<1>1. Good(0)
  <2>1. <<>> = [f \in UpTo(0) |-> DescribesStep(f, <<>>)]
    BY LayerFacts
  <2>2. QED
    BY <2>1
<1>2. ASSUME NEW n \in Nat, Good(n)
      PROVE  Good(n + 1)
  <2>1. PICK C : C = [f \in UpTo(n) |-> DescribesStep(f, C)]
    BY <1>2
  <2> DEFINE D == [f \in UpTo(n + 1) |-> DescribesStep(f, C)]
  <2>2. UpTo(n) \subseteq UpTo(n + 1) /\ \A f \in UpTo(n + 1) : f.inner \subseteq UpTo(n)
    BY LayerFacts
  <2>3. \A f \in UpTo(n) : D[f] = C[f]
    BY <2>1, <2>2
  <2>4. ASSUME NEW f \in UpTo(n + 1)
        PROVE  DescribesStep(f, D) = DescribesStep(f, C)
    <3>1. \A g \in f.inner : D[g] = C[g]
      BY <2>2, <2>3
    <3> HIDE DEF D
    <3>2. QED
      BY <3>1 DEF DescribesStep
  <2>5. D = [f \in UpTo(n + 1) |-> DescribesStep(f, D)]
    <3> HIDE DEF D
    <3>1. D = [f \in UpTo(n + 1) |-> DescribesStep(f, C)]
      BY DEF D
    <3>2. QED
      BY <2>4, <3>1
  <2>6. QED
    BY <2>5
<1>3. Good(Len(Layers))
  <2>1. 0 \notin Bad /\ Bad \in SUBSET Nat
    BY <1>1
  <2>2. \A n \in Nat : n \notin Bad => n + 1 \notin Bad
    BY <1>2
  <2>3. Len(Layers) \in Nat
    BY LayersAssumption
  <2> HIDE DEF Good
  <2>4. \A n \in Nat : n \in Bad <=> ~Good(n)
    OBVIOUS
  <2> HIDE DEF Bad
  <2>5. Len(Layers) \notin Bad
    BY <2>1, <2>2, <2>3, FirstFailure
  <2>6. QED
    BY <2>3, <2>4, <2>5
<1>4. \E C : C = [f \in Trees |-> DescribesStep(f, C)]
  BY <1>3, LayerFacts
<1>5. Describes = CHOOSE C : C = [f \in Trees |-> DescribesStep(f, C)]
  BY Zenon DEF Describes, DescribesStep
<1>6. Describes = [f \in Trees |-> DescribesStep(f, Describes)]
  BY <1>4, <1>5, Zenon
<1>7. QED
  BY <1>6

-----------------------------------------------------------------------------
(* The builder                                                              *)

\* A filter has conditions exactly if it says something, and a row satisfies them
\* exactly if the filter describes it.
Correct(f) ==
    /\ Conditions[f] = {} <=> ~Says[f]
    /\ \A r \in Rows : (\A rows \in Conditions[f] : r \in rows) <=> Describes[f][r]

\* A filter is built correctly if those in it are: inner filters that say nothing are
\* left out, the others are joined by the condition (repository.py:144-197).
LEMMA BuiltFromBelow ==
    ASSUME NEW f \in Trees, \A g \in f.inner : Correct(g)
    PROVE  Correct(f)
<1> DEFINE inner == {g \in f.inner : Says[g]}
           below == {Conditions[g] : g \in f.inner} \ {{}}
           own   == {Selected(t) : t \in f.own}
           sets  == {And(c) : c \in below}
<1>1. f.own \subseteq Tests /\ f.condition \in {"and", "or", "none"}
  BY LayerFacts
<1>2. Conditions[f] = own \cup (IF sets = {} THEN {}
                                ELSE {IF f.condition = "or" THEN UNION sets ELSE And(sets)})
  <2>1. Conditions[f] = BuildStep(f, Conditions)
    BY ConditionsDefined
  <2>2. QED
    BY <2>1, Zenon DEF BuildStep, Join
<1>3. Says[f] <=> f.own # {} \/ \E g \in f.inner : Says[g]
  <2>1. Says[f] = SaysStep(f, Says)
    BY SaysDefined
  <2>2. QED
    BY <2>1, Zenon DEF SaysStep
<1>4. ASSUME NEW r \in Rows
      PROVE  Describes[f][r] <=>
                /\ \A t \in f.own : Passes(r[t.field], t)
                /\ f.condition = "or" /\ inner # {} => \E g \in inner : Describes[g][r]
                /\ f.condition # "or" => \A g \in inner : Describes[g][r]
  <2>1. Describes[f] = DescribesStep(f, Describes)
    BY DescribesDefined
  <2>2. QED
    BY <2>1, <1>4 DEF DescribesStep
<1>5. \A c : c \in below <=> \E g \in inner : c = Conditions[g]
  BY DEF Correct
<1>6. \A g \in inner : Conditions[g] \in below
  BY <1>5
<1>7. sets = {} <=> inner = {}
  BY <1>5
<1>8. ASSUME NEW r \in Rows, NEW g \in f.inner
      PROVE  r \in And(Conditions[g]) <=> Describes[g][r]
  BY <1>8 DEF Correct, And
<1>9. ASSUME NEW r \in Rows
      PROVE  (\A rows \in own : r \in rows) <=> \A t \in f.own : Passes(r[t.field], t)
  <2>1. \A t \in f.own : r \in Selected(t) <=> Passes(r[t.field], t)
    BY DEF Selected
  <2>2. QED
    BY <2>1
<1>10. ASSUME NEW r \in Rows
       PROVE  /\ r \in UNION sets <=> \E g \in inner : Describes[g][r]
              /\ r \in And(sets) <=> \A g \in inner : Describes[g][r]
  <2>1. \A x : x \in sets <=> \E g \in inner : x = And(Conditions[g])
    BY <1>5, <1>6
  <2>2. \A g \in inner : And(Conditions[g]) \in sets
    BY <2>1
  <2>3. \A g \in inner : r \in And(Conditions[g]) <=> Describes[g][r]
    BY <1>8
  <2> HIDE DEF sets, inner
  <2>4. r \in UNION sets <=> \E g \in inner : r \in And(Conditions[g])
    BY <2>1, <2>2
  <2>5. r \in And(sets) <=> \A x \in sets : r \in x
    BY DEF And
  <2>6. r \in And(sets) <=> \A g \in inner : r \in And(Conditions[g])
    BY <2>1, <2>2, <2>5
  <2>7. QED
    BY <2>3, <2>4, <2>6
<1>11. Conditions[f] = {} <=> ~Says[f]
  BY <1>2, <1>3, <1>7
<1>12. ASSUME NEW r \in Rows
       PROVE  (\A rows \in Conditions[f] : r \in rows) <=> Describes[f][r]
  <2> HIDE DEF sets, own, inner
  <2>1. CASE inner = {}
    <3>1. Conditions[f] = own
      BY <1>2, <1>7, <2>1
    <3>2. QED
      BY <1>4, <1>9, <2>1, <3>1
  <2>2. CASE inner # {} /\ f.condition = "or"
    <3>1. Conditions[f] = own \cup {UNION sets}
      BY <1>2, <1>7, <2>2
    <3>2. QED
      BY <1>4, <1>9, <1>10, <2>2, <3>1
  <2>3. CASE inner # {} /\ f.condition # "or"
    <3>1. Conditions[f] = own \cup {And(sets)}
      BY <1>2, <1>7, <2>3
    <3>2. QED
      BY <1>4, <1>9, <1>10, <2>3, <3>1
  <2>4. QED
    BY <2>1, <2>2, <2>3
<1>13. QED
  BY <1>11, <1>12 DEF Correct

\* So every filter is built correctly: there is no lowest layer with one that is not.
LEMMA AllCorrect == \A f \in Trees : Correct(f)
<1> DEFINE Bad == {n \in Nat : \E f \in UpTo(n) : ~Correct(f)}
<1>1. 0 \notin Bad
  BY LayerFacts
<1>2. ASSUME NEW n \in Nat, n \notin Bad
      PROVE  n + 1 \notin Bad
  <2>1. \A f \in UpTo(n) : Correct(f)
    BY <1>2
  <2>2. \A f \in UpTo(n + 1) : f.inner \subseteq UpTo(n) /\ f \in Trees
    BY LayerFacts
  <2>3. \A f \in UpTo(n + 1) : Correct(f)
    BY <2>1, <2>2, BuiltFromBelow
  <2>4. QED
    BY <2>3
<1>3. Len(Layers) \in Nat
  BY LayersAssumption
<1>4. \A n \in Nat : n \in Bad <=> \E f \in UpTo(n) : ~Correct(f)
  OBVIOUS
<1>5. Bad \in SUBSET Nat
  OBVIOUS
<1> HIDE DEF Bad
<1>6. Len(Layers) \notin Bad
  BY <1>1, <1>2, <1>3, <1>5, FirstFailure
<1>7. QED
  BY <1>3, <1>4, <1>6, LayerFacts

\* The WHERE clause selects what the filter describes, however deep it is and whichever
\* filters in it are empty (repository.py:117-197).
THEOREM Builder == BuildsWhatItSays
<1>1. ASSUME NEW f \in Trees
      PROVE  Selection(f) = {r \in Rows : Describes[f][r]}
  <2>1. \A r \in Rows : (\A rows \in Conditions[f] : r \in rows) <=> Describes[f][r]
    BY AllCorrect DEF Correct
  <2>2. QED
    BY <2>1 DEF Selection, And
<1>2. QED
  BY <1>1 DEF BuildsWhatItSays
=============================================================================
