------------------------------- MODULE Filters -------------------------------
(***************************************************************************)
(* The filter builder of the repository: from a tree of filters to the     *)
(* conditions of a WHERE clause.  A condition is known by the rows that    *)
(* satisfy it.                                                             *)
(*                                                                         *)
(* A filter has tests of its own and inner filters: `nested_filters` of a  *)
(* BaseFilter and `filters` of a NestedFilter are read in the same way.    *)
(* exclude_none has removed the operators that were not given.  A test may *)
(* have several values only for `in`.                                      *)
(***************************************************************************)
EXTENDS Integers, FiniteSets, Sequences

CONSTANTS
    Fields,  \* columns of the model
    Texts,   \* what a column may hold
    Like,    \* like, startswith, endswith: which text fits which operand
    Layers   \* filters, layer upon layer: the filters in one are in layers below

Rows  == [Fields -> Texts]
Tests == [field : Fields, op : {"eq", "in"} \cup DOMAIN Like, values : SUBSET Texts]

Trees == UNION {Layers[n] : n \in DOMAIN Layers}

ASSUME LayersAssumption ==
    /\ Len(Layers) \in Nat /\ DOMAIN Layers = 1..Len(Layers)
    /\ \A n \in DOMAIN Layers : \A f \in Layers[n] :
           /\ f.condition \in {"and", "or", "none"} /\ f.own \subseteq Tests
           /\ \A g \in f.inner : \E m \in DOMAIN Layers : m < n /\ g \in Layers[m]
ASSUME LikeAssumption == \A op \in DOMAIN Like : Like[op] \subseteq Texts \X Texts

Passes(text, test) ==
    IF test.op \in {"eq", "in"} THEN text \in test.values
    ELSE \A v \in test.values : <<text, v>> \in Like[test.op]

\* _apply_field_filter
Selected(test) == {r \in Rows : Passes(r[test.field], test)}

And(conditions) == {r \in Rows : \A rows \in conditions : r \in rows}

\* Variant: the condition joins the filter's own tests too.
JoinOwn(own, inner, condition) ==
    IF condition = "or" THEN {UNION (own \cup inner)} ELSE {And(own \cup inner)}

\* The filter's own tests are conditions one by one, the inner filters are one
\* condition together, or none.
Join(own, inner, condition) ==
    own \cup (IF inner = {} THEN {}
              ELSE {IF condition = "or" THEN UNION inner ELSE And(inner)})

\* _build_filter_conditions: an inner filter without conditions is left out.
Conditions[f \in Trees] ==
    LET below == {Conditions[g] : g \in f.inner} \ {{}}
    IN  Join({Selected(t) : t \in f.own}, {And(c) : c \in below}, f.condition)

\* _build_filter_query: without conditions there is no WHERE.
Selection(f) == And(Conditions[f])

-----------------------------------------------------------------------------

\* Whether there is a test in the filter, however deep.
Says[f \in Trees] == f.own # {} \/ \E g \in f.inner : Says[g]

\* The rows a filter describes: all of its own tests hold, and of the inner filters
\* that say anything one holds or all do.
Describes[f \in Trees] ==
    LET inner == {g \in f.inner : Says[g]} IN
    [r \in Rows |->
        /\ \A t \in f.own : Passes(r[t.field], t)
        /\ f.condition = "or" /\ inner # {} => \E g \in inner : Describes[g][r]
        /\ f.condition # "or" => \A g \in inner : Describes[g][r]]

\* The WHERE clause selects what the tree of filters describes, however deep and
\* whichever filters in it are empty (repository.py:150-197).
BuildsWhatItSays == \A f \in Trees : Selection(f) = {r \in Rows : Describes[f][r]}
=============================================================================
