-------------------------- MODULE MCGlossaryReads --------------------------
(* Eight contents: their synonyms reach every level of the search, and one   *)
(* does not match.                                                           *)
EXTENDS GlossaryReads

P(how, spaced, fits) == [how |-> how, spaced |-> spaced, fits |-> fits]
T(at, folded, parts) == [at |-> at, folded |-> folded, parts |-> parts]
C(a, t, d) == [abbreviation |-> a, term |-> t, definition |-> d]

Is     == P("is", FALSE, TRUE)       \* the query itself
Begin  == P("starts", FALSE, FALSE)  \* a longer word
Inside == P("holds", TRUE, FALSE)    \* inside a word of a phrase
Wild   == P("apart", FALSE, TRUE)    \* fits by an underscore only
Apart  == P("apart", TRUE, FALSE)

\* Upper and lower case of one text, two texts with synonyms, one without the query.
Upper  == T(1, 2, {Is})
Lower  == T(3, 2, {Is})
Mixed  == T(2, 1, {Inside, Wild, Apart})
Longer == T(5, 4, {Begin, Apart})
Other  == T(4, 3, {Apart})

MCContents == {C(Upper, Other, 1), C(Lower, Other, 1), C(Other, Upper, 1), C(Mixed, Other, 1),
               C(Other, Mixed, 1), C(Longer, Other, 1), C(Other, Longer, 1), C(Other, Other, 1)}
=============================================================================
