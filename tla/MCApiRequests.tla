---------------------------- MODULE MCApiRequests ----------------------------
(* Small texts, bodies, sheets and filters for TLC.                             *)
EXTENDS ApiRequests

CONSTANTS i1, i2

\* "" and two texts of which the second is too long for an abbreviation; a client may
\* also send white space, a padded text or null.
MCTexts == {"", "x", "xy"}
MCRaw   == {"", "x", "xy", " ", " x", "null"}
MCStrip == [raw \in MCRaw \ {"null"} |->
               IF raw = " " THEN "" ELSE IF raw = " x" THEN "x" ELSE raw]
MCLike  == [like       |-> {<<a, b>> \in MCTexts \X MCTexts : a = b \/ b = "" \/ a = "xy"},
            startswith |-> {<<a, b>> \in MCTexts \X MCTexts : a = b \/ b = "" \/ a = "xy"},
            endswith   |-> {<<a, b>> \in MCTexts \X MCTexts : a = b \/ b = ""}]

Row(a, t, d) == [abbreviation |-> a, term |-> t, definition |-> d]
E(i, a, t, d) == [id |-> i, text |-> Row(a, t, d)]

Stored1 == Row("x", "x", "")
Stored2 == Row("x", "xy", "x")
MCTables == {[i \in RowIds |-> IF i = i1 THEN Stored1 ELSE Gone],
             [i \in RowIds |-> IF i = i1 THEN Stored1 ELSE IF i = i2 THEN Stored2 ELSE Gone]}

OneElement == {E(i, a, t, "x") : i \in {i2, NoId}, a \in {"x", " x", "xy", "null"},
                                 t \in {" ", "x", "xy", "null"}}
MCRequests ==
    {<<e>> : e \in OneElement} \cup {<< >>}
    \cup {<<E(i, "x", "", "xy"), E(j, a, "xy", "")>> :
             i, j \in {i1, i2, NoId}, a \in {" x", "null"}}
    \cup {<<E(i1, "x", "", "xy"), E(i2, "x", "", "x"), E(i2, "x", "x", "x")>>,
          <<E(NoId, "x", "", "xy"), E(NoId, " x", " ", "xy")>>}

MCSheets == [rows : {<< >>, <<Stored1>>, <<Stored2, Row("", "x", "x")>>}, errors : BOOLEAN]

\* Filters without inner ones, a layer on top, and a sample of a third.
MCTests == {[field |-> "term", op |-> "eq", values |-> {"x"}],
            [field |-> "abbreviation", op |-> "in", values |-> {"", "xy"}],
            [field |-> "term", op |-> "startswith", values |-> {"x"}]}
Filter(own, condition, inner) == [own |-> own, condition |-> condition, inner |-> inner]
Conds  == {"and", "or"}
Flat   == {Filter(own, c, {}) : own \in SUBSET MCTests, c \in {"or", "none"}}
Layer  == {Filter(own, c, {f, g}) : own \in {{}, MCTests}, c \in Conds, f, g \in Flat}
Third  == {Filter({}, c, {f, g}) : c \in Conds, f \in {h \in Flat : Cardinality(h.own) < 2},
              g \in {h \in Layer : h.own = {} /\ \A k \in h.inner : Cardinality(k.own) < 2}}
MCLayers ==
    LET bulk == {BulkFilter(Parsed(es)) : es \in MCRequests}
    IN  <<Flat \cup UNION {f.inner : f \in bulk}, Layer \cup bulk, Third>>
=============================================================================
