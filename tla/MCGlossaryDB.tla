---------------------------- MODULE MCGlossaryDB ----------------------------
(* Small tables and requests for TLC.  i1 is in the table at first, and      *)
(* sometimes i2; otherwise it is an id that clients bring.                   *)
EXTENDS GlossaryDB, TLC

CONSTANTS i1, i2, a, b, c, d

MCIds   == {i1, i2}
MCTexts == {a, b, c, d}

Holding(f) == [i \in RowIds |-> IF i \in DOMAIN f THEN f[i] ELSE Gone]
MCTables == {Holding([i \in {i1} |-> a]),
             Holding([i \in {i1, i2} |-> IF i = i1 THEN a ELSE b])}

E(i, t)   == [id |-> i, text |-> t]
Bulk(es)  == [kind |-> "bulk", elements |-> es]
Sync(ts)  == [kind |-> "sync", sheet |-> ts]

\* Two requests that change i1 and i2 in opposite orders, one that brings an id
\* twice, one that knows an id from an earlier answer, one that puts a text back,
\* one with an id and without, and refreshes that keep, drop and add.
MCJobs == {Bulk(<<E(i1, c), E(i2, d)>>), Bulk(<<E(i2, c), E(i1, d)>>),
           Bulk(<<E(i2, c), E(i2, d)>>), Bulk(<<E(<<1, 2>>, d)>>), Bulk(<<E(i1, a)>>),
           Bulk(<<E(i1, d), E(NoId, c)>>), Bulk(<< >>),
           Sync(<<b, c>>), Sync(<<a>>), Sync(<< >>)}

\* The writers differ in nothing but their names.
WriterSymmetry == Permutations(Writers)
=============================================================================
