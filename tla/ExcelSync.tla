----------------------------- MODULE ExcelSync -----------------------------
(***************************************************************************)
(* What one refresh does with GLOSS.xlsx: read the sheet, set aside the    *)
(* rows in error for ERRORS.xlsx, compare the rest with the table          *)
(* glossary_element and bring the table up to date.                        *)
(*                                                                         *)
(* Refreshes follow one another here, between edits of the workbook and    *)
(* bulk requests of the API; running at the same time is the subject of    *)
(* UpdateLock and GlossaryDB.  A cell is abstract: what matters of it is   *)
(* whether it is blank, too long or a number, and what str.strip leaves.   *)
(* Rows of the file are named by their position, rows of the table by      *)
(* their UUID, here <<round, position>> for a row the refresh inserts and  *)
(* <<round, 0>> for one the API inserts: uuid4 never repeats.              *)
(***************************************************************************)
EXTENDS Integers, FiniteSets

CONSTANTS
    Cells,      \* contents of a cell after read_excel
    Blank,      \* the empty string
    Spaces,     \* NaN and the strings of white space only
    Strip,      \* str.strip, applied by pydantic (str_strip_whitespace)
    Long,       \* cells of more than 500 characters
    Numbers,    \* cells that read_excel returns as numbers
    Rows,       \* the rows a workbook may hold
    MaxRows,    \* bound: rows of a workbook
    MaxRounds   \* bound: refreshes and bulk requests

Fields == {"abbreviation", "term", "definition"}

ASSUME CellsAssumption ==
    /\ Blank \in Cells \ (Spaces \cup Long \cup Numbers)
    /\ Spaces \cup Long \cup Numbers \subseteq Cells
ASSUME StripAssumption ==
    /\ Strip \in [Cells -> Cells \ Spaces]
    /\ \A c \in Cells : Strip[Strip[c]] = Strip[c]
    /\ \A c \in Cells : Strip[c] = Blank <=> c \in Spaces \cup {Blank}
    /\ \A c \in Cells \ Numbers : Strip[c] \notin Numbers
ASSUME RowsAssumption == Rows \subseteq [Fields -> Cells]
ASSUME BoundsAssumption == MaxRows \in Nat /\ MaxRounds \in Nat

VARIABLES
    stage,    \* where update_glossary_from_xlsx is
    frame,    \* the DataFrame: the rows as read
    clean,    \* df_cleaned: positions of the rows kept
    errors,   \* df_errors: from workbook line to kind of error
    missing,  \* raw_elements_to_delete: texts of the table not in df_cleaned
    added,    \* elements_to_create: positions of the rows to insert
    table,    \* glossary_element: from id to text
    round     \* refreshes and bulk requests so far

vars == <<stage, frame, clean, errors, missing, added, table, round>>

Books  == UNION {[1..n -> Rows] : n \in 0..MaxRows}
Lines  == 1..(MaxRows + 1)
Labels == {"empty", "long", "single", "duplicate"}
NoFrame == [i \in {} |-> {}]

IsFrame(f) == \E n \in 0..MaxRows : f \in [1..n -> [Fields -> Cells \ Spaces]]

Values(f) == {f[x] : x \in DOMAIN f}

-----------------------------------------------------------------------------
(* excel.py: rows in error                                                 *)

\* Variant: white space is left as it is.
ReadRowAsIs(r) == r

\* read_excel(...).replace(nan, "").replace(r"^\s*$", "")
ReadRow(r) == [f \in Fields |-> IF r[f] \in Spaces THEN Blank ELSE r[f]]

EmptyRows == {i \in DOMAIN frame : \A f \in Fields : frame[i][f] = Blank}

LongAbbreviations == {i \in DOMAIN frame : frame[i]["abbreviation"] \in Long}

\* Variant: the fourth disjunct of the mask is missing.
OnlyOneFieldShort ==
    {i \in DOMAIN frame : \E f \in Fields \ {"definition"} :
        \A g \in Fields \ {f} : frame[i][g] = Blank}

OnlyOneField ==
    {i \in DOMAIN frame : \E f \in Fields : \A g \in Fields \ {f} : frame[i][g] = Blank}

\* df.duplicated(keep="first")
Duplicates ==
    {i \in DOMAIN frame : \E j \in DOMAIN frame : j < i /\ frame[j] = frame[i]}

Problems == EmptyRows \cup LongAbbreviations \cup OnlyOneField \cup Duplicates

\* Variant: duplicates are tested first.
LabelDuplicateFirst(i) ==
    CASE i \in Duplicates        -> "duplicate"
      [] i \in EmptyRows         -> "empty"
      [] i \in LongAbbreviations -> "long"
      [] OTHER                   -> "single"

\* The if/elif chain of clean_up_df_and_identify_errors.
Label(i) ==
    CASE i \in EmptyRows -> "empty"
      [] i \in LongAbbreviations \ EmptyRows -> "long"
      [] i \in OnlyOneField \ (EmptyRows \cup LongAbbreviations) -> "single"
      [] OTHER -> "duplicate"

CleanRows == {frame[i] : i \in clean}

-----------------------------------------------------------------------------
(* glossary.py: the difference with the table                              *)

\* GlossaryElementCreateUpdateDTO strips every field.
Stored(r) == [f \in Fields |-> Strip[r[f]]]

\* Variant: only rows whose three fields all differ count as gone.
LeftOnlyByField ==
    {t \in Values(table) : \A r \in CleanRows : \A f \in Fields : t[f] # r[f]}

\* Variant: the table is emptied first.
LeftOnlyUnmerged == Values(table)

\* The outer merge on the three fields, _merge = "left_only": texts to delete.
LeftOnly == Values(table) \ CleanRows

\* Variant: every clean row is inserted.
RightOnlyUnmerged == clean

\* _merge = "right_only": rows to insert.
RightOnly == {i \in clean : frame[i] \notin Values(table)}

\* The fields of a DTO are strings: a number is a ValidationError.
Valid(r) == \A f \in Fields : r[f] \notin Numbers

-----------------------------------------------------------------------------

Init ==
    /\ stage = "idle"
    /\ frame = NoFrame
    /\ clean = {} /\ errors = NoFrame
    /\ missing = {} /\ added = {}
    /\ table = NoFrame
    /\ round = 0

\* convert_xlsx_file_to_dataframe on the file downloaded from EDU, which its
\* curators have edited at will since the last time.
Read ==
    /\ stage = "idle"
    /\ round < MaxRounds
    /\ round' = round + 1
    /\ \E book \in Books : frame' = [i \in DOMAIN book |-> ReadRow(book[i])]
    /\ stage' = "read"
    /\ UNCHANGED <<clean, errors, missing, added, table>>

\* clean_up_df_and_identify_errors
CleanUp ==
    /\ stage = "read"
    /\ clean' = DOMAIN frame \ Problems
    /\ errors' = [n \in {i + 1 : i \in Problems} |-> Label(n - 1)]
    /\ stage' = "cleaned"
    /\ UNCHANGED <<frame, missing, added, table, round>>

\* _prepare_glossary_data_to_update
Prepare ==
    /\ stage = "cleaned"
    /\ missing' = LeftOnly
    /\ added' = RightOnly
    /\ stage' = IF \A i \in RightOnly : Valid(frame[i]) THEN "prepared" ELSE "failed"
    /\ UNCHANGED <<frame, clean, errors, table, round>>

\* The rows that DELETE ... WHERE text = ... leaves.
Remainder == {id \in DOMAIN table : table[id] \notin missing}

\* DELETE, INSERT and COMMIT.
Apply ==
    /\ stage = "prepared"
    /\ table' = [id \in Remainder \cup {<<round, i>> : i \in added} |->
                    IF id \in Remainder THEN table[id] ELSE Stored(frame[id[2]])]
    /\ stage' = "done"
    /\ UNCHANGED <<frame, clean, errors, missing, added, round>>

\* The call returns or raises; its local variables are gone.
Return ==
    /\ stage \in {"done", "failed"}
    /\ stage' = "idle"
    /\ frame' = NoFrame
    /\ clean' = {} /\ errors' = NoFrame
    /\ missing' = {} /\ added' = {}
    /\ UNCHANGED <<table, round>>

\* A bulk request creates an element: at least two fields, not there yet.
BulkCreate ==
    /\ stage = "idle"
    /\ round < MaxRounds
    /\ round' = round + 1
    /\ \E r \in Rows :
        LET t == Stored(r) IN
        /\ Valid(r)
        /\ t["abbreviation"] \notin Long
        /\ Cardinality({f \in Fields : t[f] # Blank}) >= 2
        /\ t \notin Values(table)
        /\ table' = [id \in DOMAIN table \cup {<<round', 0>>} |->
                        IF id \in DOMAIN table THEN table[id] ELSE t]
    /\ UNCHANGED <<stage, frame, clean, errors, missing, added>>

Next == Read \/ CleanUp \/ Prepare \/ Apply \/ Return \/ BulkCreate

Spec == Init /\ [][Next]_vars

-----------------------------------------------------------------------------
(* Properties                                                              *)

Ids   == (1..MaxRounds) \X (0..MaxRows)
Texts == {r \in [Fields -> Cells \ (Spaces \cup Numbers)] : Stored(r) = r}

\* The table holds stripped texts only.
TypeOK ==
    /\ IsFrame(frame)
    /\ stage \in {"idle", "read", "cleaned", "prepared", "failed", "done"}
    /\ clean \subseteq DOMAIN frame /\ added \subseteq clean
    /\ DOMAIN errors \subseteq Lines /\ Values(errors) \subseteq Labels
    /\ missing \subseteq Texts
    /\ DOMAIN table \subseteq Ids /\ Values(table) \subseteq Texts
    /\ round \in 0..MaxRounds

\* What a good row is, independently of the four masks of excel.py.
WellFormed(r) ==
    /\ Cardinality({f \in Fields : r[f] # Blank}) >= 2
    /\ r["abbreviation"] \notin Long

\* Each well-formed row of the sheet goes on exactly once, and nothing else does
\* (excel.py:41-89).
CleaningIsExact ==
    stage \in {"cleaned", "prepared", "done"} =>
        /\ CleanRows = {r \in Values(frame) : WellFormed(r)}
        /\ \A i, j \in clean : frame[i] = frame[j] => i = j

\* Every other row is in ERRORS.xlsx under its workbook line, for a reason that is
\* true of it; a "duplicate" repeats an earlier row that did go on (excel.py:64-79).
ErrorsAreTrue ==
    stage \in {"cleaned", "prepared", "done"} =>
        /\ \A i \in DOMAIN frame : i \notin clean <=> i + 1 \in DOMAIN errors
        /\ \A n \in DOMAIN errors :
              CASE errors[n] = "long"      -> frame[n - 1]["abbreviation"] \in Long
                [] errors[n] = "duplicate" -> \E j \in clean :
                                                 j < n - 1 /\ frame[j] = frame[n - 1]
                [] OTHER                   -> ~WellFormed(frame[n - 1])

\* After a refresh the table holds the clean rows, stripped, and no other text
\* (glossary.py:155-185, 290-315), whatever it held before.
TableFollowsSheet ==
    stage = "done" => Values(table) = {Stored(frame[i]) : i \in clean}

\* A refresh never touches an element whose text is still in the sheet: same id,
\* same text.  Links to an element survive the nightly job (glossary.py:294-302).
KeptElementsStay ==
    [][stage = "prepared" => \A id \in DOMAIN table : table[id] \in CleanRows =>
           id \in DOMAIN table' /\ table'[id] = table[id]]_vars

\* A sheet without padded cells: strip changes none of its rows.
Unpadded(f) == \A i \in DOMAIN f : Stored(f[i]) = f[i]

\* From a sheet without padded cells a refresh never makes a copy: two elements
\* of one text were both there before it (excel.py:117, glossary.py:304).
DuplicatesNeedPadding ==
    [][stage = "prepared" /\ Unpadded(frame) =>
           \A a, b \in DOMAIN table' :
               a # b /\ table'[a] = table'[b] => {a, b} \subseteq DOMAIN table]_vars

=============================================================================
