-------------------------- MODULE ExcelSyncProofs --------------------------
(***************************************************************************)
(* Theorems about ExcelSync, for sheets and tables of any size, any cells, *)
(* and any number of refreshes and bulk requests.                          *)
(***************************************************************************)
EXTENDS ExcelSync, FiniteSetTheorems, WellFoundedInduction, TLAPS

-----------------------------------------------------------------------------
(* Lemmas about rows and sheets                                            *)

\* Two fields are filled exactly if leaving out no single one empties the row: the
\* count of WellFormed and the mask of excel.py agree.
LEMMA TwoFilled ==
    ASSUME NEW r
    PROVE  Cardinality({f \in Fields : r[f] # Blank}) >= 2 <=>
             ~ \E f \in Fields : \A g \in Fields \ {f} : r[g] = Blank
<1> DEFINE S == {f \in Fields : r[f] # Blank}
<1>1. IsFiniteSet(Fields)
  <2>1. Fields = {"abbreviation"} \cup {"term"} \cup {"definition"}
    BY DEF Fields
  <2>2. QED
    BY <2>1, FS_Singleton, FS_Union
<1>2. IsFiniteSet(S) /\ Cardinality(S) \in Nat
  BY <1>1, FS_Subset, FS_CardinalityType
<1>3. ASSUME NEW f \in S, NEW g \in S, f # g
      PROVE  Cardinality(S) >= 2
  <2>1. Cardinality({f}) = 1 /\ IsFiniteSet({f})
    BY FS_Singleton
  <2>2. Cardinality({f} \cup {g}) = 2
    BY <1>3, <2>1, FS_AddElement
  <2>3. {f} \cup {g} \subseteq S
    OBVIOUS
  <2>4. QED
    BY <1>2, <2>2, <2>3, FS_Subset
<1>4. ASSUME \A f, g \in S : f = g
      PROVE  ~(Cardinality(S) >= 2)
  <2>1. CASE S = {}
    <3>1. Cardinality(S) = 0
      BY <2>1, FS_EmptySet
    <3>2. QED
      BY <3>1
  <2>2. CASE S # {}
    <3>1. PICK f \in S : S = {f}
      BY <1>4, <2>2
    <3>2. Cardinality(S) = 1
      BY <3>1, FS_Singleton
    <3>3. QED
      BY <3>2
  <2>3. QED
    BY <2>1, <2>2
<1>5. (\E f, g \in S : f # g) <=> ~ \E f \in Fields : \A g \in Fields \ {f} : r[g] = Blank
  BY DEF Fields
<1>6. QED
  BY <1>3, <1>4, <1>5

\* A set of naturals that is not empty has a least element.
LEMMA LeastElement ==
    ASSUME NEW T, T \subseteq Nat, T # {}
    PROVE  \E j \in T : \A k \in T : j <= k
<1> DEFINE R == {ss \in Nat \X Nat : ss[1] < ss[2]}
<1>1. R = OpToRel(<, Nat)
  BY Zenon DEF OpToRel
<1>2. IsWellFoundedOn(R, Nat)
  BY <1>1, NatLessThanWellFounded, Zenon
<1>3. PICK j \in T : \A k \in T : ~(<<k, j>> \in R)
  <2> HIDE DEF R
  <2>1. QED
    BY <1>2, WFMin
<1>4. \A k \in T : ~(k < j)
  BY <1>3
<1>5. QED
  BY <1>4

\* The rows of a frame that are repetitions have a first one.
LEMMA FirstOfItsKind ==
    ASSUME IsFrame(frame), NEW i \in DOMAIN frame
    PROVE  \E j \in DOMAIN frame \ Duplicates : j <= i /\ frame[j] = frame[i]
<1> DEFINE Same == {j \in DOMAIN frame : frame[j] = frame[i]}
<1>1. PICK n \in Nat : DOMAIN frame = 1..n
  BY BoundsAssumption DEF IsFrame
<1>2. Same \subseteq Nat /\ i \in Same
  BY <1>1
<1>3. PICK j \in Same : \A k \in Same : j <= k
  BY <1>2, LeastElement
<1>4. \A k \in Same : ~(k < j)
  BY <1>2, <1>3
<1>5. j \in DOMAIN frame /\ frame[j] = frame[i] /\ j \in Nat /\ i \in Nat
  BY <1>2
<1>6. j <= i
  BY <1>2, <1>4, <1>5
<1>7. j \notin Duplicates
  BY <1>4, <1>5 DEF Duplicates
<1>8. QED
  BY <1>5, <1>6, <1>7

\* The four masks leave exactly the first occurrences of well-formed rows.
LEMMA MasksAreExact ==
    ASSUME IsFrame(frame), NEW i \in DOMAIN frame
    PROVE  /\ i \notin Problems <=> WellFormed(frame[i]) /\ i \notin Duplicates
           /\ i \in EmptyRows => ~WellFormed(frame[i])
           /\ i \in OnlyOneField => ~WellFormed(frame[i])
<1> DEFINE r == frame[i]
<1>1. WellFormed(r) <=> /\ ~ \E f \in Fields : \A g \in Fields \ {f} : r[g] = Blank
                        /\ r["abbreviation"] \notin Long
  BY TwoFilled DEF WellFormed
<1>2. i \in OnlyOneField <=> \E f \in Fields : \A g \in Fields \ {f} : r[g] = Blank
  BY DEF OnlyOneField
<1>3. i \in LongAbbreviations <=> r["abbreviation"] \in Long
  BY DEF LongAbbreviations
<1>4. i \in EmptyRows => i \in OnlyOneField
  BY DEF EmptyRows, OnlyOneField, Fields
<1>5. QED
  BY <1>1, <1>2, <1>3, <1>4 DEF Problems

\* What pydantic makes of a row without numbers is a text the table may hold.
LEMMA StoredType ==
    ASSUME NEW r \in [Fields -> Cells], Valid(r)
    PROVE  Stored(r) \in Texts
BY StripAssumption DEF Stored, Texts, Valid

-----------------------------------------------------------------------------
(* The inductive invariant                                                 *)

\* What a refresh has computed so far is what its steps say of the sheet and the table,
\* which nobody else has changed meanwhile.
ComputedInv ==
    /\ stage \in {"idle", "read"} => clean = {} /\ missing = {} /\ added = {}
    /\ stage = "cleaned" => missing = {} /\ added = {}
    /\ stage \in {"cleaned", "prepared", "done"} =>
          /\ clean = DOMAIN frame \ Problems
          /\ errors = [n \in {i + 1 : i \in Problems} |-> Label(n - 1)]
    /\ stage = "prepared" =>
          /\ missing = LeftOnly /\ added = RightOnly
          /\ \A i \in RightOnly : Valid(frame[i])

\* A refresh that is going to insert has a number no element of the table has.
FreshInv ==
    /\ \A id \in DOMAIN table : id[1] <= round
    /\ stage \in {"read", "cleaned", "prepared"} => \A id \in DOMAIN table : id[1] < round

\* A refresh that runs is counted.
RoundInv == stage # "idle" => round # 0

IInv == TypeOK /\ ComputedInv /\ FreshInv /\ RoundInv /\ TableFollowsSheet

\* An empty frame is a frame of length 0.
LEMMA NoFrameType == IsFrame(NoFrame) /\ DOMAIN NoFrame = {} /\ Values(NoFrame) = {}
<1>1. 0 \in 0..MaxRows /\ 1..0 = {}
  BY BoundsAssumption
<1>2. NoFrame \in [1..0 -> [Fields -> Cells \ Spaces]]
  BY <1>1 DEF NoFrame
<1>3. QED
  BY <1>1, <1>2 DEF IsFrame, NoFrame, Values

\* It holds of an empty table.
LEMMA InitIInv == Init => IInv
<1> SUFFICES ASSUME Init PROVE IInv
  OBVIOUS
<1>1. TypeOK
  BY NoFrameType, BoundsAssumption DEF Init, TypeOK
<1>2. ComputedInv /\ FreshInv /\ RoundInv /\ TableFollowsSheet
  BY NoFrameType DEF Init, ComputedInv, FreshInv, RoundInv, TableFollowsSheet
<1>3. QED
  BY <1>1, <1>2 DEF IInv

\* A workbook that has been read is a frame.
LEMMA ReadType ==
    ASSUME NEW book \in Books, frame' = [i \in DOMAIN book |-> ReadRow(book[i])]
    PROVE  IsFrame(frame')
<1>1. PICK n \in 0..MaxRows : book \in [1..n -> Rows]
  BY DEF Books
<1>2. \A i \in 1..n : ReadRow(book[i]) \in [Fields -> Cells \ Spaces]
  BY <1>1, RowsAssumption, CellsAssumption DEF ReadRow
<1>3. frame' \in [1..n -> [Fields -> Cells \ Spaces]]
  BY <1>1, <1>2
<1>4. QED
  BY <1>3 DEF IsFrame

\* Read begins with the leftovers of no earlier refresh and a number of its own.
LEMMA ReadStep == IInv /\ Read => IInv'
<1> SUFFICES ASSUME IInv, Read PROVE IInv'
  OBVIOUS
<1>1. /\ stage = "idle" /\ stage' = "read" /\ round' = round + 1 /\ round < MaxRounds
      /\ UNCHANGED <<clean, errors, missing, added, table>>
  BY DEF Read
<1>2. clean = {} /\ missing = {} /\ added = {}
  BY <1>1 DEF IInv, ComputedInv
<1>3. IsFrame(frame')
  BY ReadType DEF Read
<1>4. round' \in 0..MaxRounds
  BY <1>1, BoundsAssumption DEF IInv, TypeOK
<1>5. TypeOK'
  BY <1>1, <1>2, <1>3, <1>4 DEF IInv, TypeOK, Values
<1>6. ComputedInv' /\ TableFollowsSheet'
  BY <1>1, <1>2 DEF ComputedInv, TableFollowsSheet
<1>7. FreshInv'
  <2>1. \A id \in DOMAIN table : id[1] \in Int
    BY DEF IInv, TypeOK, Ids
  <2>2. round \in Int
    BY DEF IInv, TypeOK
  <2>3. \A id \in DOMAIN table : id[1] < round + 1 /\ id[1] <= round + 1
    BY <2>1, <2>2 DEF IInv, FreshInv
  <2>4. QED
    BY <1>1, <2>3 DEF FreshInv
<1>8. RoundInv'
  BY <1>1, <1>4 DEF RoundInv, IInv, TypeOK
<1>9. QED
  BY <1>5, <1>6, <1>7, <1>8 DEF IInv

\* CleanUp sets the two frames of excel.py from the masks.
LEMMA CleanUpStep == IInv /\ CleanUp => IInv'
<1> SUFFICES ASSUME IInv, CleanUp PROVE IInv'
  OBVIOUS
<1>1. /\ stage = "read" /\ stage' = "cleaned"
      /\ clean' = DOMAIN frame \ Problems
      /\ errors' = [n \in {i + 1 : i \in Problems} |-> Label(n - 1)]
      /\ UNCHANGED <<frame, missing, added, table, round>>
  BY DEF CleanUp
<1>2. missing = {} /\ added = {}
  BY <1>1 DEF IInv, ComputedInv
<1>3. \A i \in DOMAIN frame : i + 1 \in Lines
  BY BoundsAssumption DEF IInv, TypeOK, IsFrame, Lines
<1>4. Problems \subseteq DOMAIN frame
  BY DEF Problems, EmptyRows, LongAbbreviations, OnlyOneField, Duplicates
<1>5. DOMAIN errors' \subseteq Lines /\ Values(errors') \subseteq Labels
  BY <1>1, <1>3, <1>4 DEF Values, Label, Labels
<1>6. TypeOK'
  BY <1>1, <1>2, <1>5 DEF IInv, TypeOK
<1>7. ComputedInv'
  <2>1. UNCHANGED <<Problems, EmptyRows, LongAbbreviations, OnlyOneField>>
    BY <1>1 DEF Problems, EmptyRows, LongAbbreviations, OnlyOneField, Duplicates
  <2>2. \A i : Label(i)' = Label(i)
    BY <2>1, <1>1 DEF Label, Duplicates
  <2>3. QED
    BY <1>1, <1>2, <2>1, <2>2 DEF ComputedInv
<1>8. FreshInv' /\ RoundInv' /\ TableFollowsSheet'
  BY <1>1 DEF IInv, FreshInv, RoundInv, TableFollowsSheet
<1>9. QED
  BY <1>6, <1>7, <1>8 DEF IInv

\* Prepare takes the difference of the clean rows and the table of that moment.
LEMMA PrepareStep == IInv /\ Prepare => IInv'
<1> SUFFICES ASSUME IInv, Prepare PROVE IInv'
  OBVIOUS
<1>1. /\ stage = "cleaned"
      /\ missing' = LeftOnly /\ added' = RightOnly
      /\ stage' = IF \A i \in RightOnly : Valid(frame[i]) THEN "prepared" ELSE "failed"
      /\ UNCHANGED <<frame, clean, errors, table, round>>
  BY DEF Prepare
<1>2. LeftOnly \subseteq Texts /\ RightOnly \subseteq clean
  BY DEF LeftOnly, RightOnly, IInv, TypeOK
<1>3. TypeOK'
  BY <1>1, <1>2 DEF IInv, TypeOK
<1>4. ComputedInv'
  <2>1. UNCHANGED <<Problems, LeftOnly, RightOnly>>
    BY <1>1 DEF Problems, EmptyRows, LongAbbreviations, OnlyOneField, Duplicates,
                LeftOnly, RightOnly, CleanRows, Values
  <2>2. \A i : Label(i)' = Label(i)
    BY <1>1 DEF Label, EmptyRows, LongAbbreviations, OnlyOneField
  <2>3. QED
    BY <1>1, <2>1, <2>2 DEF ComputedInv, IInv
<1>5. FreshInv' /\ RoundInv' /\ TableFollowsSheet'
  BY <1>1 DEF IInv, FreshInv, RoundInv, TableFollowsSheet
<1>6. QED
  BY <1>3, <1>4, <1>5 DEF IInv

\* What the transaction leaves: what was to stay, as it was, and new elements under
\* identifiers of their own.
LEMMA ApplyMoves ==
    ASSUME IInv, Apply
    PROVE  /\ Remainder = {id \in DOMAIN table : table[id] \in CleanRows}
           /\ DOMAIN table' = Remainder \cup {<<round, i>> : i \in added}
           /\ \A id \in Remainder : table'[id] = table[id]
           /\ \A i \in added : /\ <<round, i>> \notin DOMAIN table
                               /\ table'[<<round, i>>] = Stored(frame[i])
<1>1. stage = "prepared" /\ missing = Values(table) \ CleanRows
  BY DEF Apply, IInv, ComputedInv, LeftOnly
<1>2. Remainder = {id \in DOMAIN table : table[id] \in CleanRows}
  BY <1>1 DEF Remainder, Values
<1>3. \A i \in added : <<round, i>> \notin DOMAIN table
  <2>1. ASSUME NEW i \in added, <<round, i>> \in DOMAIN table
        PROVE  FALSE
    <3>1. <<round, i>>[1] < round
      BY <1>1, <2>1 DEF IInv, FreshInv
    <3>2. round < round /\ round \in Int
      BY <3>1 DEF IInv, TypeOK
    <3>3. QED
      BY <3>2
  <2>2. QED
    BY <2>1
<1>4. table' = [id \in Remainder \cup {<<round, i>> : i \in added} |->
                    IF id \in Remainder THEN table[id] ELSE Stored(frame[id[2]])]
  BY DEF Apply
<1>5. Remainder \subseteq DOMAIN table
  BY DEF Remainder
<1>6. \A i \in added : table'[<<round, i>>] = Stored(frame[i])
  BY <1>3, <1>4, <1>5
<1>7. QED
  BY <1>2, <1>3, <1>4, <1>6

\* The text of an element is stripped already.
LEMMA TableTexts ==
    ASSUME TypeOK, NEW id \in DOMAIN table
    PROVE  table[id] \in Texts /\ Stored(table[id]) = table[id]
BY DEF TypeOK, Values, Texts

\* Apply makes the table follow the sheet: what stays is a clean row and stripped
\* already, and every other clean row is inserted stripped.
LEMMA ApplyStep == IInv /\ Apply => IInv'
<1> SUFFICES ASSUME IInv, Apply PROVE IInv'
  OBVIOUS
<1>1. /\ stage = "prepared" /\ stage' = "done"
      /\ UNCHANGED <<frame, clean, errors, missing, added, round>>
  BY DEF Apply
<1>2. TypeOK
  BY DEF IInv
<1>3. /\ added \subseteq clean /\ clean \subseteq DOMAIN frame
      /\ added = RightOnly
      /\ \A i \in added : Valid(frame[i])
  BY <1>1 DEF IInv, ComputedInv, TypeOK
<1>4. PICK n \in 0..MaxRows : frame \in [1..n -> [Fields -> Cells \ Spaces]]
  BY <1>2 DEF TypeOK, IsFrame
<1>5. \A i \in added : frame[i] \in [Fields -> Cells] /\ Stored(frame[i]) \in Texts
  <2>1. \A i \in added : frame[i] \in [Fields -> Cells]
    BY <1>3, <1>4
  <2>2. QED
    BY <1>3, <2>1, StoredType
<1>6. DOMAIN table' \subseteq Ids
  <2>1. round \in 1..MaxRounds
    <3>1. round \in 0..MaxRounds
      BY <1>2 DEF TypeOK
    <3>2. round # 0
      BY <1>1 DEF IInv, RoundInv
    <3>3. QED
      BY <3>1, <3>2
  <2>2. added \subseteq 0..MaxRows
    BY <1>3, <1>4, BoundsAssumption
  <2>3. {<<round, i>> : i \in added} \subseteq Ids
    BY <2>1, <2>2 DEF Ids
  <2>4. QED
    BY <1>2, <2>3, ApplyMoves DEF TypeOK
<1>7. Values(table') \subseteq Texts
  <2>1. \A id \in Remainder : table'[id] \in Texts
    BY <1>2, ApplyMoves, TableTexts
  <2>2. \A i \in added : table'[<<round, i>>] \in Texts
    BY <1>5, ApplyMoves
  <2>3. QED
    BY <2>1, <2>2, ApplyMoves DEF Values
<1>8. TypeOK'
  BY <1>1, <1>2, <1>6, <1>7 DEF TypeOK
<1>9. ComputedInv'
  <2>1. UNCHANGED Problems
    BY <1>1 DEF Problems, EmptyRows, LongAbbreviations, OnlyOneField, Duplicates
  <2>2. \A i : Label(i)' = Label(i)
    BY <1>1 DEF Label, EmptyRows, LongAbbreviations, OnlyOneField
  <2>3. QED
    BY <1>1, <2>1, <2>2 DEF ComputedInv, IInv
<1>10. FreshInv'
  <2>1. \A i \in added : <<round, i>>[1] <= round
    BY <1>2 DEF TypeOK
  <2>2. QED
    BY <1>1, <2>1, ApplyMoves DEF IInv, FreshInv
<1>11. TableFollowsSheet'
  <2>1. ASSUME NEW id \in DOMAIN table'
        PROVE  \E i \in clean : table'[id] = Stored(frame[i])
    <3>1. CASE id \in Remainder
      <4>1. PICK i \in clean : table[id] = frame[i]
        BY <3>1, ApplyMoves DEF CleanRows
      <4>2. QED
        BY <1>2, <3>1, <4>1, ApplyMoves, TableTexts
    <3>2. CASE id \in {<<round, i>> : i \in added}
      BY <1>3, <3>2, ApplyMoves
    <3>3. QED
      BY <2>1, <3>1, <3>2, ApplyMoves
  <2>2. ASSUME NEW i \in clean
        PROVE  \E id \in DOMAIN table' : table'[id] = Stored(frame[i])
    <3>1. CASE frame[i] \in Values(table)
      <4>1. PICK id \in DOMAIN table : table[id] = frame[i]
        BY <3>1 DEF Values
      <4>2. id \in Remainder
        BY <2>2, <4>1, ApplyMoves DEF CleanRows
      <4>3. QED
        BY <1>2, <4>1, <4>2, ApplyMoves, TableTexts
    <3>2. CASE frame[i] \notin Values(table)
      <4>1. i \in added
        BY <1>3, <2>2, <3>2 DEF RightOnly
      <4>2. QED
        BY <4>1, ApplyMoves
    <3>3. QED
      BY <3>1, <3>2
  <2>3. Values(table') = {Stored(frame[i]) : i \in clean}
    BY <2>1, <2>2 DEF Values
  <2>4. QED
    BY <1>1, <2>3 DEF TableFollowsSheet, Values, Stored
<1>12. RoundInv'
  BY <1>1 DEF IInv, RoundInv
<1>13. QED
  BY <1>8, <1>9, <1>10, <1>11, <1>12 DEF IInv

\* Return forgets all but the table.
LEMMA ReturnStep == IInv /\ Return => IInv'
<1> SUFFICES ASSUME IInv, Return PROVE IInv'
  OBVIOUS
<1>1. /\ stage' = "idle" /\ frame' = NoFrame /\ errors' = NoFrame
      /\ clean' = {} /\ missing' = {} /\ added' = {}
      /\ UNCHANGED <<table, round>>
  BY DEF Return
<1>2. TypeOK'
  BY <1>1, NoFrameType DEF IInv, TypeOK, Values
<1>3. ComputedInv' /\ FreshInv' /\ RoundInv' /\ TableFollowsSheet'
  BY <1>1 DEF IInv, ComputedInv, FreshInv, RoundInv, TableFollowsSheet
<1>4. QED
  BY <1>2, <1>3 DEF IInv

\* BulkCreate runs between refreshes and inserts a stripped text.
LEMMA BulkCreateStep == IInv /\ BulkCreate => IInv'
<1> SUFFICES ASSUME IInv, BulkCreate PROVE IInv'
  OBVIOUS
<1>1. /\ stage = "idle" /\ round < MaxRounds /\ round' = round + 1
      /\ UNCHANGED <<stage, frame, clean, errors, missing, added>>
  BY DEF BulkCreate
<1>2. PICK r \in Rows :
        /\ Valid(r)
        /\ table' = [id \in DOMAIN table \cup {<<round', 0>>} |->
                        IF id \in DOMAIN table THEN table[id] ELSE Stored(r)]
  BY DEF BulkCreate
<1>3. Stored(r) \in Texts
  BY <1>2, RowsAssumption, StoredType
<1>4. round' \in 1..MaxRounds /\ round \in Nat
  BY <1>1, BoundsAssumption DEF IInv, TypeOK
<1>5. DOMAIN table' \subseteq Ids
  <2>1. <<round', 0>> \in Ids
    BY <1>4, BoundsAssumption DEF Ids
  <2>2. QED
    BY <1>2, <2>1 DEF IInv, TypeOK
<1>6. Values(table') \subseteq Texts
  BY <1>2, <1>3, TableTexts DEF IInv, Values
<1>7. TypeOK'
  BY <1>1, <1>4, <1>5, <1>6 DEF IInv, TypeOK
<1>8. ComputedInv' /\ RoundInv' /\ TableFollowsSheet'
  BY <1>1 DEF IInv, ComputedInv, RoundInv, TableFollowsSheet
<1>9. FreshInv'
  <2>1. \A id \in DOMAIN table : id[1] \in Int
    BY DEF IInv, TypeOK, Ids
  <2>2. \A id \in DOMAIN table : id[1] <= round + 1
    BY <1>4, <2>1 DEF IInv, FreshInv
  <2>3. \A id \in DOMAIN table' : id[1] <= round'
    BY <1>1, <1>2, <1>4, <2>2
  <2>4. QED
    BY <1>1, <2>3 DEF FreshInv
<1>10. QED
  BY <1>7, <1>8, <1>9 DEF IInv

\* IInv is inductive: one step for each action of Next.
LEMMA Invariance == Spec => []IInv
<1>1. IInv /\ [Next]_vars => IInv'
  <2> SUFFICES ASSUME IInv, UNCHANGED vars PROVE IInv'
    BY ReadStep, CleanUpStep, PrepareStep, ApplyStep, ReturnStep, BulkCreateStep DEF Next
  <2>1. TypeOK' /\ FreshInv' /\ RoundInv'
    BY DEF vars, IInv, TypeOK, FreshInv, RoundInv
  <2>2. UNCHANGED <<Problems, LeftOnly, RightOnly>>
    BY DEF vars, Problems, EmptyRows, LongAbbreviations, OnlyOneField, Duplicates,
           LeftOnly, RightOnly, CleanRows, Values
  <2>3. \A i : Label(i)' = Label(i)
    BY DEF vars, Label, EmptyRows, LongAbbreviations, OnlyOneField
  <2>4. ComputedInv'
    BY <2>2, <2>3 DEF vars, IInv, ComputedInv
  <2>5. TableFollowsSheet'
    BY DEF vars, IInv, TableFollowsSheet
  <2>6. QED
    BY <2>1, <2>4, <2>5 DEF IInv
<1>2. QED
  BY <1>1, InitIInv, PTL DEF Spec

-----------------------------------------------------------------------------
(* What a refresh promises                                                 *)

\* Every variable keeps its range; in particular the table never holds a text with
\* outer white space or a number in it (glossary_element.py of the DTOs).
THEOREM TypeInvariant == Spec => []TypeOK
<1>1. IInv => TypeOK
  BY DEF IInv
<1>2. QED
  BY <1>1, Invariance, PTL

\* The four masks and keep="first" together keep each well-formed row once.
LEMMA CleaningHolds == IInv => CleaningIsExact
<1> SUFFICES ASSUME IInv, stage \in {"cleaned", "prepared", "done"}
             PROVE  /\ CleanRows = {r \in Values(frame) : WellFormed(r)}
                    /\ \A i, j \in clean : frame[i] = frame[j] => i = j
  BY DEF CleaningIsExact
<1>1. IsFrame(frame) /\ clean = DOMAIN frame \ Problems
  BY DEF IInv, TypeOK, ComputedInv
<1>2. \A i \in DOMAIN frame : i \in clean <=> WellFormed(frame[i]) /\ i \notin Duplicates
  BY <1>1, MasksAreExact
<1>3. ASSUME NEW i \in DOMAIN frame, WellFormed(frame[i])
      PROVE  frame[i] \in CleanRows
  <2>1. PICK j \in DOMAIN frame \ Duplicates : frame[j] = frame[i]
    BY <1>1, FirstOfItsKind
  <2>2. j \in clean
    BY <1>2, <1>3, <2>1
  <2>3. QED
    BY <2>1, <2>2 DEF CleanRows
<1>4. CleanRows = {r \in Values(frame) : WellFormed(r)}
  BY <1>1, <1>2, <1>3 DEF CleanRows, Values
<1>5. \A i, j \in clean : ~(i < j /\ frame[i] = frame[j])
  BY <1>1, <1>2 DEF Duplicates
<1>6. \A i \in clean : i \in Int
  BY <1>1 DEF IsFrame
<1>7. \A i, j \in clean : frame[i] = frame[j] => i = j
  BY <1>5, <1>6
<1>8. QED
  BY <1>4, <1>7

\* Each well-formed row of the sheet goes on exactly once, and nothing else does
\* (excel.py:41-89).
THEOREM Cleaning == Spec => []CleaningIsExact
BY CleaningHolds, Invariance, PTL

\* Every other row is reported under its workbook line for a reason that is true of it;
\* a "duplicate" repeats an earlier row that did go on (excel.py:64-79).
THEOREM Errors == Spec => []ErrorsAreTrue
<1>1. IInv => ErrorsAreTrue
  <2> SUFFICES ASSUME IInv, stage \in {"cleaned", "prepared", "done"}
               PROVE  ErrorsAreTrue
    BY DEF ErrorsAreTrue
  <2>1. /\ IsFrame(frame) /\ clean = DOMAIN frame \ Problems
        /\ errors = [n \in {i + 1 : i \in Problems} |-> Label(n - 1)]
    BY DEF IInv, TypeOK, ComputedInv
  <2>2. /\ Problems \subseteq DOMAIN frame /\ \A i \in DOMAIN frame : i \in Int
    BY <2>1 DEF Problems, EmptyRows, LongAbbreviations, OnlyOneField, Duplicates, IsFrame
  <2>3. \A i \in DOMAIN frame : i \notin clean <=> i + 1 \in DOMAIN errors
    BY <2>1, <2>2
  <2>4. ASSUME NEW i \in Problems
        PROVE  /\ Label(i) = "long" => frame[i]["abbreviation"] \in Long
               /\ Label(i) = "duplicate" => \E j \in clean : j < i /\ frame[j] = frame[i]
               /\ Label(i) \notin {"long", "duplicate"} => ~WellFormed(frame[i])
    <3>0. i \in DOMAIN frame
      BY <2>2, <2>4
    <3>1. CASE i \in EmptyRows
      BY <2>1, <3>0, <3>1, MasksAreExact DEF Label
    <3>2. CASE i \in LongAbbreviations \ EmptyRows
      BY <3>2 DEF Label, LongAbbreviations
    <3>3. CASE i \in OnlyOneField \ (EmptyRows \cup LongAbbreviations)
      BY <2>1, <3>0, <3>3, MasksAreExact DEF Label
    <3>4. CASE i \notin EmptyRows \cup LongAbbreviations \cup OnlyOneField
      <4>1. Label(i) = "duplicate" /\ i \in Duplicates
        BY <2>4, <3>4 DEF Label, Problems
      <4>2. PICK j \in DOMAIN frame \ Duplicates : j <= i /\ frame[j] = frame[i]
        BY <2>1, <3>0, FirstOfItsKind
      <4>3. j # i
        BY <4>1
      <4>4. j < i
        BY <2>2, <3>0, <4>2, <4>3
      <4>5. j \notin Problems
        BY <3>4, <3>0, <4>2 DEF Problems, EmptyRows, LongAbbreviations, OnlyOneField
      <4>6. QED
        BY <2>1, <4>1, <4>2, <4>4, <4>5
    <3>5. QED
      BY <3>1, <3>2, <3>3, <3>4
  <2>5. ASSUME NEW n \in DOMAIN errors
        PROVE  CASE errors[n] = "long"      -> frame[n - 1]["abbreviation"] \in Long
                 [] errors[n] = "duplicate" -> \E j \in clean :
                                                  j < n - 1 /\ frame[j] = frame[n - 1]
                 [] OTHER                   -> ~WellFormed(frame[n - 1])
    <3>1. n - 1 \in Problems /\ errors[n] = Label(n - 1)
      BY <2>1, <2>2, <2>5
    <3>2. QED
      BY <2>4, <3>1
  <2>6. QED
    BY <2>3, <2>5 DEF ErrorsAreTrue
<1>2. QED
  BY <1>1, Invariance, PTL

\* After a refresh the table holds the clean rows, stripped, and no other text,
\* whatever it held before (glossary.py:155-185, 290-315).
THEOREM TableIsTheSheet == Spec => []TableFollowsSheet
<1>1. IInv => TableFollowsSheet
  BY DEF IInv
<1>2. QED
  BY <1>1, Invariance, PTL

\* Only the transaction follows "prepared".
LEMMA PreparedIsApplied ==
    ASSUME IInv, [Next]_vars, stage = "prepared"
    PROVE  Apply \/ UNCHANGED vars
BY DEF Next, Read, CleanUp, Prepare, Return, BulkCreate

\* A refresh never touches an element whose text is still in the sheet
\* (glossary.py:294-302).
THEOREM KeptElements == Spec => KeptElementsStay
<1> DEFINE Kept == stage = "prepared" => \A id \in DOMAIN table : table[id] \in CleanRows =>
                       id \in DOMAIN table' /\ table'[id] = table[id]
<1>1. IInv /\ [Next]_vars => Kept
  <2> SUFFICES ASSUME IInv, [Next]_vars, stage = "prepared" PROVE Kept
    OBVIOUS
  <2>1. CASE Apply
    BY <2>1, ApplyMoves
  <2>2. CASE UNCHANGED vars
    BY <2>2 DEF vars
  <2>3. QED
    BY <2>1, <2>2, PreparedIsApplied
<1>2. QED
  BY <1>1, Invariance, PTL DEF Spec, KeptElementsStay

\* From a sheet without padded cells a refresh never makes a copy: two elements of one
\* text were both there before it (excel.py:117, glossary.py:304).
THEOREM NoNewCopies == Spec => DuplicatesNeedPadding
<1> DEFINE NoCopy == stage = "prepared" /\ Unpadded(frame) =>
                       \A a, b \in DOMAIN table' :
                           a # b /\ table'[a] = table'[b] => {a, b} \subseteq DOMAIN table
<1>1. IInv /\ [Next]_vars => NoCopy
  <2> SUFFICES ASSUME IInv, [Next]_vars, stage = "prepared", Unpadded(frame) PROVE NoCopy
    OBVIOUS
  <2>1. CASE Apply
    <3>1. /\ added = RightOnly /\ clean \subseteq DOMAIN frame
          /\ \A i, j \in clean : frame[i] = frame[j] => i = j
      <4>1. CleaningIsExact
        BY CleaningHolds
      <4>2. QED
        BY <4>1 DEF IInv, ComputedInv, TypeOK, CleaningIsExact
    <3>2. \A i \in added : /\ i \in clean /\ Stored(frame[i]) = frame[i]
                           /\ frame[i] \notin Values(table)
      BY <3>1 DEF RightOnly, Unpadded
    <3>3. \A id \in Remainder : table'[id] \in Values(table)
      BY <2>1, ApplyMoves DEF Values
    <3>4. \A i \in added : table'[<<round, i>>] = frame[i]
      BY <2>1, <3>2, ApplyMoves
    <3>5. ASSUME NEW i \in added, NEW b \in DOMAIN table', table'[b] = table'[<<round, i>>]
          PROVE  b = <<round, i>>
      <4>1. b \notin Remainder
        BY <3>2, <3>3, <3>4, <3>5
      <4>2. PICK j \in added : b = <<round, j>>
        BY <2>1, <4>1, ApplyMoves
      <4>3. frame[j] = frame[i]
        BY <3>4, <3>5, <4>2
      <4>4. QED
        BY <3>1, <3>2, <4>2, <4>3
    <3>6. Remainder \subseteq DOMAIN table
      BY DEF Remainder
    <3>7. QED
      BY <2>1, <3>5, <3>6, ApplyMoves
  <2>2. CASE UNCHANGED vars
    BY <2>2 DEF vars
  <2>3. QED
    BY <2>1, <2>2, PreparedIsApplied
<1>2. QED
  BY <1>1, Invariance, PTL DEF Spec, DuplicatesNeedPadding
=============================================================================
