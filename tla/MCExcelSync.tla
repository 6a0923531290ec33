---------------------------- MODULE MCExcelSync ----------------------------
(* Cells and rows for TLC: one abbreviation in two paddings, a number, a   *)
(* long one, white space; rows of one, two or no filled fields.            *)
EXTENDS ExcelSync

MCCells   == {"", "nan", "A", "A_", "7", "long", "t", "d"}
MCSpaces  == {"nan"}
MCLong    == {"long"}
MCNumbers == {"7"}
MCStrip   == [c \in MCCells |-> CASE c = "A_" -> "A" [] c = "nan" -> "" [] OTHER -> c]

Row(a, t, d) == [abbreviation |-> a, term |-> t, definition |-> d]

SomeRows ==
    {Row("A", "t", ""), Row("A_", "t", ""), Row("A", "nan", "d"), Row("7", "t", ""),
     Row("long", "t", ""), Row("", "", "d"), Row("nan", "", "")}
=============================================================================
