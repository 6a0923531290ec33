SPECIFICATION Spec
CONSTANTS
    Cells <- MCCells
    Blank = ""
    Spaces <- MCSpaces
    Strip <- MCStrip
    Long <- MCLong
    Numbers <- MCNumbers
    Rows <- SomeRows
    MaxRows = 3
    MaxRounds = 2
INVARIANT TypeOK
INVARIANT CleaningIsExact
INVARIANT ErrorsAreTrue
INVARIANT TableFollowsSheet
PROPERTY KeptElementsStay
PROPERTY DuplicatesNeedPadding
CHECK_DEADLOCK FALSE
