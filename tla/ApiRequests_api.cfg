SPECIFICATION Spec
CONSTANTS
    Fields = {"abbreviation", "term", "definition"}
    Null = "null"
    Blank = ""
    Long = {"xy"}
    i1 = i1
    i2 = i2
    Ids = {i1, i2}
    NoId = NoId
    Gone = Gone
    NoJob = NoJob
    Texts <- MCTexts
    Raw <- MCRaw
    Strip <- MCStrip
    Like <- MCLike
    Layers <- MCLayers
    Requests <- MCRequests
    Sheets <- MCSheets
    Tables <- MCTables
    MaxRequests = 2
    MaxTries = 2
    MaxItems = 3
INVARIANT TypeOK
INVARIANT FiltersMean
PROPERTY StatusContract
PROPERTY AnswersAreTrue
CHECK_DEADLOCK FALSE
