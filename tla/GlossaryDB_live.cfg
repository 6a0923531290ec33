SPECIFICATION FairSpec
CONSTANTS
    Writers = {w1, w2}
    w1 = w1
    w2 = w2
    r1 = r1
    i1 = i1
    i2 = i2
    a = a
    b = b
    c = c
    d = d
    NoId = NoId
    Gone = Gone
    Untouched = Untouched
    None = None
    Ids <- MCIds
    Texts <- MCTexts
    Tables <- MCTables
    Jobs <- MCJobs
    Readers = {r1}
    MaxJobs = 2
    MaxItems = 3
    CanFail = FALSE
PROPERTY EveryRequestEnds
CHECK_DEADLOCK FALSE
