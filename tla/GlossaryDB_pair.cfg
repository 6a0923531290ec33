SPECIFICATION Spec
CONSTANTS
    Writers = {w1, w2}
    w1 = w1
    w2 = w2
    i1 = i1
    i2 = i2
    a = a
    b = b
    c = c
    d = d
    NoId = NoId
    Gone = Gone
    Untouched = Untouched
    None = None
    Ids <- MCIds
    Texts <- MCTexts
    Tables <- MCTables
    Jobs <- MCJobs
    Readers = {}
    MaxJobs = 3
    MaxItems = 3
    CanFail = TRUE
INVARIANT TypeOK
PROPERTY KeepsThePromise
PROPERTY LoneWriterIsRight
PROPERTY RefreshRemovesTheRest
PROPERTY CopiesAreConcurrent
SYMMETRY WriterSymmetry
CHECK_DEADLOCK FALSE
