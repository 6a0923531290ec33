SPECIFICATION Spec
CONSTANTS
    Ids = {1, 2, 3}
    Contents <- MCContents
    Limits = {0, 1, 2}
    MaxWrites = 1
INVARIANT TypeOK
INVARIANT ListMissesNothing
INVARIANT ListRepeatsNothing
INVARIANT SearchShowsEachOnce
INVARIANT SearchBestFirst
INVARIANT TotalsMatchTheWalk
