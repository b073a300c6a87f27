CONSTANTS
    Calls = {c1, c2, c3, c4, c5}
    Keys = {city, note}
    Single = {city}
    Values = {x, y}
    Nothing = nothing
    Confidences = {0, 1, 2}
    WriteThreshold = 1
    MaxEntriesPerUser = 2
    Serial = TRUE
SPECIFICATION Spec
SYMMETRY Symmetry
INVARIANT TypeOK
INVARIANT LatestWins
INVARIANT QuotaKept
PROPERTY EvictsTheLeast
CHECK_DEADLOCK FALSE
