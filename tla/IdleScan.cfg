CONSTANTS
    Sessions = {s1, s2}
    Nobody = nobody
    IdleScanBatch = 1
    MaxSummaryHistory = 2
    MayFail = TRUE
    MaxMessages = 3
    MaxLives = 2
SPECIFICATION ScanSpec
INVARIANT ScanTypeOK
INVARIANT SummariesRight
PROPERTY EveryoneGetsATry
CHECK_DEADLOCK FALSE
