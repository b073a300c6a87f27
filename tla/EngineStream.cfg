CONSTANTS
    Turns = {t1}
    Overlap = TRUE
    Disturbances = {"save", "load", "llm", "panic", "crash", "delete", "disabled", "cancel"}
    Parallel = TRUE
    MaxParallel = 2
    MaxIter = 2
    MaxCalls = 2
    MaxMessages = 2
    MaxContext = 1
    ChanCap = 2
    StoreUsesCtx = TRUE
SPECIFICATION FairSpec
INVARIANT NoSilentEnd
PROPERTY KeepsPromise
PROPERTY NeverStuck
CHECK_DEADLOCK FALSE
