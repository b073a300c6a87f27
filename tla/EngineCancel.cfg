CONSTANTS
    Turns = {t1, t2}
    Overlap = FALSE
    Disturbances = {"cancel"}
    Parallel = TRUE
    MaxParallel = 2
    MaxIter = 1
    MaxCalls = 1
    MaxMessages = 20
    MaxContext = 10
    ChanCap = 1
    StoreUsesCtx = TRUE
SPECIFICATION Spec
INVARIANT ContextPaired
CHECK_DEADLOCK FALSE
