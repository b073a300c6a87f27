CONSTANTS
    Turns = {t1, t2}
    Overlap = FALSE
    Disturbances = {"llm", "disabled"}
    Parallel = TRUE
    MaxParallel = 2
    MaxIter = 2
    MaxCalls = 2
    MaxMessages = 4
    MaxContext = 2
    ChanCap = 1
    StoreUsesCtx = TRUE
SPECIFICATION Spec
INVARIANT TypeOK
INVARIANT TurnOrder
INVARIANT ContextPaired
INVARIANT QuestionAsked
INVARIANT DoneMeansRemembered
SYMMETRY Symmetry
CHECK_DEADLOCK FALSE
