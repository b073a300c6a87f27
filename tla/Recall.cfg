CONSTANTS
    Turns = {t1, t2}
    Facts = {1, 2}
    Texts = {x, y}
    Scores = {0, 1, 2}
    Freshness = {0, 1}
    MinScore = 1
    MinSimilarity = 1
    FactTopK = 1
    VectorTopK = 2
    Length <- MCLength
    Budget = 4
    QueueCap = 1
    BatchCap = 2
    MaxVectors = 2
SPECIFICATION FairSpec
INVARIANT TypeOK
INVARIANT UsesCounted
INVARIANT InjectsTheBest
PROPERTY NothingHangs
CHECK_DEADLOCK FALSE
