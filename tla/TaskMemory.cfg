CONSTANTS
    Turns = {t1, t2, t3}
    Tools = {calculator, weather}
    NoTurn = none
    MaxIter = 1
    MaxCalls = 2
SPECIFICATION Spec
SYMMETRY Symmetry
INVARIANT TypeOK
INVARIANT WholeTurns
INVARIANT FailuresCounted
PROPERTY NothingForgotten
CHECK_DEADLOCK FALSE
