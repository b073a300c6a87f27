CONSTANTS
    ChunkSize = 3
    ChunkOverlap = 2
    MaxUnits = 4
    UnitRunes = {1, 2, 5}
    Widths = {1, 3}
    TopK = 2
    Budgets = {0, 4}
SPECIFICATION FairSpec
INVARIANT TypeOK
INVARIANT SizeKept
INVARIANT TextCovered
INVARIANT BudgetRight
PROPERTY Ends
CHECK_DEADLOCK FALSE
