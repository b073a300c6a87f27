CONSTANTS
    Docs = {d1, d2}
    Requests = {r1, r2, r3}
    Nobody = nobody
    MaxPieces = 2
    Faults = {"parse", "embed", "vectors", "db", "gone", "meet"}
SPECIFICATION Spec
SYMMETRY Symmetry
INVARIANT TypeOK
INVARIANT LastRequestWins
INVARIANT NoStrayVector
INVARIANT NotLeftIndexing
INVARIANT CountersAgree
CHECK_DEADLOCK FALSE
