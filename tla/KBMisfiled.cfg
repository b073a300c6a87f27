CONSTANTS
    Docs = {d1}
    Requests = {r1}
    Nobody = nobody
    MaxPieces = 2
    Faults = {"embed"}
SPECIFICATION Spec
INVARIANT VectorOfItsChunk
CHECK_DEADLOCK FALSE
