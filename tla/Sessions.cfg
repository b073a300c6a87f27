CONSTANTS
    Backends = {"memory", "redis", "mysql"}
    Sessions = {s1}
    Turns = {t1, t2}
    Agents = {a1, a2}
    Unset = unset
    MaxMs = 2
    TTL = 2
    MaxTime = 3
    MaxRetries = 2
    MaxSaid = 2
    MaxFaults = 2
SPECIFICATION Spec
SYMMETRY Symmetry
INVARIANT TypeOK
INVARIANT ListedRight
PROPERTY KeepsSessions
CHECK_DEADLOCK FALSE
