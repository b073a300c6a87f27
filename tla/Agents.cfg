CONSTANTS
    u1 = u1
    u2 = u2
    m1 = m1
    Users = {u1, u2}
    Ids = {a1, a2}
    Models = {m1}
    None = none
    Requests = {r1, r2, r3}
    Inputs <- MCInputs
    MaxLag = 1
    MaxFaults = 1
SPECIFICATION Spec
SYMMETRY Symmetry
INVARIANT TypeOK
INVARIANT EditsKept
INVARIANT RunsAsAllowed
INVARIANT DefaultRight
CHECK_DEADLOCK FALSE
