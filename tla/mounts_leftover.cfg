SPECIFICATION CalmSpec
CONSTANTS
    Procs = {p1}
    Sessions = {s1}
    Ops = {o1}
    Stored = {s1}
    MaxTries = 1
    Faults = TRUE
    NoProc = NoProc
    NoSession = NoSession
    NoOp = NoOp
SYMMETRY Symmetry
INVARIANTS LeftoverReclaimable
CHECK_DEADLOCK FALSE
