SPECIFICATION RacingReclaim
CONSTANTS
    Procs = {p1, p2, p3}
    Sessions = {s1}
    Ops = {o1, o2}
    Stored = {s1}
    MaxTries = 1
    Faults = FALSE
    NoProc = NoProc
    NoSession = NoSession
    NoOp = NoOp
SYMMETRY Symmetry
INVARIANTS WriterHoldsLock
CHECK_DEADLOCK FALSE
