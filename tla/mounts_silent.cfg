SPECIFICATION SilentCreates
CONSTANTS
    Procs = {p1, p2}
    Sessions = {s1}
    Ops = {o1, o2}
    Stored = {}
    MaxTries = 0
    Faults = FALSE
    NoProc = NoProc
    NoSession = NoSession
    NoOp = NoOp
SYMMETRY Symmetry
INVARIANTS LedgerExclusive
CHECK_DEADLOCK FALSE
