SPECIFICATION CalmSpec
CONSTANTS
    Procs = {p1, p2}
    Sessions = {s1, s2}
    Ops = {o1, o2}
    Stored = {s1}
    MaxTries = 0
    Faults = TRUE
    NoProc = NoProc
    NoSession = NoSession
    NoOp = NoOp
SYMMETRY Symmetry
INVARIANTS WriterHoldsLock LedgerExclusive DrivenIsPublished
PROPERTIES ImplementsTable
CHECK_DEADLOCK FALSE
