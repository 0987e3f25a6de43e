SPECIFICATION FaultySpec
CONSTANTS
    Procs = {p1, p2}
    Sessions = {s1}
    Ops = {o1}
    Stored = {}
    MaxTries = 0
    Faults = TRUE
    NoProc = NoProc
    NoSession = NoSession
    NoOp = NoOp
PROPERTY DeadRecordPruned
CHECK_DEADLOCK FALSE
