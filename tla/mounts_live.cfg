SPECIFICATION LiveSpec
CONSTANTS
    Procs = {p1, p2}
    Sessions = {s1}
    Ops = {o1}
    Stored = {s1}
    MaxTries = 1
    Faults = FALSE
    NoProc = NoProc
    NoSession = NoSession
    NoOp = NoOp
PROPERTY ClaimSurvivesCrash
CHECK_DEADLOCK FALSE
