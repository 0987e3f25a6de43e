SPECIFICATION Spec
CONSTANTS
    Inputs = {i1}
    Requests = {r1}
    MaxGen = 3
    Nothing = Nothing

INVARIANT NothingParkedForever
CHECK_DEADLOCK FALSE
