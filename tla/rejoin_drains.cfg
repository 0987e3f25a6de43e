SPECIFICATION DrainSpec
CONSTANTS
    Inputs = {i1, i2}
    Requests = {r1}
    MaxGen = 3
    Nothing = Nothing

PROPERTY QueuedIsSettled
CHECK_DEADLOCK FALSE
