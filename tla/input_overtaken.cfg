SPECIFICATION Spec
CONSTANTS
    Inputs = {i1, i2}
    Nothing = Nothing
    MaxTurns = 2
    MaxSlips = 0
    MaxChunk = 3
    MaxCancels = 1
SYMMETRY Symmetry
INVARIANTS ActiveIsRunning
CHECK_DEADLOCK FALSE
