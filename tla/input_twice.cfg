SPECIFICATION Spec
CONSTANTS
    Inputs = {i1, i2}
    Nothing = Nothing
    MaxTurns = 3
    MaxSlips = 0
    MaxChunk = 1
    MaxCancels = 1
SYMMETRY Symmetry
INVARIANTS NeverTwice
CHECK_DEADLOCK FALSE
