SPECIFICATION Spec
CONSTANTS
    Inputs = {i1, i2}
    Nothing = Nothing
    MaxTurns = 3
    MaxSlips = 1
    MaxChunk = 3
    MaxCancels = 2
SYMMETRY Symmetry
INVARIANTS RunsOnce DroppedNeverRan GoneStaysGone ConfirmedGone RestIsSettled
CHECK_DEADLOCK FALSE
