SPECIFICATION Spec
CONSTANTS
    Inputs = {i1, i2, i3}
    Nothing = Nothing
    MaxTurns = 2
    MaxSlips = 0
    MaxChunk = 2
    MaxCancels = 1
SYMMETRY Symmetry
INVARIANTS TypeOK NoInputForgotten RunsOnce DroppedNeverRan GoneStaysGone ConfirmedGone OneAtATime UrgentFirst RestIsSettled
CHECK_DEADLOCK FALSE
