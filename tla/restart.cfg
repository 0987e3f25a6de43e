CONSTANTS
    MaxProcs = 3
    MaxPasses = 2
    Texts = {t1, t2}
    Risks = {}
SPECIFICATION Spec
SYMMETRY Swaps
INVARIANTS InputsSurvive ShownOnce NoneStranded ScreenRestored
CHECK_DEADLOCK FALSE
