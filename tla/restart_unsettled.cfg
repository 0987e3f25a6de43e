CONSTANTS
    MaxProcs = 3
    MaxPasses = 2
    Texts = {t1}
    Risks = {"unsettled"}
SPECIFICATION Spec
INVARIANT InputsSurvive
CHECK_DEADLOCK FALSE
