SPECIFICATION Spec
CONSTANTS
    Asks = {r1, r2}
    None = None
    MaxRounds = 1
INVARIANTS ChildSurvives
CHECK_DEADLOCK FALSE
