SPECIFICATION Spec
CONSTANTS
    Asks = {r1, r2}
    None = None
    MaxRounds = 1
INVARIANTS PanelIsHonest ToldIsSent NoneForgotten
SYMMETRY Symmetry
CHECK_DEADLOCK FALSE
