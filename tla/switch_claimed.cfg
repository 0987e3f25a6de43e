SPECIFICATION Spec
CONSTANTS
    Attempts = {a1, a2}
    Stored = {s1}
    Initial = Initial
    Nobody = Nobody
    MaxInputs = 0
    MaxTurns = 0
SYMMETRY Symmetry
INVARIANT WriterIsClaimed
CHECK_DEADLOCK FALSE
