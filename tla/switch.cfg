SPECIFICATION LiveSpec
CONSTANTS
    Attempts = {a1, a2}
    Stored = {s1}
    Initial = Initial
    Nobody = Nobody
    MaxInputs = 1
    MaxTurns = 1
INVARIANTS NothingLeaks OpenIsClaimed
PROPERTIES WorkIsKept ReplacedCloses
CHECK_DEADLOCK FALSE
