SPECIFICATION LiveSpec
CONSTANTS
    Calls = {c1, c2}
    Users = {u1, u2}
    MaxRestarts = 3
    MaxGen = 3
    Handshake = Handshake
    Nobody = Nobody
INVARIANTS OneChild AnswerIsOwn PermanentOnlyWhenSpent
PROPERTIES KeepsContract LossResolved EveryCallSettles ClosedChildReaped
CHECK_DEADLOCK FALSE
