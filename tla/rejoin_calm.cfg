SPECIFICATION CalmSpec
CONSTANTS
    Inputs = {i1, i2}
    Requests = {r1, r2}
    MaxGen = 4
    Nothing = Nothing
SYMMETRY Symmetry
INVARIANTS ReconnectedIsUsable NothingParkedForever NoRequestForgotten PromptsAreLive CredentialsFirst
CHECK_DEADLOCK FALSE
