SPECIFICATION Spec
CONSTANTS
    Inputs = {i1}
    Requests = {r1}
    MaxGen = 4
    Nothing = Nothing

INVARIANT CredentialsFirst
CHECK_DEADLOCK FALSE
