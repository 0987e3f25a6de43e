SPECIFICATION FairSpec
CONSTANTS
    Inputs = {i1, i2}
    Requests = {r1}
    MaxGen = 4
    Nothing = Nothing
INVARIANTS QueueHonest
CHECK_DEADLOCK FALSE
PROPERTY RejoinSettles
