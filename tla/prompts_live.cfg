SPECIFICATION LiveSpec
CONSTANTS
    Asks = {r1}
    None = None
    MaxRounds = 1
INVARIANTS TypeOK NeverMoreThanOffered OneAnswer
PROPERTIES TimedEnds
CHECK_DEADLOCK FALSE
