SPECIFICATION AnsweringSpec
CONSTANTS
    Root = Root
    Child = Child
    Grandchild = Grandchild
    Nobody = Nobody
    Unread = Unread
    Threads <- Pair
    Parent <- PairParent
    Sessions = {Root}
    Limit = 2
    MaxMsgs = 2
    MaxGen = 2
PROPERTY OrphansOnly
CHECK_DEADLOCK FALSE
