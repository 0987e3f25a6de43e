SPECIFICATION FairSpec
CONSTANTS
    Root = Root
    Child = Child
    Grandchild = Grandchild
    Nobody = Nobody
    Unread = Unread
    Threads <- Family
    Parent <- FamilyParent
    Sessions = {Root}
    Limit = 1
    MaxMsgs = 2
    MaxGen = 2
INVARIANTS InOrder NoRequestLost
PROPERTIES RefusedAreOrphans LookupsEnd
CHECK_DEADLOCK FALSE
