SPECIFICATION FairMutexSpec
CONSTANTS
    low = low
    mid = mid
    high = high
    Edas = {low, mid, high}
    Evts = {"SYNC", "USER"}
    QueueCnt = 3
    priority <- MCPriority
    NodeCnt = 9
    MaxPosts = 4
    MaxSets = 0
    MaxEnters = 4
    HoldsAcross = TRUE
    None = None
INVARIANTS OneOwner NoWaiterForgotten NoStraySync
PROPERTY WaitersGetIt
CHECK_DEADLOCK FALSE
