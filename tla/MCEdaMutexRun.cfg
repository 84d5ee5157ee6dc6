SPECIFICATION FairMutexSpec
CONSTANTS
    low = low
    mid = mid
    high = high
    Edas = {low, mid, high}
    Evts = {"SYNC", "USER"}
    QueueCnt = 2
    priority <- MCTwoLow
    NodeCnt = 9
    MaxPosts = 4
    MaxSets = 0
    MaxEnters = 4
    HoldsAcross = FALSE
    None = None
PROPERTY OpportunityToRun
CHECK_DEADLOCK FALSE
