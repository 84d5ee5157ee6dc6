SPECIFICATION FairSyncSpec
CONSTANTS
    Edas = {a, b, c}
    Evts <- MCEvts
    QueueCnt = 1
    priority <- MCPriority
    NodeCnt = 9
    MaxPosts = 3
    MaxSets = 0
    MaxValue = 2
    MaxOps = 4
    None = None
INVARIANTS UnitsConserved WaitsAreClean NobodyWaitsInVain
PROPERTIES TimedWaitEnds ToldWaitEnds
CHECK_DEADLOCK FALSE
