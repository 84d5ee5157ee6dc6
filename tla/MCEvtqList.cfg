SPECIFICATION FairSpec
CONSTANTS
    low = low
    high1 = high1
    high2 = high2
    Edas = {low, high1, high2}
    Evts = {v}
    QueueCnt = 2
    priority <- MCPriority
    NodeCnt = 3
    MaxPosts = 4
    MaxSets = 3
    None = None
INVARIANTS TypeOK ReadyIsLinked ReadyHasEvents NoReentry RaisedForHandler
PROPERTY EventsAreDispatched
CHECK_DEADLOCK FALSE
