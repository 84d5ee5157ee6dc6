SPECIFICATION FairSpec
CONSTANTS
    Edas = {task, usb}
    Levels = {0, 1, 2}
    MaxPosts = 4
    None = None
INVARIANTS TypeOK NoReentry CurIsRunning AcceptedKept OvertakenByOne
PROPERTY PendingIsDispatched
CHECK_DEADLOCK FALSE
