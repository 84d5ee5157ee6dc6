SPECIFICATION FairSpec
CONSTANTS
    Edas = {task, usb}
    Levels = {0, 1, 2}
    MaxPosts = 3
    None = None

PROPERTY YieldRunsAgain
CHECK_DEADLOCK FALSE
