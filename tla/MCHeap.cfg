SPECIFICATION Spec
CONSTANTS
    Regions <- MCRegions
    Mcb = 3
    Sizes = {1, 4}
    Alignments = {1, 2, 8}
    MaxLive = 3
INVARIANTS BuffersAreApart NothingLost Coalesced FramesReturn
CHECK_DEADLOCK FALSE
