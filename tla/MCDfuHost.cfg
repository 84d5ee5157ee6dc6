SPECIFICATION FairHostSpec
CONSTANTS
    ERASE_OP = 8
    WRITE_OP = 2
    TRANSFER_SIZE = 4
    EP0_SIZE = 2
    AREA_SIZE = 16
    VECTOR_SIZE = 4
    MaxBlocks = 6
    ImageLens = {11, 16, 19}
    MaxFaults = 3
    Data <- MCData
    Old = Old
    Erased = Erased
    Torn = Torn
INVARIANTS
    DownloadedIsProgrammed
    BlocksAgree
PROPERTIES
    ImplementsPromise
    EventuallyDone
