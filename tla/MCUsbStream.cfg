SPECIFICATION FairUsbSpec
CONSTANTS
    EpSize = 4
    Pipes <- SomePipes
INVARIANTS
    TransfersHoldTheirPart
    NobodyIsUntold
PROPERTIES
    PacketsAreTaken
    BytesAreSent
CHECK_DEADLOCK FALSE
