SPECIFICATION Spec
CONSTANTS
    ERASE_OP = 2
    WRITE_OP = 1
    TRANSFER_SIZE = 1
    EP0_SIZE = 1
    AREA_SIZE = 4
    VECTOR_SIZE = 1
    MaxBlocks = 5
    Data = {b}
    Old = Old
    Erased = Erased
    Torn = Torn
INVARIANTS
    TypeOK
    ProgramsOnlyErased
    StaysInArea
    AddrFollowsBlocks
