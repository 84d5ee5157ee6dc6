SPECIFICATION Spec
CONSTANTS
    Size = 3
    MaxCount = 4
    MaxBytes = 7
    Uses <- SafeUses
INVARIANTS
    TypeOK
    InOrder
PROPERTY
    ImplementsFifo
