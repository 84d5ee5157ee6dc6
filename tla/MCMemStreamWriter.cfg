SPECIFICATION Spec
CONSTANTS
    Size = 3
    MaxCount = 4
    MaxBytes = 7
    Uses <- WriterPreempts
INVARIANT
    InOrder
