SPECIFICATION Spec
CONSTANTS
    HeaderSize = 2
    BlockSize = 8
    Sizes = {5}
    MaxBatch = 1
    MaxItems = 2
    MaxFailures = 0
INVARIANT
    BlockEndIsReread
CHECK_DEADLOCK FALSE
