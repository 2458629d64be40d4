SPECIFICATION Spec
CONSTANTS
    HeaderSize = 2
    BlockSize = 8
    Sizes = {1}
    MaxBatch = 2
    MaxItems = 3
    MaxFailures = 1
INVARIANT
    LastPositionIsLast
CHECK_DEADLOCK FALSE
