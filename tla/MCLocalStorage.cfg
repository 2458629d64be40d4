SPECIFICATION FairSpec
CONSTANTS
    HeaderSize = 2
    BlockSize = 8
    Sizes = {1, 3, 4}
    MaxBatch = 2
    MaxItems = 4
    MaxFailures = 1
INVARIANTS
    TypeOK
    NoTornMessage
    AnsweredSurvives
    ScanReadsAnswered
    PositionNamesItem
    PollerInOrder
PROPERTY
    PollerCatchesUp
CHECK_DEADLOCK FALSE
