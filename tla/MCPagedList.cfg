SPECIFICATION FairSpec
CONSTANTS
    poller = poller
    scan = scan
    PageSize = 2
    MaxItems = 5
    Scans <- TheScans
    Pollers <- ThePollers
INVARIANTS
    TypeOK
    YieldsInOrder
    GapsAreTorn
    ScanIsComplete
PROPERTY
    PollerCatchesUp
CHECK_DEADLOCK FALSE
