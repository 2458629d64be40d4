SPECIFICATION Spec
CONSTANTS
    poller = poller
    scan = scan
    PageSize = 2
    MaxItems = 5
    Scans <- TheScans
    Pollers <- ThePollers

INVARIANT
    PollerMissesNothing
CHECK_DEADLOCK FALSE
