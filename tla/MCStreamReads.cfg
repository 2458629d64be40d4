SPECIFICATION Spec
CONSTANTS
    r1 = r1
    r2 = r2
    e1 = e1
    c1 = c1
    tenant = tenant
    account = account
    object = object
    Wildcard = Wildcard
    NoEvent = NoEvent
    NoQuery = NoQuery
    MaxItems = 5
    Categories <- TheCategories
    Requests <- TheRequests
    Reads <- TheReads
    Ids <- TheIds
    EventIds <- TheEventIds
    Queries <- TheQueries
INVARIANTS
    TypeOK
    ReadIsSnapshot
    NotFoundOnlyIfAbsent
    ReadsAnsweredWrites
CHECK_DEADLOCK FALSE
