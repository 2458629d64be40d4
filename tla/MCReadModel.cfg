SPECIFICATION RmFairSpec
CONSTANTS
    tenant = tenant
    webhooks = webhooks
    g1 = g1
    r1 = r1
    r2 = r2
    r3 = r3
    Earlier = r3
    GuidEmpty = GuidEmpty
    NoRequest = NoRequest
    NoCall = NoCall
    NoEvent = NoEvent
    NoCommand = NoCommand
    Wildcard = Wildcard
    Tenant = tenant
    Namespace <- TheNamespace
    Categories <- TheCategories
    Guid <- TheGuids
    Requests = {r1, r2, r3}
    Faulty = {r1}
    Ids <- TheIds
    EventIds <- TheEventIds
    Calls <- TheCalls
    Stored <- TheStored
    Commands <- TheCommands
CHECK_DEADLOCK FALSE
INVARIANTS
    RmTypeOK
    StreamBeginsWithCreation
    
    ShownIsRestored
    ShownIsStored
PROPERTIES
    EveryCallAnswered
    DisposeEndsLoop
    EverySendEnds
    
