SPECIFICATION AppSpec
CONSTANTS
    tenant = tenant
    webhooks = webhooks
    g1 = g1
    r1 = r1
    r2 = r2
    r3 = r3
    GuidEmpty = GuidEmpty
    NoRequest = NoRequest
    NoCall = NoCall
    NoEvent = NoEvent
    NoCommand = NoCommand
    Wildcard = Wildcard
    Tenant = tenant
    Namespace <- TheNamespace
    Categories <- TheCategories
    Guid <- TheGuids
    Requests = {r1, r2}
    Faulty = {}
    Ids <- TheIds
    EventIds <- TheEventIds
    Calls <- TheCalls
    Commands <- TheCommands
CHECK_DEADLOCK FALSE
INVARIANTS
    AckedExactIsRecorded
