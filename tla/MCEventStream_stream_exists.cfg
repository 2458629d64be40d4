SPECIFICATION Spec
CONSTANTS
    t = t
    x = x
    o = o
    e1 = e1
    e2 = e2
    NoRequest = NoRequest
    NoCall = NoCall
    NoEvent = NoEvent
    Wildcard = Wildcard
    Categories = {t, x, o}
    Requests = {r1, r2}
    Faulty = {}
    Ids <- MCIds
    EventIds = {e1, e2}
    Calls <- SafetyCalls
CHECK_DEADLOCK FALSE
INVARIANTS
    StreamExistsNeedsStream
