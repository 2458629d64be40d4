SPECIFICATION Spec
CONSTANTS
    t = t
    x = x
    o = o
    e1 = e1
    e2 = e2
    NoRequest = NoRequest
    NoCall = NoCall
    NoEvent = NoEvent
    Wildcard = Wildcard
    Categories = {t, x, o}
    Requests = {r1, r2, r3}
    Faulty = {r1, r2, r3}
    Ids <- MCIds
    EventIds = {e1, e2}
    Calls <- SafetyCalls
SYMMETRY Symmetry
CHECK_DEADLOCK FALSE
INVARIANTS
    TypeOK
    PositionsContiguous
    StreamsCreatedOnce
    EventsRecordedOnce
    WrittenAtExpectedVersion
    RefusedWritesNothing
    AckedIsRecorded
    OkCarriesLastPosition
PROPERTIES
    AnsweredOnce
    ImplementsStreamLog
