SPECIFICATION FairSpec
CONSTANTS
    all = all
    second = second
    MaxItems = 2
    MaxLoops = 2
    Subs <- TheSubs
    Leavers <- TheLeavers
    Selected <- TheSelected
INVARIANTS
    TypeOK
    
    SubscribedIsTracked
PROPERTIES
    SilentOnceDisposed
    
CHECK_DEADLOCK FALSE
