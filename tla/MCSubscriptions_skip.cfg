SPECIFICATION FairSpec
CONSTANTS
    all = all
    second = second
    MaxItems = 2
    MaxLoops = 1
    Subs <- TheSubs
    Leavers <- TheLeavers
    Selected <- TheSelected
PROPERTY
    RemainingSubscriberIsServed
CHECK_DEADLOCK FALSE
