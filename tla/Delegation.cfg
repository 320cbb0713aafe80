SPECIFICATION FairSpec
CONSTANTS
    Children = {c1, c2}
    Forks = {}
    Sends = {m1}
    c1 = c1
    To <- MCTo
    initial = initial
    none = none
    RunLimit = 1
    InboxLimit = 1
    Permits = 1
    MaxEvents = 3
INVARIANTS NoticesAreTold StartsKept
PROPERTIES OwedArrives
CHECK_DEADLOCK FALSE
