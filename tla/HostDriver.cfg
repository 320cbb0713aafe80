SPECIFICATION FairSpec
CONSTANTS
    p1 = p1
    p2 = p2
    d1 = d1
    s1 = s1
    s2 = s2
    none = none
    Free = Free
    Prompts = {p1, p2}
    Steerable = {p1}
    Deliveries = {d1}
    Stops = {s1}
    MaxUpsets = 2
INVARIANTS FollowedByOne 
PROPERTIES CancelReturns AcceptedRuns
CHECK_DEADLOCK FALSE
