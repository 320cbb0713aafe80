SPECIFICATION Spec
CONSTANTS
    f1 = f1
    f2 = f2
    f3 = f3
    s1 = s1
    s2 = s2
    Messages <- TwoFollowups
    Steerable <- Nothing
    Removable <- TwoFollowups
    Approvals = FALSE
    MaxCrashes = 0
    MaxPauses = 0
INVARIANT NoInputLost
CHECK_DEADLOCK FALSE
