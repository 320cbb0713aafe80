SPECIFICATION FairSpec
CONSTANTS
    MaxRules = 2
    KindsUsed <- BothKinds
    Delays = {1}
    Period = 2
    MaxTime = 4
    MaxUserTurns = 1
    MaxFaults = 1
    MaxCrashes = 1
INVARIANT RemindersKept
PROPERTIES DispatchesAreTrue DueIsServed
CHECK_DEADLOCK FALSE
