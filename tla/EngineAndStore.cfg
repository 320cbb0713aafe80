SPECIFICATION MCSpec
CONSTANTS
    q = q
    a = a
    b = b
    Calls <- ThreeCalls
    Questions <- OneQuestion
    MaxTurns = 2
    StepLimit <- TwoAndOne
    MaxCrashes = 1
    p1 = p1
    p2 = p2
    Nobody = Nobody
    Handles <- TwoHandles
    MaxAppends = 3
    MaxLosses = 1
SYMMETRY Alike
INVARIANTS JournalKept CallsKept FileKept
PROPERTIES ImplementsAppendLog
