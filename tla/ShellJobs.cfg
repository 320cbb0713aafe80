SPECIFICATION MCSpec
CONSTANTS
    j1 = j1
    j2 = j2
    o1 = o1
    k1 = k1
    w1 = w1
    none = none
    NoJob = none
    Jobs = {j1, j2}
    Owners = {o1}
    Kinds = {"bash"}
    OwnerOf <- MCOwner
    KindOf <- MCKind
    Killers = {k1}
    Waiters = {w1}
    Outcomes = {"Completed", "Killed", "Failed"}
    MaxConcurrent = 1
    MaxRetained = 1
    MaxOutput = 1
INVARIANTS RegistryKept ReportedIsOver
PROPERTIES FirstOutcomeWins ReleasedEnds ShutdownReturns
CHECK_DEADLOCK FALSE
