SPECIFICATION InputsSpec
CONSTANTS
    f1 = f1
    f2 = f2
    f3 = f3
    s1 = s1
    s2 = s2
    Messages <- AllInputs
    Steerable <- Steering
    Removable <- ThreeFollowups
    Approvals = TRUE
    MaxCrashes = 2
    MaxPauses = 2
    h1 = h1
    h2 = h2
    r1 = r1
    r2 = r2
    r3 = r3
    NoHost = NoHost
    NoRequest = NoRequest
    Hosts <- TwoHosts
    Requests <- ThreeRequests
    HostOf <- Served
    MaxExits = 2
INVARIANTS ClaimsAreSound SingleWriter
PROPERTIES LedgerInOrder OwedIsServed
CHECK_DEADLOCK FALSE
