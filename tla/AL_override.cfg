SPECIFICATION FairSpec
CONSTANTS
    u1 = u1
    a1 = a1
    a2 = a2
    s1 = s1
    s2 = s2
    r1 = r1
    r2 = r2
    p1 = p1
    p2 = p2
    None = None
    Users <- MCUsers
    Apps <- OneApp
    Owner <- MCOwner
    Sessions <- OneSession
    Requests <- OneRequest
    Pollers <- TwoPollers
    MLVerdicts <- OnlyReady
    Overrides <- OnlyReady
    MLMayFail = TRUE
    MaxFaults = 1
    MaxInbox = 1
INVARIANTS
    CompletedMeansCooldown
    VerdictOnRecord
    NoLockCycle
PROPERTIES
    ProcessingEnds
