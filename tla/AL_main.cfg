SPECIFICATION Spec
CONSTANTS
    u1 = u1
    a1 = a1
    a2 = a2
    s1 = s1
    s2 = s2
    r1 = r1
    r2 = r2
    p1 = p1
    p2 = p2
    None = None
    Users <- MCUsers
    Apps <- TwoApps
    Owner <- MCOwner
    Sessions <- TwoSessions
    Requests <- TwoRequests
    Pollers <- OnePoller
    MLVerdicts <- OnlyFraud
    Overrides <- NoOverrides
    MLMayFail = FALSE
    MaxFaults = 0
    MaxInbox = 1
SYMMETRY Symmetric
INVARIANTS
    IInv
    PendingHasOpenSession
PROPERTIES
    ImplementsAssessment
