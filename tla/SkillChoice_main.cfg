SPECIFICATION FairSpec
CONSTANTS
    u1 = u1
    s1 = s1
    s2 = s2
    r1 = r1
    r2 = r2
    None = None
    Users <- MCUsers
    Skills <- TwoSkills
    Seeded <- OneSkill
    Requests <- TwoRequests
    MAX_ATTEMPTS = 2
    COOLDOWN_DAYS = 2
    MaxTime = 2
INVARIANTS
    AttemptsContiguous
    CooldownOfPredecessor
    IInv
PROPERTIES
    ImplementsLedger
    EveryRequestAnswered
    InactiveStaysOut
