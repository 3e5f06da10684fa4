SPECIFICATION FairSpec
CONSTANTS
    r1 = r1
    r2 = r2
    r3 = r3
    c1 = c1
    c2 = c2
    None = None
    Requests <- TwoRequests
    OTP_MAX_WRONG = 2
    MAX_SENDS = 2
    Codes <- OneCode
    MaxFaults = 1
INVARIANTS
    IInv
    GuessesBounded
PROPERTIES
    RateLimitLifts
    EveryRequestAnswered
