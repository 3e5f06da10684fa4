SPECIFICATION FairSpec
CONSTANTS
    u1 = u1
    u2 = u2
    f1 = f1
    f2 = f2
    f3 = f3
    n1 = n1
    n2 = n2
    r1 = r1
    r2 = r2
    None = None
    Users <- TwoUsers
    Faces <- TwoFaces
    Similar <- OnePerson
    Numbers <- TwoNumbers
    Requests <- TwoRequests
    MaxFaults = 1
INVARIANTS
    IInv
    EmbeddingMatchesHash
    OneAccountPerNumber
    TokenIsEarned
PROPERTIES
    EveryRequestAnswered
