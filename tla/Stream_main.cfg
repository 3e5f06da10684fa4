SPECIFICATION FairSpec
CONSTANTS
    p1 = p1
    p2 = p2
    o1 = o1
    s1 = s1
    s2 = s2
    READY = READY
    MANUAL = MANUAL
    None = None
    Verdicts <- TwoVerdicts
    DEFAULT = MANUAL
    Pollers <- TwoPollers
    Officers <- OneOfficer
    Streams <- OneStream
    MaxFaults = 2
INVARIANTS
    StreamsAgree
    IInv
PROPERTIES
    PollingLearns
