SPECIFICATION FairSpec
CONSTANTS
    w1 = w1
    w2 = w2
    r1 = r1
    a1 = a1
    a2 = a2
    electrician = electrician
    plumber = plumber
    Workers <- TwoWorkers
    Requests <- OneRequest
    Apps <- OneApp
    SkillNames <- TwoSkills
    POOL_SIZE = 2
    MaxFaults = 2
INVARIANTS
    ClientsOutliveUsers
    IInv
PROPERTIES
    EveryWorkerServes
    EveryVerdictIsStored
