SPECIFICATION Spec
CONSTANTS
    u1 = u1
    s1 = s1
    s2 = s2
    r1 = r1
    r2 = r2
    None = None
    Users <- MCUsers
    Skills <- OneSkill
    Seeded <- OneSkill
    Requests <- OneRequest
    MAX_ATTEMPTS = 3
    COOLDOWN_DAYS = 2
    MaxTime = 1
PROPERTIES
    CooldownAfterEachAttempt
