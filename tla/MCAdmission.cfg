CONSTANTS
    Addresses = {"i1"}
    Accounts = {"c1"}
    Users = {"u1", "u2"}
    Attempts = {"a1", "a2"}
    Window = 2
    LoginLimit = 1
    UserLimit = 1
    OrgLimit = 2
    Checks = {"j1", "j2"}
    HealthTtl = 2
    Chats = {"r1"}
    Prompts <- MCPrompts
    Thresholds <- MCThresholds
    PlaceholderLength <- MCPlaceholderLength
    Nothing = Nothing
SPECIFICATION MCSpec
INVARIANTS
    BurstBounded
    MaskingExact
PROPERTIES
    LockoutEnds
    OutageVerdictExpires
CHECK_DEADLOCK FALSE
