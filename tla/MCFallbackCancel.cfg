CONSTANTS
    groq = groq
    second = second
    Providers = {groq}
    Candidates <- OneCandidate
    Calls = {r1, r2}
    FallbackRequests = {r1, r2}
    FailureThreshold = 2
    Cooldown = 1
    HalfOpenMaxTrials = 1
    MaxAttempts = 3
    NoProvider = NoProvider
    Detached = Detached
SPECIFICATION MCSpec
INVARIANTS
    CancellationNeverOpens
CHECK_DEADLOCK FALSE
