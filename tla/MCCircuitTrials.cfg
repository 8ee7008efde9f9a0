CONSTANTS
    groq = groq
    second = second
    Providers = {groq, second}
    Candidates <- TwoCandidates
    Calls = {r1, r2, r3}
    FallbackRequests = {}
    FailureThreshold = 1
    Cooldown = 1
    HalfOpenMaxTrials = 1
    MaxAttempts = 2
    NoProvider = NoProvider
    Detached = Detached
SPECIFICATION MCSpec
INVARIANTS
    AtMostMaxTrials
CHECK_DEADLOCK FALSE
