CONSTANTS
    groq = groq
    second = second
    Providers = {groq, second}
    Candidates <- TwoCandidates
    Calls = {r1, r2, r3, r4}
    FallbackRequests = {r1, r2}
    FailureThreshold = 2
    Cooldown = 2
    HalfOpenMaxTrials = 2
    MaxAttempts = 2
    NoProvider = NoProvider
    Detached = Detached
SPECIFICATION MCSpec
INVARIANTS
    FallbackSound
    CircuitSound
PROPERTIES
    CallsStayInOrder
    FallbackEnds
    NeverWedged
CHECK_DEADLOCK FALSE
