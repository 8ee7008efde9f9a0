SPECIFICATION MCSpec
CONSTANTS
    Worker = {w1, w2}
    Client = {c1, c2}
    Freshness = 2
    Requests = {r1}
    Keys = {k1}
    KeyOf <- MCKeyOf
    FingerprintOf <- MCFingerprintOf
    NoRecord = NoRecord
    MaxExpiries = 1
    MaxFaults = 4
INVARIANTS
    OrderlyShutdown
    HealthHonest
PROPERTIES
    ShutdownCompletes
    HandlerEnds
CHECK_DEADLOCK FALSE
