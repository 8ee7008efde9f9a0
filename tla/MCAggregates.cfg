SPECIFICATION MCSpec
SYMMETRY MCSymmetry
CONSTANTS
    Jobs <- MCJobs
    BillingJobs <- MCBillingJobs
    Outcomes <- MCOutcomes
    Users = {"u1"}
    Workers = {w1, w2}
    JobAttempts = 2
    MaxStalls = 1
    Faults = {"acquire", "apply", "complete", "release", "stall", "crash"}
    MaxFaults = 2
    Nobody = Nobody
    Budget = 5
    ReservedTokens = 3
    BaselineDays = 3
    BaselineTokens = 3
    NoDocument = NoDocument
INVARIANTS
    TotalsExact
    AlertsExact
    LedgerSound
PROPERTIES
    DailyNeverGoesBack
    LedgerProtocol
    CompletedIsFinal
CHECK_DEADLOCK FALSE
