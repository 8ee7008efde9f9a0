SPECIFICATION MCSpec
SYMMETRY MCSymmetry
CONSTANTS
    Jobs <- MCJobs
    BillingJobs <- MCBillingJobs
    Outcomes <- MCOutcomes
    Users = {"u1"}
    Workers = {w1, w2}
    JobAttempts = 2
    MaxStalls = 1
    Faults = {}
    MaxFaults = 0
    Nobody = Nobody
    Budget = 5
    ReservedTokens = 3
    BaselineDays = 3
    BaselineTokens = 3
    NoDocument = NoDocument
CHECK_DEADLOCK FALSE
INVARIANT CompletedJobIsCounted
