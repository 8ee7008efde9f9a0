CONSTANTS
    Jobs = {}
    BillingJobs = {}
    Workers = {}
    Scanners = {}
    RecoveryBatchSize = 1
    JobAttempts = 3
    MaxStalls = 1
    Faults = {}
    MaxFaults = 0
    Nobody = Nobody
    Users = {"anna", "ben", "lead"}
    Teams = {"team"}
    Requests = {q1, q2}
    Sessions = {"s1"}
    InitialUsers <- MCInitialUsers
    Thresholds = {1, 2, 3}
    Mutations <- MCMutations
    MaxAudit = 3
    MaxAuditFaults = 1
    NoTeam = "none"
    Nothing = Nothing
SPECIFICATION MCSpec
SYMMETRY MCSymmetry
INVARIANT RevokedSessionIsGone
CHECK_DEADLOCK FALSE
