CONSTANTS
    Users = {"anna", "ben", "lead"}
    Teams = {"team"}
    Requests = {q1, q2}
    Sessions = {"s1"}
    InitialUsers <- MCInitialUsers
    Thresholds = {1, 2, 3}
    Mutations <- MCMutations
    MaxAudit = 3
    MaxAuditFaults = 1
    NoTeam = "none"
    Nothing = Nothing
    Jobs = {b1}
    BillingJobs = {b1}
    Workers = {q1, q2}
    Scanners = {s1, s2}
    RecoveryBatchSize = 1
    JobAttempts = 3
    MaxStalls = 1
    Faults = {"apply", "crash", "publish", "scan"}
    MaxFaults = 2
    Nobody = Nobody
SPECIFICATION MCSpec
SYMMETRY MCSymmetry
INVARIANTS
    RecoverySound
    ActiveAdminRemains
    ConfigurationConsistent
    AuditExplainsState
CHECK_DEADLOCK FALSE
