CONSTANTS
    Jobs = {a1}
    BillingJobs = {}
    Workers = {w1}
    Scanners = {s1, s2}
    RecoveryBatchSize = 1
    JobAttempts = 3
    MaxStalls = 1
    Faults = {"crash"}
    MaxFaults = 2
    Nobody = Nobody
SPECIFICATION RecoveryLiveSpec
PROPERTIES
    FailedIsFinal
CHECK_DEADLOCK FALSE
