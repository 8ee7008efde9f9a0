CONSTANTS
    Jobs = {b1}
    BillingJobs = {b1}
    Workers = {w1}
    Scanners = {s1}
    RecoveryBatchSize = 1
    JobAttempts = 3
    MaxStalls = 1
    Faults = {"crash"}
    MaxFaults = 1
    Nobody = Nobody
SPECIFICATION RecoveryLiveSpec
PROPERTIES
    CrashIsRetried
CHECK_DEADLOCK FALSE
