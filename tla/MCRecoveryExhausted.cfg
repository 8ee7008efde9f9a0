CONSTANTS
    Jobs = {a1}
    BillingJobs = {}
    Workers = {w1}
    Scanners = {s1}
    RecoveryBatchSize = 1
    JobAttempts = 3
    MaxStalls = 1
    Faults = {"publish", "scan"}
    MaxFaults = 5
    Nobody = Nobody
SPECIFICATION RecoveryLiveSpec
PROPERTIES
    ExhaustedBecomesFailed
CHECK_DEADLOCK FALSE
