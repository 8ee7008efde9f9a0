CONSTANTS
    Jobs = {a1}
    BillingJobs = {}
    Workers = {w1}
    Scanners = {s1}
    RecoveryBatchSize = 1
    JobAttempts = 3
    MaxStalls = 1
    Faults = {"acquire", "apply", "complete", "release", "crash", "publish", "scan", "stall"}
    MaxFaults = 3
    Nobody = Nobody
SPECIFICATION RecoveryLiveSpec
PROPERTIES
    PublicationRecovered
CHECK_DEADLOCK FALSE
