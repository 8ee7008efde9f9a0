CONSTANTS
    k1 = k1
    Requests = {r1, r2}
    Keys = {k1}
    KeyOf <- MCKeyOf
    FingerprintOf <- MCFingerprintOf
    NoRecord = NoRecord
    MaxExpiries = 1
    MaxFaults = 1
SPECIFICATION Spec
PROPERTIES
    DisconnectNotLoggedFailed
CHECK_DEADLOCK FALSE
