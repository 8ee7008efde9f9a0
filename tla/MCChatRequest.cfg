CONSTANTS
    k1 = k1
    Requests = {r1, r2}
    Keys = {k1}
    KeyOf <- MCKeyOf
    FingerprintOf <- MCFingerprintOf
    NoRecord = NoRecord
    MaxExpiries = 1
    MaxFaults = 2
SPECIFICATION Spec
INVARIANTS
    AccountingExact
    SettledInOrder
    ReservationSound
    NoKeyLeftBehind
CHECK_DEADLOCK FALSE
