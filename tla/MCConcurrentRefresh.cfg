CONSTANTS
    Requests = {r1, r2, r3}
    Root = Root
    NoToken = NoToken
    Tabs = {tab1, tab2}
    MaxFaults = 1
    MaxTabRequests = 2
    Items = {i1, i2, i3}
    PageSize = 1
    MaxClock = 5
    MaxWire = 7
SPECIFICATION MCSpec
SYMMETRY MCSymmetry
INVARIANTS
    ConcurrentRefreshKeepsTabs
CHECK_DEADLOCK FALSE
