CONSTANTS
    N = 4
    SgwSw = 0
    Enb <- MCEnb
    EnbSw <- MCEnbSw
    Metered <- MCMetered
    TickMs = 50
    Latency = 1
    MaxPrio = 4
SPECIFICATION Spec
INVARIANTS
    NoAssertFails
    Served
    InFlightServed
    MetersInPlace
    NothingStale
