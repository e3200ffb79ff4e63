CONSTANTS
    App <- MCApp
    Udp <- MCUdp
    Dedicated <- MCBoth
    Sec = 1
    InterArrivals <- MCTries
    RestartApps = TRUE
    StopTimes = {0, 12}
SPECIFICATION Spec
INVARIANTS
    NoAssertFails
    TimelineHolds
PROPERTIES
    TriedAgain
    KeepsContract
