CONSTANTS
    Setting <- MCSetting
    Mode <- MCMode
    SpareUse = TRUE
    LinkBitRate = 16
    Quota <- MCQuota
    Sharing <- MCSharing
    Priority <- MCPriority
    ExtraStep = 2
    GuardStep = 2
    MeterStep = 3
    Kilo = 2
    UseProfiles <- MCUse
    GbrRates <- MCGbr
SPECIFICATION Spec
INVARIANTS
    TypeOK
    NoAssertFails
    ExtraBounded
    HigherPriorityFirst
    CutInOrder
    CongestionRelieved
    MeterFollows
PROPERTIES
    AdjustmentEnds
