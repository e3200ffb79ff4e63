CONSTANTS
    Bearer <- MCBearer
    Default <- MCDefault
    Addr <- MCAddr
    MaxLevel = 2
    TableSize = 5
    CpuUses = {0, 50, 95}
    SplitThs = 80
    JoinThs = 30
    BlockThs = 90
    TickMs = 250
    TftTimeout = 4
SPECIFICATION Spec
INVARIANTS
    TrafficFindsRule
    RulesWhereIndexed
    SettledInTime
PROPERTIES
    JoinStays
