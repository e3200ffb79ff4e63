CONSTANTS
    N = 4
    Strategy = "SPF"
    Aggregation <- MCAggMixed
    AggBitRateCheck = TRUE
    SwBlockPolicy = TRUE
    QuoBitRate <- MCQuoSmall
    GbrBlockThs <- MCThs
    Ue <- MCUeOne
    Enb <- MCEnbTwo
    EnbSw <- MCEnbSwTwo
    PgwSw <- MCPgwSw
    SgwSw <- MCSgwSw
    Bearer <- MCBearer
    BearerUe <- MCBearerUeOne
    BearerSlice <- MCBearerSlice
    GbrBearer <- MCGbrBearer
    GbrDl <- MCGbrDl
    GbrUl <- MCGbrUlSym
    MaxBitRate = 2
    Loads <- MCLoadsBusy
    ExtProfiles <- MCExtNone
SPECIFICATION Spec
INVARIANTS
    NoAssertFails
