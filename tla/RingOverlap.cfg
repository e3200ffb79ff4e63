CONSTANTS
    N = 4
    Strategy = "SPF"
    Aggregation <- MCAggOff
    AggBitRateCheck = FALSE
    SwBlockPolicy = TRUE
    QuoBitRate <- MCQuoSmall
    GbrBlockThs <- MCThs
    Ue <- MCUe
    Enb <- MCEnbTwo
    EnbSw <- MCEnbSwTwo
    PgwSw <- MCPgwSw
    SgwSw <- MCSgwSw
    Bearer <- MCBearer
    BearerUe <- MCBearerUe
    BearerSlice <- MCBearerSlice
    GbrBearer <- MCGbrBearer
    GbrDl <- MCGbrDl
    GbrUl <- MCGbrUlAsym
    MaxBitRate = 2
    Loads <- MCLoadsIdle
    ExtProfiles <- MCExtNone
SPECIFICATION Spec
INVARIANT NoAssertFails
