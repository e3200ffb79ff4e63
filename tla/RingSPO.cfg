CONSTANTS
    N = 4
    Strategy = "SPO"
    Aggregation <- MCAggOff
    AggBitRateCheck = FALSE
    SwBlockPolicy = TRUE
    QuoBitRate <- MCQuo
    GbrBlockThs <- MCThs75
    Ue <- MCUe
    Enb <- MCEnb
    EnbSw <- MCEnbSw
    PgwSw <- MCPgwSw
    SgwSw <- MCSgwSw
    Bearer <- MCBearer
    BearerUe <- MCBearerUe
    BearerSlice <- MCBearerSlice
    GbrBearer <- MCGbrBearer
    GbrDl <- MCGbrDl
    GbrUl <- MCGbrUlAsym
    MaxBitRate = 2
    Loads <- MCLoadsIdle
    ExtProfiles <- MCExtTwo
SPECIFICATION Spec
INVARIANTS
    TypeOK
    Conserved
    AllIsSum
    NothingLeftBehind
    NoAssertFails
