\* A user whose profit is in the oracle price alone withdraws his collateral, and the
\* protocol is paused.
SPECIFICATION SeededSpec
CONSTANTS
    Users = {a, b}
    MarketIndexes = {0}
    MAX_POSITIONS = 1
    TimeSteps = {}
    TokenAmounts = {97}
    OpenSizes = {80}
    CloseSizes = {}
    PriceLimits = {0}
    OrderSpecs <- NoOrders
    Prices = {200}
    Confidences = {0}
    RiskParams = {}
    StatusChoices = {}
    PauseChoices = {TRUE}
    Pools = {}
    MaxFees = 40
    MaxOrderId = 0
    MaxClock = 0
    SeedCollateral = 110

    BASE_PRECISION = 40
    AMM_RESERVE_PRECISION = 40
    MARGIN_PRECISION = 10
    BPS_DENOMINATOR = 100
    FUNDING_RATE_PRECISION = 100
    MAX_FUNDING_RATE = 20
    DAY_SECONDS = 20
    I64_MAX = 1000000
    MAX_ORDERS = 2
    ORDER_ID_MODULUS = 4
    TakerFeeBps = 5
    MakerRebateBps = 2
    MaxOracleStaleness = 5
    MaxOracleConfidenceBps = 20
    StartTime = 0
    InitialTokens = 110
    SeedPrice = 100
CONSTRAINT Bounded
SYMMETRY Symmetry
INVARIANTS
    PausedPositionsCanBeWoundDown
