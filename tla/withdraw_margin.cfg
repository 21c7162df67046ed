\* A user with positions in two markets withdraws against one of them.
SPECIFICATION SeededSpec
CONSTANTS
    Users = {a}
    MarketIndexes = {0, 1}
    MAX_POSITIONS = 2
    TimeSteps = {}
    TokenAmounts = {8}
    OpenSizes = {4}
    CloseSizes = {}
    PriceLimits = {0}
    OrderSpecs <- NoOrders
    Prices = {}
    Confidences = {0}
    RiskParams = {}
    StatusChoices = {}
    PauseChoices = {}
    Pools = {}
    MaxFees = 2
    MaxOrderId = 0
    MaxClock = 0
    SeedCollateral = 16

    BASE_PRECISION = 4
    AMM_RESERVE_PRECISION = 4
    MARGIN_PRECISION = 10
    BPS_DENOMINATOR = 100
    FUNDING_RATE_PRECISION = 100
    MAX_FUNDING_RATE = 20
    DAY_SECONDS = 20
    I64_MAX = 1000000
    MAX_ORDERS = 2
    ORDER_ID_MODULUS = 4
    TakerFeeBps = 5
    MakerRebateBps = 2
    MaxOracleStaleness = 5
    MaxOracleConfidenceBps = 20
    StartTime = 0
    InitialTokens = 40
    SeedPrice = 10
CONSTRAINT Bounded
PROPERTIES
    WithdrawKeepsInitialMargin
