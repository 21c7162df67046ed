SPECIFICATION KeeperSpec
CONSTANTS
    Users = {a, b}
    MarketIndexes = {0}
    MAX_POSITIONS = 1
    TimeSteps = {}
    TokenAmounts = {}
    OpenSizes = {8, 12}
    CloseSizes = {}
    PriceLimits = {0}
    OrderSpecs <- KeeperOrderSpecs
    Prices = {16}
    Confidences = {0}
    RiskParams = {}
    StatusChoices = {}
    PauseChoices = {}
    Pools = {}
    MaxFees = 3
    MaxOrderId = 2
    MaxClock = 0
    SeedCollateral = 10
    BASE_PRECISION = 4
    AMM_RESERVE_PRECISION = 4
    MARGIN_PRECISION = 10
    BPS_DENOMINATOR = 100
    FUNDING_RATE_PRECISION = 100
    MAX_FUNDING_RATE = 20
    DAY_SECONDS = 20
    I64_MAX = 1000000
    MAX_ORDERS = 2
    ORDER_ID_MODULUS = 4
    TakerFeeBps = 5
    MakerRebateBps = 2
    MaxOracleStaleness = 5
    MaxOracleConfidenceBps = 20
    StartTime = 0
    InitialTokens = 40
    SeedPrice = 10
    MaxMoves = 3
    MaxDrops = 1
PROPERTIES
    PassesEnd
    NothingDueStays
    BestPairMeets
    ActsOnSeenOrder
