\* Market orders, liquidations and bankruptcies of two users in one market, the
\* oracle price falling and recovering and funding accruing.
SPECIFICATION SeededSpec
CONSTANTS
    Users = {a, b}
    MarketIndexes = {0}
    MAX_POSITIONS = 1
    TimeSteps = {5}
    TokenAmounts = {}
    OpenSizes = {4}
    CloseSizes = {0, 3}
    PriceLimits = {0}
    OrderSpecs <- NoOrders
    Prices = {4, 16}
    Confidences = {0}
    RiskParams = {}
    StatusChoices = {}
    PauseChoices = {}
    Pools = {}
    MaxFees = 3
    MaxOrderId = 0
    MaxClock = 10
    SeedCollateral = 8

    BASE_PRECISION = 4
    AMM_RESERVE_PRECISION = 4
    MARGIN_PRECISION = 10
    BPS_DENOMINATOR = 100
    FUNDING_RATE_PRECISION = 100
    MAX_FUNDING_RATE = 20
    DAY_SECONDS = 20
    I64_MAX = 1000000
    MAX_ORDERS = 2
    ORDER_ID_MODULUS = 4
    TakerFeeBps = 5
    MakerRebateBps = 2
    MaxOracleStaleness = 5
    MaxOracleConfidenceBps = 20
    StartTime = 0
    InitialTokens = 40
    SeedPrice = 10
CONSTRAINT BoundedInTime
SYMMETRY Symmetry
INVARIANTS
    TypeOK
    AmmHedgesSkew
    CurveNeverLosesValue
    BankruptAccountOwes
PROPERTIES
    LedgerBalances
    EquityFollowsCashAndFunding
    DebtIsLastResort
    OpenedPositionIsSafe
