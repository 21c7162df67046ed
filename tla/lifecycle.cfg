\* From deployment: markets, price accounts and users are created in any order; users
\* deposit, trade, rest orders and withdraw while prices go stale and the admin pauses
\* the protocol, moves the market through its statuses and changes its parameters.
SPECIFICATION DeployedSpec
CONSTANTS
    Users = {a}
    MarketIndexes = {0}
    MAX_POSITIONS = 1
    TimeSteps = {6}
    TokenAmounts = {4}
    OpenSizes = {2}
    CloseSizes = {0}
    PriceLimits = {0}
    OrderSpecs <- AnyOrderSpecs
    Prices = {0, 10}
    Confidences = {0, 3}
    RiskParams <- TunedParams
    StatusChoices = {"Active", "ReduceOnly", "Paused"}
    PauseChoices = {TRUE, FALSE}
    Pools <- ZeroPegPools
    MaxFees = 2
    MaxOrderId = 1
    MaxClock = 6
    SeedCollateral = 0

    BASE_PRECISION = 4
    AMM_RESERVE_PRECISION = 4
    MARGIN_PRECISION = 10
    BPS_DENOMINATOR = 100
    FUNDING_RATE_PRECISION = 100
    MAX_FUNDING_RATE = 20
    DAY_SECONDS = 20
    I64_MAX = 1000000
    MAX_ORDERS = 2
    ORDER_ID_MODULUS = 4
    TakerFeeBps = 5
    MakerRebateBps = 2
    MaxOracleStaleness = 5
    MaxOracleConfidenceBps = 20
    StartTime = 0
    InitialTokens = 8
    SeedPrice = 10
CONSTRAINT Bounded
PROPERTIES
    BreakersStopNewRisk
    ChangesAreLocked
