\* Resting orders: limits of two users in one market, filled against the pool and against
\* each other; reduce-only limits and stops of one user in two markets, whose positions
\* are closed and reversed and whose slots are claimed again in the meantime.
SPECIFICATION OrdersSpec
CONSTANTS
    Users = {a, b}
    MarketIndexes = {0, 1}
    MAX_POSITIONS = 2
    TimeSteps = {}
    TokenAmounts = {}
    OpenSizes = {4}
    CloseSizes = {0, 2}
    PriceLimits = {0}
    OrderSpecs <- RestingOrderSpecs
    Prices = {8}
    Confidences = {0}
    RiskParams = {}
    StatusChoices = {}
    PauseChoices = {}
    Pools = {}
    MaxFees = 3
    MaxOrderId = 2
    MaxClock = 0
    SeedCollateral = 16

    BASE_PRECISION = 4
    AMM_RESERVE_PRECISION = 4
    MARGIN_PRECISION = 10
    BPS_DENOMINATOR = 100
    FUNDING_RATE_PRECISION = 100
    MAX_FUNDING_RATE = 20
    DAY_SECONDS = 20
    I64_MAX = 1000000
    MAX_ORDERS = 2
    ORDER_ID_MODULUS = 4
    TakerFeeBps = 5
    MakerRebateBps = 2
    MaxOracleStaleness = 5
    MaxOracleConfidenceBps = 20
    StartTime = 0
    InitialTokens = 40
    SeedPrice = 10
CONSTRAINT Bounded
ACTION_CONSTRAINT OrderRuns
SYMMETRY Symmetry
INVARIANTS
    PositionsSound
    OpenInterestMatchesPositions
    OrdersSound
PROPERTIES
    ReduceOnlyOnlyReduces
    FillsHonourOrders
    MatchesTakeBothSides
