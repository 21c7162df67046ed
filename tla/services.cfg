\* The indexer and its API, the chart, the polling pages, the faucet with a page and a
\* stranger, the scripts alone and beside overlapping ticks of push-prices, the order
\* preview and a Pyth account, a scene each.
SPECIFICATION ServicesSpec
CONSTANTS
    s1 = s1
    s2 = s2
    s3 = s3
    Signatures = {s1, s2, s3}
    EventsOf <- LoggedEvents
    TextOrder <- SignatureOrder
    SIGNATURE_LIMIT = 2
    MaxIndexerFaults = 2
    MILLISECONDS = 2
    Resolutions = {1}
    Limits = {1, 2}

    MarksOf <- TwoMarketsMarks
    Buckets = {60, 120}
    MaxSwitches = 1

    Keys = {k1, k2}
    NoKey = none
    MaxSelections = 2
    MaxDataChanges = 1
    MaxLoadFaults = 1

    Wallets = {wallet1, wallet2}
    Owner = wallet1
    Addresses = {homeIp, otherIp}
    Home = homeIp
    Tabs = {tab1, tab2}
    Stranger = other
    Clients = {tab1, tab2, other}
    Cooldown = 2
    MaxDisturbances = 2
    MaxFaucetFaults = 2
    MaxDeposits = 1

    MARKETS = 2
    Peg = 3
    PriceCap = 3
    Jitters <- DownwardJitters
    Scale = 10
    MAX_ATTEMPTS = 2
    MaxTicks = 2
    MaxScriptFaults = 2

    PRICE_EXPONENT = 1
    MaxFeedAge = 1
    MaxFeedConfBps = 10
    Feeds = {solUsd, btcUsd}
    MarketFeed = solUsd
    Mantissas <- SignedMantissas
    Exponents <- Tenfolds
    FeedConfs = {0, 2, 6, 30, 34, 135}
    LastSecond = 2

    StartPools <- SmallPools
    TradeSizes = {1, 3, 4, 7}
    MaxSwaps = 3
    Deposits = {0, 9}
    Ratio = 1
    FeeBps = 5
    HintPrices = {1, 3, 8, 20}
    BASE_PRECISION = 4
    AMM_RESERVE_PRECISION = 10
    MARGIN_PRECISION = 10
    BPS_DENOMINATOR = 100
    FUNDING_RATE_PRECISION = 100
    MAX_FUNDING_RATE = 20
    DAY_SECONDS = 20
    I64_MAX = 1000000
\* the trader and the user of a page stop at their bounds
CHECK_DEADLOCK FALSE
INVARIANTS
    ServicesTypeOK
    PageAndCandlesAgree
    ChartShowsSelected
    GrantsAreRationed
    MintsAgree
    MarketsHaveOracles
    RoundingIsTheOnlyLeak
    PreviewMatchesInScene
    AcceptedPriceIsNarrow
PROPERTIES
    ImplementsEventStore
    WindowIsIndexed
    ServedCandlesOnlyWiden
    OnlySelectedLands
    PagesSettleInScene
    ClaimIsDepositedInScene
    BootstrapConvergesInScene
    PushedStayFresh
