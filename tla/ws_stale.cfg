SPECIFICATION OutageSpec
CONSTANTS
    FeedMarkets = {0, 1}
    MaxChanges = 1
    MaxRefreshes = 2
    MaxPolls <- PollsOf
    MaxLoads <- LoadsOf
    MaxFeedFaults = 1
    MaxEffects = 2
    Sockets = {1, 2}
    NoData = NoData
PROPERTY FallsBackToPolling
