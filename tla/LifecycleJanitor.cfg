SPECIFICATION FairSpec
CONSTANTS
    a = a
    b = b
    Exchanges = {a, b}
    Feeds <- FuturesFeeds
    Quotes <- TwoQuotes
    Fee <- NoFees
    FilterSets <- NoFilters
    FundingRates = {0}
    FundingMaxAge = 1
    MaxTime = 2
    Scale = 100
    PriceTTL = 0
    EvictFactor = 1
    StaleActiveRouteTTL = 0
    MaxSendDelay = 1
    MaxLag = 0
    ChanCap = 1
    InitialMin = 2
    HardMins = {}
    EventTimes = {0}
    StreamEvents = 3
INVARIANTS
    NoForgottenRoute
    TrackerFollows
    NoActiveRowAfterShutdown
PROPERTIES
    ShutdownCompletes
