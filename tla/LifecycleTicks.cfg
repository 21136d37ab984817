SPECIFICATION Spec
CONSTANTS
    a = a
    b = b
    Exchanges = {a, b}
    Feeds <- FuturesFeeds
    Quotes <- ThreeQuotes
    Fee <- NoFees
    FilterSets <- NoFilters
    FundingRates = {0}
    FundingMaxAge = 2
    MaxTime = 2
    Scale = 100
    PriceTTL = 1
    EvictFactor = 1
    StaleActiveRouteTTL = 4
    MaxSendDelay = 4
    MaxLag = 1
    ChanCap = 1
    InitialMin = 2
    HardMins = {}
    EventTimes = {0}
    StreamEvents = 2
SYMMETRY ExchangeSymmetry
INVARIANTS
    NoForgottenRoute
    TrackerFollows
    PeakAgrees
    NoActiveRowAfterShutdown
