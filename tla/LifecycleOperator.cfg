SPECIFICATION Spec
CONSTANTS
    a = a
    b = b
    Exchanges = {a, b}
    Feeds <- SpotFeeds
    Quotes <- BookQuotes
    Fee <- OneFee
    FilterSets <- AllOrNothing
    FundingRates = {1}
    FundingMaxAge = 0
    MaxTime = 2
    Scale = 100
    PriceTTL = 1
    EvictFactor = 1
    StaleActiveRouteTTL = 4
    MaxSendDelay = 4
    MaxLag = 0
    ChanCap = 1
    InitialMin = 2
    HardMins = {4}
    EventTimes = {0}
    StreamEvents = 2
PROPERTIES
    FundingFailClosed
