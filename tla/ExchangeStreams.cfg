SPECIFICATION Spec
CONSTANTS
    Quotes <- MCQuotes
    Instruments <- MCInstruments
    Samples <- MCSamples
    ContractSize = 2
    Venues = {"BINANCE", "BYBIT", "OKX", "BITGET", "GATEIO", "KUCOIN", "BINGX", "MEXC"}
    MaxFaults = 2
INVARIANTS
    OneWriter
    OnlyFaultsReconnect
    KeysJoin
    TickIsTheBook
    OutageInvalidatesFunding
PROPERTIES
    FeedsRecover
    StopsWhenCancelled
CHECK_DEADLOCK FALSE
