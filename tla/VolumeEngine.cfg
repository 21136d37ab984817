SPECIFICATION Spec
CONSTANTS
    buy = buy
    sell = sell
    Legs <- MCLegs
    Timeframes = {1, 2}
    Slack = 2
    Volumes = {1, 2}
    UserSet <- MCUsers
    Day = 1440
    JanitorEvery = 2
    MaxLate = 1
    MaxNow = 11
    MaxUpdates = 3
SYMMETRY LegSymmetry
INVARIANTS
    EstimateIsReference
    
CHECK_DEADLOCK FALSE
