SPECIFICATION RecoverySpec
CONSTANTS
    u1 = u1
    u2 = u2
    w1 = w1
    w2 = w2
    Users = {u2}
    Workers = {w1, w2}
    Step <- Steps12
    MaxPeak = 4
    MaxLost = 1
    None = None
INVARIANTS
    OnlyLostAnswersRepeat
PROPERTIES
    CloseIsLast
    NoJobStranded
    ShutdownCompletes
