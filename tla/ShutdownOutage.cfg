SPECIFICATION FairSpec
CONSTANTS
    u1 = u1
    u2 = u2
    w1 = w1
    w2 = w2
    Users = {u1}
    Workers = {w1, w2}
    Step <- Steps12
    MaxPeak = 1
    MaxLost = 0
    None = None
PROPERTY ShutdownCompletes
