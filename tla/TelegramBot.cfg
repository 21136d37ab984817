SPECIFICATION Spec
CONSTANTS
    Bots = {1, 2}
    FirstBot = 1
    Chats = {"c1", "c2", "c3"}
    Route <- MCRoute
    Calls = {1}
    QueueCap = 1
    CmdCap = 1
    MaxOther = 1
INVARIANTS
    AckIsDelivery
PROPERTY TransportStops
CHECK_DEADLOCK FALSE
