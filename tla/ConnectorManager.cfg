SPECIFICATION Spec
CONSTANTS
    Exchanges = {"A"}
    Connectors = {1, 2, 3}
    Markets = {"spot", "futures"}
    Workers = {"w1"}
    TickCap = 1
    QueueCap = 1
    MaxTicks = 2
INVARIANTS
    NeverSendsToClosed
    ConnectorsSupervised
PROPERTIES
    DeliveredInOrder
    NewestArrives
    CleanupCompletes
CHECK_DEADLOCK FALSE
