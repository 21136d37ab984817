SPECIFICATION Spec
CONSTANTS
    Chats = {"c1", "c2"}
    Workers = {1, 2}
    Fields = {"vol", "step"}
    MaxSpread = 2
    FeeKeys = {"DEFAULT", "OKX"}
    EnvFloor = 1
    MaxCommands = 3
    MaxRestarts = 2
    MaxAbandoned = 1
INVARIANTS
    FloorsAgree
PROPERTY RestartKeepsSettings
CHECK_DEADLOCK FALSE
