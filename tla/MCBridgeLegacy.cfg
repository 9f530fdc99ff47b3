CONSTANTS
    Kinds = {"110"}
    Packets <- TwoPackets
    MaxFaults = 0
    MaxRx = 0
    Configs = {"split"}
    QueueLimit = 2
    SettleCovers = TRUE
    StopAllowed = FALSE
SPECIFICATION Spec
INVARIANT RefusedNotLoggedOk
CHECK_DEADLOCK FALSE
