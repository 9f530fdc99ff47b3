CONSTANTS
    Kinds = {"111"}
    Packets <- OnePacket
    MaxFaults = 0
    MaxRx = 0
    Configs = {"split"}
    QueueLimit = 1
    SettleCovers = FALSE
    StopAllowed = FALSE
SPECIFICATION SilentSpec
PROPERTY LifetimeBounds
CHECK_DEADLOCK FALSE
