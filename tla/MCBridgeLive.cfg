CONSTANTS
    Kinds = {"111", "110"}
    Packets <- TwoPackets
    MaxFaults = 1
    MaxRx = 0
    Configs = {"split"}
    QueueLimit = 2
    SettleCovers = TRUE
    StopAllowed = TRUE
SPECIFICATION FairSpec
PROPERTIES StopEnds RadioReturns QueueMoves
CHECK_DEADLOCK FALSE
