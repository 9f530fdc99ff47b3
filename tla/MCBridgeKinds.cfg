CONSTANTS
    Kinds = {"111", "110", "off"}
    Packets <- TwoPackets
    MaxFaults = 1
    MaxRx = 1
    Configs = {"split", "equal", "nofreq"}
    QueueLimit = 2
    SettleCovers = FALSE
    StopAllowed = TRUE
SPECIFICATION Spec
INVARIANTS SentOnceInOrder ConfiguredMeansReceiving ModeAgrees
PROPERTY ImplementsFifo
CHECK_DEADLOCK FALSE
