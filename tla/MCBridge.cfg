CONSTANTS
    Kinds = {"111"}
    Packets <- TwoPackets
    MaxFaults = 2
    MaxRx = 1
    Configs = {"split"}
    QueueLimit = 1
    SettleCovers = TRUE
    StopAllowed = TRUE
SPECIFICATION Spec
INVARIANTS TypeOK SentOnceInOrder PartNotContinued ConfirmedOnAir RefusedNotOnAir OffFrequencyReported ConfiguredMeansReceiving ExitReceiving
CHECK_DEADLOCK FALSE
