CONSTANTS
    QueueMax = 3
    tx_queue_len = 2
    tx_packet_ttl_ms = 3
    tx_busy_timeout_ms = 2
    PacketMax = 1
    Lengths <- MCLengths
    Clock <- MCClock
    Submissions = 5
    LineMax = 3
    Atoms = {"t1", "t0", "c1", "c0", "s", "r0", "r1", "nl", "cr"}
    MaxStream = 5
    MaxConns = 2
    MaxBytes = 4
    ChunkSize = 2
    LineLengths = {1, 2, 5}
    MaxLines = 5
    MaxFaults = 2
SPECIFICATION PartSpec
INVARIANTS TypeOK FreshAtLastDecision WaitBelongsToHead
INVARIANTS ConfTypeOK StateOfWholeLines CountedOnce
INVARIANTS LogTypeOK Contiguous Bounded
PROPERTIES FifoSpec EmptiedIntoCopy
CHECK_DEADLOCK FALSE
