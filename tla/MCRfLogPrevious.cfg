CONSTANTS
    MaxBytes = 4
    ChunkSize = 2
    LineLengths = {3}
    MaxLines = 5
    MaxFaults = 1
SPECIFICATION LogSpec
INVARIANT PreviousKept
CHECK_DEADLOCK FALSE
