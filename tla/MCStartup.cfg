CONSTANTS
    Width = 4
    LoopNet = 1
    LoopPrefix = 2
    BindText <- MCBindText
    Offered <- MCOffered
    MaxLines = 1
    MaxArgs = 2
SPECIFICATION StartSpec
INVARIANT HostOverrides
CHECK_DEADLOCK FALSE
