CONSTANTS
    Base = 5
    MaxPayload = 4
    MetaLen = 1
    ResultLen = 2
    MaxStatus = 2
    ReadMax = 6
    Frames <- MCFrames
    MaxFrames = 3
SPECIFICATION Spec
PROPERTY KeptWhileInSync
