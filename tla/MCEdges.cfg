CONSTANTS
    MaxFrame = 3
    Bytes = {0, 16, 192, 219, 220, 221}
    Payloads <- MCPayloads
    MaxStream = 6
    Calls = {"A", "a"}
    NoCall = "?"
    MaxRepeaters = 2
    MaxAddrs = 4
    MaxInfo = 4
    Upper <- MCUpper
    SsidText <- MCSsidText
    Tokens <- MCTokens
    MaxText = 24
    TxMax = 18
    HeardPieces <- MCHeard
    LinePieces <- MCLine
    InfoPieces <- MCInfo
    LineStarts <- MCLineStarts
    GivenGroups <- MCGroups
    MaxPieces <- MCMaxPieces
    Width = 4
    LoopNet = 1
    LoopPrefix = 2
    BindText <- MCBindText
    Offered <- MCOffered
    MaxLines = 2
    MaxArgs = 2
SPECIFICATION EdgeSpec
INVARIANTS TypeOK DecodesStretches Resyncs EncodeFits
INVARIANTS ExtractsTexts NormalForm EndToEnd LastWins OnlyAllowed ExposedIfNeeded
CHECK_DEADLOCK FALSE
