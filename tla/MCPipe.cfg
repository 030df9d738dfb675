CONSTANTS
    Cli = {c1}
    PipeCap = 2
    Req = {r1}
    Model = {m1}
    None = None
    Permits = 2
    ChanCap = 1
    MaxPieces = 1
SPECIFICATION PipeSpec
PROPERTY PromptReturns
CHECK_DEADLOCK FALSE
