CONSTANTS
    Models = {A, B}
    None = None
    StopText <- MCStop
    Symbols <- MCSymbols
    Pieces <- MCPieces
    Grammars <- MCGrammars
    MaxLines = 2
    MaxSteps = 5
SYMMETRY MCSymmetry
SPECIFICATION Spec
INVARIANTS
    SessionTypeOK
    AwaitedLinesCount
    LoadedIsActive
    NothingLost
    TriggerHidden
    OneTool
CHECK_DEADLOCK FALSE
