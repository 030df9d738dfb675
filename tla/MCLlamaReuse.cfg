CONSTANTS
    a = a
    b = b
    Token = {a, b}
    Prompts <- MCResumed
    NoFile = NoFile
    NCtx = 6
    Batch = 2
    Shifting = TRUE
    Margin = 2
    Discard = 1
    Reserve = 2
    MaxDrafts = 2
    MaxTokens = {0, 2}
    ThinkCap = 2
    MaxDump = 2
SPECIFICATION LinkSpec
PROPERTY PrefixReused
CHECK_DEADLOCK FALSE
