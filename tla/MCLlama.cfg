CONSTANTS
    a = a
    b = b
    Token = {a, b}
    Prompts <- MCPrompts
    NoFile = NoFile
    NCtx = 6
    Batch = 2
    Shifting = TRUE
    Margin = 2
    Discard = 1
    Reserve = 2
    MaxDrafts = 2
    MaxTokens = {0, 2}
    ThinkCap = 2
    MaxDump = 2
SPECIFICATION LinkSpec
INVARIANTS LlamaTypeOK Contiguous SlidingWindow FfiIsCold NeverFull BudgetKept
CHECK_DEADLOCK FALSE
