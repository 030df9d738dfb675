SPECIFICATION Spec
CONSTANTS
    Models = {m1, m2}
    Compilers = {c1, c2}
    EmbModels = {e1, e2}
    MaxEdits = 1
    MaxChanges = 1
    None = None
INVARIANT
    PrefixMatches
CHECK_DEADLOCK FALSE
