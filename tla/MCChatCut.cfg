CONSTANTS
    Client = {a1}
    Agents = {a1}
    Req = {r1, r2, r3}
    Model = {m1}
    None = None
    Permits = 2
    ChanCap = 1
    MaxPieces = 1
    MaxIters = 2
SPECIFICATION ChatSpec
INVARIANT AloneNotCut
CHECK_DEADLOCK FALSE
