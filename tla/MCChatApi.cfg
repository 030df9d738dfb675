CONSTANTS
    Client = {a1, c2}
    Agents = {a1}
    Req = {r1, r2, r3, r4}
    Model = {m1}
    None = None
    Permits = 2
    ChanCap = 1
    MaxPieces = 1
    MaxIters = 2
SPECIFICATION FairChatSpec
INVARIANTS ChatTypeOK NoForgottenReceiver ToolOnce
PROPERTIES AllServed EngineComesFree
CHECK_DEADLOCK FALSE
