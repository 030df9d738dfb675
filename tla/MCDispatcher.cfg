CONSTANTS
    Req = {r1, r2}
    Model = {m1, m2}
    None = None
    Permits = 2
    ChanCap = 1
    MaxPieces = 2
SPECIFICATION Spec
SYMMETRY Symmetry
INVARIANTS TypeOK EngineSafe FreshModel DoneIsLast SoloUndisturbed
PROPERTY ImplementsService
CHECK_DEADLOCK FALSE
