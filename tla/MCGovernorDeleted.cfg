SPECIFICATION FairSpec
CONSTANTS
    Procs = {p1}
    Engines <- MCEngines
    Demand <- MCDemand
    Changes <- MCChanges
    Found <- MCDeleted
    Cap = 8192
    Written = 4096
    Nvidia = TRUE
    Vram = 400
    Ram = 800
    Weights = 150
    PerK = 50
    MaxOps = 1
    MaxCrashes = 0
    Absent = Absent
    Torn = Torn
    None = None
PROPERTIES
    EveryOpReturns
CHECK_DEADLOCK FALSE
