SPECIFICATION Spec
CONSTANTS
    Procs = {p1, p2}
    Engines <- MCEngines
    Demand <- MCDemand
    Changes <- MCChanges
    Found <- MCProbed
    Cap = 8192
    Written = 4096
    Nvidia = TRUE
    Vram = 400
    Ram = 800
    Weights = 150
    PerK = 50
    MaxOps = 2
    MaxCrashes = 1
    Absent = Absent
    Torn = Torn
    None = None
INVARIANTS
    GovTypeOK
    SettingsKept
    NeverUndercounts
    ListedHolds
    TruthSurvives
    NeverSelfLocked
CHECK_DEADLOCK FALSE
