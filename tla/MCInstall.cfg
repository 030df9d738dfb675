SPECIFICATION Spec
CONSTANTS
    Pullers = {p1, p2}
    Pieces = 2
    MaxPulls = 4
    MaxPullCrashes = 1
    Starters = {p1, p2}
    MaxVersion = 2
    Buildable = {"engine"}
    MaxStarts = 2
    MaxStartCrashes = 1
    Absent = Absent
    Torn = Torn
    Dev = Dev
    ErrorPage = ErrorPage
    Workers = {p1, p2}
    Kind <- MCKind
    MaxJobs = 3
    MaxJobCrashes = 2
    NoFile = NoFile
    Garbled = Garbled
    Foreign = Foreign
    Unsure = Unsure
SYMMETRY MCSymmetry
INVARIANTS
    InstallTypeOK
    WeightsComplete
    UnitHasWeights
    MarkerCurrent
    RegistryKept
    PermissionInForce
PROPERTY
    PullHonest
CHECK_DEADLOCK FALSE
