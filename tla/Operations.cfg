SPECIFICATION MCSpec
CONSTANTS
    MaxRuns = 2
    MaxRows = 1
    MaxFaults = 1
    Process = {"unit", "user"}
    Bounded = {"user"}
    Unit = "unit"
    Key = {"k1", "k2"}
    StopAfter = 2
    Checkpoint = 2
    MaxTrouble = 1
    Core = {"processes", "self_integrity", "evidence_chain"}
    Collectors = {"processes"}
    Always = {"processes", "evidence_chain"}
    SnapshotLimit = 2
    CoverageLimit = 4
    CoverageCheckpoint = 2
    FullInterval = 2
    MaxMishaps = 3
    Operation = {"vendor", "own", "odd", "torn"}
    Malformed = {"torn"}
    Unmapped = {"odd"}
    Protected = {"own"}
    MaxEvents = 5
    MaxDataAge = 1
    DiscoveryCache = 2
    EventRepeat = 2
    MaxClock = 4
    MaxUpsets = 3
INVARIANTS
    FailedInstallRestoresLegacy
    RetiredLegacyIsCarriedOver
    HealthSurvivesPowerLoss
    HealthTellsTheTruth
    WarmStartIsEarned
    StaleIsConfirmedAcrossBoots
    StaleDataIsReported
PROPERTY
    MaturityIsKept
CHECK_DEADLOCK FALSE
