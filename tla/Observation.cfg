SPECIFICATION Spec
CONSTANTS
    Platform = "debian"
    Enabled = {"authentication", "sensitive_files", "processes", "docker"}
    MaxChanges = 2
    Risky = {3}
    Schedules = {{"fast"}, {"fast", "standard"}, {"fast", "deep", "maintenance"}, {"fast", "standard", "deep", "maintenance"}}
    MaxTrouble = 3
INVARIANTS
    NothingIsAcceptedSilently
    OneTimeEventsAreKept
    ContextIsDurable
    ObservedAbsenceResolves
PROPERTIES
    OnlyObservedAbsenceResolves
CHECK_DEADLOCK FALSE
