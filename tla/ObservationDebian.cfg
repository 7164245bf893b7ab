SPECIFICATION Spec
CONSTANTS
    Platform = "debian"
    Enabled = {"outbound_connections", "docker"}
    MaxChanges = 1
    Risky = {2}
    Schedules = {{"fast"}, {"fast", "standard", "deep"}}
    MaxTrouble = 2
PROPERTIES
    OnlyObservedAbsenceResolves
CHECK_DEADLOCK FALSE
