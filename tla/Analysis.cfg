SPECIFICATION AnalysisSpec
CONSTANTS
    Weight <- MCWeight
    FlagBonus <- MCFlagBonus
    MarkerBonus <- MCMarkerBonus
    Floored = {"reverse_shell"}
    Phase <- MCPhase
    HighKind = {"persistence_change", "yara_match"}
    HighMarker = {"reverse_shell"}
    ChainWindow = 2
    Shape <- MCShape
    Rank <- MCRank
    ContextWindow = 1
    MaxContext = 3
    MaxRelated = 2
    MinimumScore = 1500
    MaxBatch = 2
    MaxFile = 4
    MaxTime = 3
INVARIANTS
    ChainIsTheBestThereIs
    MoreEvidenceNeverLowersARating
    ContextIsComplete
CHECK_DEADLOCK FALSE
