SPECIFICATION FairSpec
CONSTANTS
  FastSeconds = 2
  StandardSeconds = 3
  DeepSeconds = 3
  MaintenanceSeconds = 3
  PhaseUnit = 1
  DeferSeconds = 2
  MaxDeferrals = 2
INVARIANT StarvationBounded
PROPERTIES IncidentWorkIsNotDeferred EveryLaneRuns
