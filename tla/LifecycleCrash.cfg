SPECIFICATION FairSpec
CONSTANTS
  Incident = {i1}
  MaxScore = 1
  AlertedFrom = 1
  MaxCycles = 2
  MaxTransitions = 2
  MaxResolved = 0
  Limit = 2
  Ages = TRUE
  Scans = FALSE
  MaxId = 5
  MaxCrashes = 2
  MaxErrors = 0
INVARIANTS EveryFindingHasALifecycleState
PROPERTIES OnlyCoverageResolves CyclesAreReconciled
