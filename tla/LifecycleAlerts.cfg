SPECIFICATION Spec
CONSTANTS
  Incident = {i1}
  MaxScore = 3
  AlertedFrom = 2
  MaxCycles = 2
  MaxTransitions = 3
  MaxResolved = 2
  Limit = 1
  Ages = FALSE
  Scans = TRUE
  MaxId = 4
  MaxCrashes = 1
  MaxErrors = 1
PROPERTIES ActiveIncidentsWereAlerted EscalationIsAlertedUnlessCyclesFail
