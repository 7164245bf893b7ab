SPECIFICATION FairSpec
CONSTANTS
  Payload = {p, q, r, s}
  Reportable = {p, r, s}
  Incompatible = {r}
  Oversized = {s}
  Key = {}
  NoKey = NoKey
  Exporter = {e1}
  MaxPending = 2
  MaxId = 4
  MaxCycles = 2
  MaxCrashes = 1
  MaxUpgrades = 1
INVARIANTS RetainedFindingsAreHandedOver PendingIsBounded RepetitionNeedsACrash
PROPERTIES EveryFindingIsDelivered
