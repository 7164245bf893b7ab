SPECIFICATION FairSpec
CONSTANTS
  Payload = {p1}
  Key = {k1}
  NoKey = NoKey
  MaxCycles = 2
  MaxId = 4
  MaxDamage = 1
  Others = TRUE
INVARIANTS NoFalseAlarm FoundDamageStaysReported CachedAnswerIsAboutTheseRows
PROPERTIES DamageIsReported
