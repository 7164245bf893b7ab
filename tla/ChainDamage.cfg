SPECIFICATION DamagedSpec
CONSTANTS
  Payload = {p1, p2}
  Key = {k1}
  NoKey = NoKey
  MaxCycles = 2
  Conn = {svc}
  Throttled = {}
  Signer = {NoKey, k1}
  MaxId = 4
  MaxDamage = 3
INVARIANTS UndamagedChainVerifies NoFalseAlarm AuditExposesDamage
