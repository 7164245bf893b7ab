SPECIFICATION Spec
CONSTANTS
  Payload = {p1}
  Key = {k1, k2}
  NoKey = NoKey
  MaxCycles = 2
  Conn = {svc, scan}
  Throttled = {svc}
  Signer = {NoKey, k1, k2}
  MaxId = 4
INVARIANTS TypeOK LinksVerify
PROPERTIES RetentionBounded ImplementsLog
