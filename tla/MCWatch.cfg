SPECIFICATION WatchSpec
CONSTANTS
  Severity = {0, 4, 8}
  Decayed <- Halved
  Thresholds <- SomeThresholds
  Released <- SomeReleased
  Window = 2
  max_events = 3
  MaxRecorded = 4
  MaxEventAge = 4
  Policies <- SomePolicies
  None = None
  FloorAge = 1
  FloorGrace = 1
  FloorLifetime = 4
  FloorUsage = 2
  MaxAge = 11
  MaxUsage = 5
  Proc = {p1, p2}
  anchor_interval = 2
  MaxEvents = 5
  MaxRestarts = 1
  MaxFailures = 1
INVARIANTS
  EscalationNeverEases
  CryptoperiodStops
  QuietChainIntact
  VerifiedHasNoGap
  ReceiptsVerify
PROPERTIES
  NoOscillation
  ReturnsToLow
  RotationDueFirst
  DueKeysExpire
CHECK_DEADLOCK FALSE
