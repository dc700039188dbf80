SPECIFICATION ReplaySpec
CONSTANTS
  Blob = {b1, b2, b3}
  Proc = {p1, p2}
  TTL = 2
  BATCH_SIZE = 2
  BATCH_INTERVAL_SECS = 3
  HIGH_WATER_MARK = 3
  MaxTime = 4
  MaxOps = 4
  MaxCrashes = 1
  SlotBlob = {s1, s2}
  SlotCall = {c1, c2, c3}
  Backends = {"memory", "redis"}
  SlotTTL = 3
  MaxSlotTime = 6
  MaxSlotCrashes = 2
SYMMETRY Symmetry
INVARIANTS
  LossBounded
  NoPoisonedClaim
PROPERTIES
  OnePlaintextPerClaim
  SlotOnePlaintext
CHECK_DEADLOCK FALSE
