SPECIFICATION FairSpec
CONSTANTS
  root = root
  dom = dom
  kek = kek
  kek2 = kek2
  dek = dek
  new = new
  NoKey = NoKey
  KeyId = {root, dom, kek, new}
  Proc = {p1, p2}
  Requests <- ConcurrentRequests
  Provisioned <- KeksOnly
  Lifetimed = {kek}
  UsageLimit <- Limits
  MaxMint = 2
  MaxSealed = 2
INVARIANTS
  HierarchySound
PROPERTIES
  OperationsReturn
CHECK_DEADLOCK FALSE
