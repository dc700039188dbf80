SPECIFICATION Spec
CONSTANTS
  root = root
  dom = dom
  kek = kek
  kek2 = kek2
  dek = dek
  new = new
  NoKey = NoKey
  KeyId = {root, dom, kek, kek2, dek}
  Proc = {p1}
  Requests <- SerialRequests
  Provisioned <- TwoKeks
  Lifetimed = {dek}
  UsageLimit <- Limits
  MaxMint = 2
  MaxSealed = 2
INVARIANTS
  CiphertextKeyRetained
  CiphertextsDecrypt
  UsageAccounted
  CascadeStopsChildren
CHECK_DEADLOCK FALSE
