SPECIFICATION AssertionSpec
CONSTANTS
  root = root
  dom = dom
  kek = kek
  sig = sig
  sig2 = sig2
  NoKey = NoKey
  KeyId = {root, dom, kek, sig, sig2}
  Proc = {p1}
  Requests <- SomeRequests
  Provisioned <- Hierarchy
  Lifetimed = {}
  UsageLimit <- Limits
  MaxMint = 2
  MaxSealed = 0
  Signer = {s1}
  Claims = {c1, c2}
  Payload = {m1}
  Ttl = {2, 7}
  Width = 3
  MaxTime = 2
  MaxSigned = 1
INVARIANTS
  NamesItsSigner
  SignaturesVerify
  AcceptedAsIssued
CHECK_DEADLOCK FALSE
SYMMETRY Alike
