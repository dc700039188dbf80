\* The components' sets share their model values, so that one permutation of
\* them serves all three.
SPECIFICATION AdmissionSpec
CONSTANTS
  Request = {p1, p2}
  IP = {k1, k2}
  ClientKey = {c1}
  Global = Global
  Rate = 2
  Burst = 2
  KeyFactor = 1
  GlobalFactor = 2
  GlobalRateFactor = 1
  IdleAge = 1
  MaxClock = 1
  MaxRequests = 2
  d1 = d1
  d2 = d2
  DomainId = {d1, d2}
  Unrestricted = Unrestricted
  Proc = {p1, p2}
  ApiKey = {b, k1, k2}
  Bootstrap = b
  Wanted <- SomeWanted
  MaxTouches = 2
  MaxRestarts = 1
  MaxFailures = 1
  Key = {k1, k2}
  Domain = {d1}
  Message = {m1}
  None = None
  Nonce = {p1, p2}
  OperationType = {"Decrypt", "Sign"}
  TTL = 2
  Skew = 1
  TOKEN_TTL = 2
  MaxTime = 3
  MaxGeneration = 2
SYMMETRY Symmetry
INVARIANTS
  SteadyRate
  RevokedRefused
  AdminRemains
  HandedOutAccepted
  OneShot
CHECK_DEADLOCK FALSE
