SPECIFICATION Spec
CONSTANTS
  Key = {k1}
  Domain = {d1}
  None = None
  Proc = {p1, p2}
  Requests <- AllRequests
  DomainOf <- InDomain
  MaxRestarts = 1
SYMMETRY Symmetry
INVARIANTS
  RevocationHolds
  StoreHolds
