SPECIFICATION MaintenanceSpec
CONSTANTS
  root = root
  dom = dom
  kek = kek
  dek = dek
  new = new
  NoKey = NoKey
  KeyId = {root, dom, kek, dek, new}
  Cli = cli
  Proc = {cli, srv}
  Requests <- AllRequests
  Provisioned <- Hierarchy
  Lifetimed = {kek}
  UsageLimit <- Limits
  MaxMint = 2
  MaxSealed = 1
  ServerRequests = {}
  KeyRequests = {}
  Named = {root, dom, kek, new}
  Flat = {dek}
  Commands <- MigrateOnly
  MaxCommands = 1
  MaxServed = 0
  MaxLosses = 0
  MaxFaults = 0
INVARIANT
  MigratedBelong
CHECK_DEADLOCK FALSE
