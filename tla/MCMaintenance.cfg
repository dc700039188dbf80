SPECIFICATION MaintenanceSpec
CONSTANTS
  root = root
  dom = dom
  kek = kek
  dek = dek
  new = new
  NoKey = NoKey
  KeyId = {root, dom, kek, dek, new}
  Cli = cli
  Proc = {cli, srv}
  Requests <- AllRequests
  Provisioned <- Hierarchy
  Lifetimed = {kek}
  UsageLimit <- Limits
  MaxMint = 2
  MaxSealed = 1
  ServerRequests <- SomeServerRequests
  KeyRequests <- SomeKeyRequests
  Named = {root, dom, kek, new}
  Flat = {dek}
  Commands <- SomeCommands
  MaxCommands = 3
  MaxServed = 2
  MaxLosses = 1
  MaxFaults = 1
INVARIANTS
  RecoveredDecrypts
  MigrationSettles
  DoctorSound
CHECK_DEADLOCK FALSE
