SPECIFICATION MCSpec
CONSTANTS
  Devices = {d1, d2}
  Addresses = {a1, a2}
  Routes = {}
  Requests = {r1, r2, r3}
  Kinds = {"trigger", "status", "reset"}
  AddressesEnabled = TRUE
  RoutesEnabled = TRUE
  MaxRetries = 1
  SlowCloud = FALSE
  MaxOpen = 2
  MaxRoleChanges = 2
  MaxFaults = 1
  MaxCrashes = 1
SYMMETRY Symmetry
INVARIANTS TypeOK LockHasHolder UnassignedIsCarried FailureBlocks
PROPERTIES LockExcludes ImplementsOwnership
