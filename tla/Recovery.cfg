SPECIFICATION Spec
CONSTANTS
  Devices = {d1, d2}
  Addresses = {a1}
  Routes = {n1}
  Requests = {r1, r2}
  Kinds = {"trigger"}
  AddressesEnabled = TRUE
  RoutesEnabled = TRUE
  MaxRetries = 2
  SlowCloud = FALSE
  MaxOpen = 1
  MaxRoleChanges = 1
  MaxFaults = 1
  MaxCrashes = 0
INVARIANTS SuccessIsReal
