SPECIFICATION Spec
CONSTANTS
  Devices = {d1, d2}
  Addresses = {a1}
  Routes = {n1}
  Requests = {r1, r2, r3}
  Kinds = {}
  AddressesEnabled = TRUE
  RoutesEnabled = TRUE
  MaxRetries = 9
  SlowCloud = FALSE
  MaxOpen = 3
  MaxRoleChanges = 3
  MaxFaults = 0
  MaxCrashes = 0
INVARIANTS AddressesFollowActive
