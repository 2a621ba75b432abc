SPECIFICATION Spec
CONSTANTS
  Devices = {d1, d2}
  Addresses = {a1, a2}
  Routes = {n1}
  Requests = {r1, r2, r3, r4}
  Kinds = {"trigger", "status", "reset"}
  AddressesEnabled = TRUE
  RoutesEnabled = TRUE
  MaxRetries = 1
  SlowCloud = FALSE
  MaxOpen = 1
  MaxRoleChanges = 3
  MaxFaults = 0
  MaxCrashes = 0
SYMMETRY Symmetry
INVARIANTS AddressesFollowActive RoutesFollowActive SuccessIsReal
