SPECIFICATION FairSpec
CONSTANTS
  Devices = {d1, d2}
  Addresses = {a1}
  Routes = {n1}
  Requests = {r1, r2}
  Kinds = {"trigger", "status", "reset"}
  AddressesEnabled = TRUE
  RoutesEnabled = TRUE
  MaxRetries = 2
  SlowCloud = TRUE
  MaxOpen = 2
  MaxRoleChanges = 2
  MaxFaults = 1
  MaxCrashes = 1
PROPERTIES EveryRequestAnswered
