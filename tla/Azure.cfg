SPECIFICATION MCSpec
CONSTANTS
  Devices = {d1, d2}
  Tags = {g1, g2}
  Addresses = {a1, a2}
  Routes = {n1}
  Tasks = {t1, t2, t3}
  Overlapping = FALSE
  MaxTries = 2
  MaxRoleChanges = 3
  MaxFaults = 2
  MaxCrashes = 1
SYMMETRY Symmetry
INVARIANTS TypeOK LostOnlyInTrouble AddressesFollowActive
PROPERTIES SuccessDelivers
