SPECIFICATION MCSpec
CONSTANTS
  Devices = {d1, d2}
  Nics = {i1, i2}
  Aliases = {a1}
  Rules = {f1}
  Routes = {n1}
  NameWithin <- LookAlike
  Tasks = {t1, t2}
  MaxTries = 2
  MaxOpen = 2
  MaxRoleChanges = 2
  MaxFaults = 2
  MaxCrashes = 1
SYMMETRY Symmetry
INVARIANTS TypeOK MissingRouteIsCarried NicKept
PROPERTIES SuccessDelivers ImplementsOwnership
