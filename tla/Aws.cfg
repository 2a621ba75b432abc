SPECIFICATION MCSpec
CONSTANTS
  Devices = {d1, d2}
  Tagged = {e1}
  Addresses = {a1}
  Tasks = {t1, t2}
  Overlapping = TRUE
  MaxTries = 2
  MaxRoleChanges = 2
  MaxFaults = 1
  MaxCrashes = 1
INVARIANTS TypeOK
PROPERTIES SuccessDelivers ImplementsOwnership UpdatesEnd
