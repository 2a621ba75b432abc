SPECIFICATION MCSpec
CONSTANTS
  Devices = {d1, d2}
  Tagged = {}
  Addresses = {a1, a2}
  Tasks = {t1, t2}
  Overlapping = FALSE
  MaxTries = 2
  MaxRoleChanges = 2
  MaxFaults = 2
  MaxCrashes = 0
INVARIANTS ElasticLostInTrouble
PROPERTIES ImplementsOwnership
