SPECIFICATION MCSpec
CONSTANTS
  Declarations = {c1, c2}
  Scripts = {tgactive, tgrefresh}
  Requests = {r1, r2, r3}
  MaxOpen = 3
  MaxFaults = 2
  MaxRestarts = 1
SYMMETRY Symmetry
INVARIANTS TypeOK TriggersOnce AcceptedSurvives
PROPERTIES AcceptedAsDeclared
