CONSTANTS
  Clients = {c1, c2}
  Scores = {0, 2}
  MaximumDrop = 1
  MaxVersions = 4
  MaxRuns = 2
SPECIFICATION Spec
SYMMETRY Symmetry
INVARIANTS OneActive RegressionSlipsOnlyIfRaced
PROPERTIES ActivatedByLastRun
