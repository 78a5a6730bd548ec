\* Three runs on one directory, one of them below runs/eval.
SPECIFICATION Spec
CONSTANTS
  r1 = r1
  r2 = r2
  r3 = r3
  k1 = k1
  k2 = k2
  f1 = f1
  f2 = f2
  hollow = hollow
  Run <- Runs
  Nested = {r3}
  Target = {k1, k2}
  Filter = {f1, f2}
  Asked <- SomeScopes
  Junk = {}
  Hollow = {hollow}
  Limit = 1
  MaxTime = 1
INVARIANTS
  RunJsonStandsForAReport
  HistoryIsExact
  ExitTellsTheTruth
SYMMETRY Symmetry
