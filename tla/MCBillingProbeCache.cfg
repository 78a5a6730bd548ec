\* Two workers of one process and one of another.
SPECIFICATION Spec
CONSTANTS
  w1 = w1
  w2 = w2
  w3 = w3
  p1 = p1
  p2 = p2
  Worker = {w1, w2, w3}
  Process = {p1, p2}
  ProcessOf <- TwoProcesses
  Sub = {s1, s2}
  Outcome = {"pass", "denied"}
  Millisecond = {m1, m2}
  PassTtl = 2
  NonPassTtl = 1
  MaxTime = 2
  MaxWrites = 2
SYMMETRY Symmetry
INVARIANTS
  HitsAreFresh
  SequentialSetsAccumulate
PROPERTIES
  FileHeals
