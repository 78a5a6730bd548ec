\* Two processes, two months around the cutoff, two records in all.
SPECIFICATION Spec
CONSTANTS
  Proc = {p1, p2}
  Month = {1, 2}
  Digest = {d1}
  Junk = {"not_json", "foreign"}
  Cutoff = 2
  MaxWrites = 2
SYMMETRY ProcSymmetry
INVARIANTS
  NeverAWrongAnswer
  SequentialUseIsExact
PROPERTIES
  CellsAreDurable
  ImplementsRegister
