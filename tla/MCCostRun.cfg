\* One process meets every kind of answer in each type of analysis; two analyse one
\* subscription while its month settles and becomes stable.
SPECIFICATION Spec
CONSTANTS
  s1 = s1
  s2 = s2
  r1 = r1
  r2 = r2
  Sub = {s1, s2}
  Spelling = {"asked"}
  Window <- Windows
  NoWindow = NoWindow
  NoRecord = NoRecord
  Omitted = Omitted
  Run = {r1, r2}
  Inputs <- AllInputs
  PlannerPlans <- NoPlans
  CostAnswers <- AllAnswers
  InventoryAnswers <- AnyCounts
  Month <- Months
  Offset = 2
  Lag = 1
  Week = 1
  FirstTime = 1
  MaxTime = 3
CONSTRAINT AloneOrSimple
INVARIANTS
  CachedRunsSucceed
  EvidenceIsQualified
  StatusTellsTheTruth
PROPERTY CellsAreEarned
CHECK_DEADLOCK FALSE
