\* A baseline call fails.
SPECIFICATION Spec
CONSTANTS
  s1 = s1
  s2 = s2
  r1 = r1
  r2 = r2
  Sub = {s1}
  Spelling = {"asked"}
  Window <- Windows
  NoWindow = NoWindow
  NoRecord = NoRecord
  Omitted = Omitted
  Run = {r1}
  Inputs <- OneSurprise
  PlannerPlans <- NoPlans
  CostAnswers <- PlainAnswers
  InventoryAnswers <- AnyCounts
  Month <- Months
  Offset = 2
  Lag = 1
  Week = 1
  FirstTime = 1
  MaxTime = 3
INVARIANT SuccessMeansEverythingLanded
CHECK_DEADLOCK FALSE
