SPECIFICATION Spec
CONSTANTS
  CostCap = CostCap
  GraphCap = GraphCap
  NoFailure = NoFailure
  MaxRequests = 3
  Capability <- MCCapability
  Plans <- MCPlans
  ServerFailures = {"rate_limit", "timeout", "auth"}
  MaxAttempts = 3
  BaseDelay = 1
  MaxDelay = 3
  Jitter = 2
  TotalBudget = 4
  Pace = 2
  PacingBudget = 3
INVARIANTS
  TypeOK
  BudgetsHold
  RetriesAreJustified
  Backpressure
  EntriesMatchCalls
  RollupMatchesServer
PROPERTIES
  ImplementsLedger
  RunEnds
