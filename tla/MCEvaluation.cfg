\* Three items, one model or two, with and without a publisher.
SPECIFICATION SweepSpec
CONSTANTS
  Dataset <- TheDataset
  Sweeps <- TheSweeps
  Outcomes <- SomeOutcomes
  Refusals <- SomeRefusals
INVARIANTS
  GreenMeansAllPassed
  PassedMeansGrounded
  PublishedIsTheVerdict
CHECK_DEADLOCK FALSE
