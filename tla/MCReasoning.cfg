\* Every answer of the instance, over a pool with and without a quarantine.
SPECIFICATION Spec
CONSTANTS
  NoResource = NoResource
  EvidencePools <- Pools
  Answers <- SomeAnswers
INVARIANTS
  SupportIsClosed
  EveryLossIsReported
  ProcessedOutputPasses
CHECK_DEADLOCK FALSE
