\* Any list of up to three subscriptions with any counts or names; two workers
\* probe a few of these worlds through a cache that may hit.
SPECIFICATION Spec
CONSTANTS
  s1 = s1
  s2 = s2
  s3 = s3
  Sub = {s1, s2, s3}
  Concurrency = 2
  Response <- SomeResponses
  CacheOn = TRUE
  World <- Worlds
INVARIANTS
  SelectionIsTheBest
  SelectionIsProbed
  ResultsAreEarned
PROPERTY DiscoveryEnds
CHECK_DEADLOCK FALSE
