\* Rows are lost, garbled or added; the envelope counts what the query matched.
SPECIFICATION WasteSpec
CONSTANTS
  s1 = s1
  s2 = s2
  g1 = g1
  g2 = g2
  ip = ip
  disk = disk
  east = east
  AnyRegion = AnyRegion
  Resource <- Resources
  Scopes <- AllScopes
  Lanes <- TwoLanes
  RateCard <- Rates
  Paging = FALSE
INVARIANTS
  TotalsAreHonest
  EvidenceIsInScope
  LossesAreReported
CHECK_DEADLOCK FALSE
