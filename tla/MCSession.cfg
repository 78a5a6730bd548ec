\* Two workers and the run share a client; calls fail in every known way.
SPECIFICATION FairSpec
CONSTANTS
  cost = cost
  graph = graph
  update = update
  other = other
  w1 = w1
  w2 = w2
  Main = Main
  Capability <- Names
  Allowlist = {cost, graph, update}
  MutatingName = {update}
  Required = {cost}
  Inspected = cost
  Offers <- SomeOffers
  PlanAnswers <- SomePlans
  Playbook <- ThePlaybook
  Answers <- AnyAnswer
  Worker <- Workers
  MaxCalls = 3
INVARIANTS
  OnlyReadsReachTheWire
  OneConnection
  PlansAreExecutable
  RetriesMakeSense
PROPERTY SessionCloses
CHECK_DEADLOCK FALSE
