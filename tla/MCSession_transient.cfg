\* The live transport throws without a status: a 502 or a 503 is not retried.
SPECIFICATION Spec
CONSTANTS
  cost = cost
  graph = graph
  update = update
  other = other
  w1 = w1
  w2 = w2
  Main = Main
  Capability <- Names
  Allowlist = {cost, graph, update}
  MutatingName = {update}
  Required = {cost}
  Inspected = cost
  Offers <- SomeOffers
  PlanAnswers <- SomePlans
  Playbook <- ThePlaybook
  Answers <- AnyAnswer
  Worker <- Workers
  MaxCalls = 2
INVARIANT TransientStatusIsRetried
CHECK_DEADLOCK FALSE
