SPECIFICATION Spec
CONSTANTS
  d1 = d1
  d2 = d2
  d3 = d3
  Deals = {d1, d2, d3}
  MutexOutcomes = {"einval"}
  CreateMayFail = TRUE
  PipeRead = 2
  NoDeal = NoDeal
INVARIANT ThreadClaims
