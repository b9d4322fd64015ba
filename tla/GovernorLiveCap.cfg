SPECIFICATION Spec
CONSTANTS
  r1 = r1
  r2 = r2
  Runs = {r1, r2}
  Steady = {}
  MaxConcurrency = 1
  Kinds = {"event"}
  Errors = {"error"}
  SelfCancels = FALSE
  MaxEvents = 2
INVARIANT LiveWithinCap
