SPECIFICATION Spec
CONSTANTS
  r1 = r1
  r2 = r2
  Runs = {r1, r2}
  Steady = {}
  MaxConcurrency = 1
  Kinds = {"event"}
  Errors = {"error"}
  SelfCancels = FALSE
  MaxEvents = 3
SYMMETRY RunSymmetry
INVARIANTS
  TypeOK NoWorkWithoutSlot OnePermit LookAhead NormalEndIsComplete OutcomeMeansReaped
