SPECIFICATION SlotSpec
CONSTANTS
  r1 = r1
  r2 = r2
  r3 = r3
  r4 = r4
  Runs = {r1, r2, r3, r4}
  Steady = {r1, r2}
  MaxConcurrency = 2
  Kinds = {"event"}
  Errors = {}
  SelfCancels = FALSE
  MaxEvents = 0
SYMMETRY RunSymmetry
INVARIANTS SlotsAccounted HealthExact NoLostWakeup
PROPERTY ImplementsPool
