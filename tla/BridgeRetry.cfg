SPECIFICATION BridgeFairSpec
CONSTANTS
  c1 = c1
  Calls = {c1}
  MaxAttempts = 2
  Runs <- CallAttempts
  MaxConcurrency = 1
  Kinds = {"chunk", "silent", "result", "malformed"}
  Errors = {"throttled", "plan", "auth"}
  Statuses = {"throttled", "plan", "auth", "deadline"}
  Modes = {"buffered", "stream"}
  SelfCancels = FALSE
  MaxEvents = 2
INVARIANTS
  BridgeTypeOK OnlyTransientRetried ChunksOfOneAttempt OneSlotPerCall ResultIsFinal
PROPERTY BufferedCallEnds
