SPECIFICATION BridgeSpec
CONSTANTS
  c1 = c1
  Calls = {c1}
  MaxAttempts = 1
  Runs <- CallAttempts
  MaxConcurrency = 1
  Kinds = {"chunk", "result", "badvalue"}
  Errors = {"hard"}
  Statuses = {}
  Modes = {"buffered", "stream"}
  SelfCancels = FALSE
  MaxEvents = 1
INVARIANT TypedErrorsOnly
