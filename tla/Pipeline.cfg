SPECIFICATION PipelineFairSpec
CONSTANTS
  r1 = r1
  Run = r1
  Runs = {r1}
  MaxConcurrency = 1
  Kinds = {"event"}
  Errors = {"plan", "auth", "transient", "adapter", "CLINotFound", "foreign"}
  SelfCancels = FALSE
  MaxEvents = 6
  MaxTurn = 3
  Messages <- SomeMessages
  Times = {}
  BadTimes = {}
  MaxMessages = 3
  SdkEndings <- EndOrCrash
INVARIANTS PipelineTypeOK SlotLifetime AgentToldInTime
PROPERTIES GivesUpOnlyOnStuckClose OnlyHungReadCancelled StreamReaped EveryStreamEnds
