SPECIFICATION Spec
CONSTANTS
  Messages <- SdkMessages
  Times = {"early", "late", "bad"}
  BadTimes = {"bad"}
  MaxMessages = 3
INVARIANTS
  TypeOK RaisedAsDocumented NothingDropped CancellationShielded ShutdownReallyCloses
PROPERTIES SdkStreamEnds HonoursContract
