SPECIFICATION Spec
CONSTANTS
  Fragments = {"a", "b"}
  Sessions = {"s1", "s2"}
  MessageIds = {"m1", "m2"}
  Tokens = {0, 2}
  MaxReads = 4
INVARIANTS
  TypeOK ChunksInOrder ResultIsFaithful OneTerminalResult
