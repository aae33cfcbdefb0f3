SPECIFICATION FairSpec
CONSTANTS
  Modes = {"bare", "piped"}
  Byte <- Bytes
  Zero <- ZeroByte
  Cells <- SomeCells
  MaxCalls = 3
INVARIANTS NothingLost LoadsInOrder CallsAtomic FailsRightly
PROPERTIES StableRequest CallReturns
CHECK_DEADLOCK FALSE
