SPECIFICATION FairSpec
CONSTANTS
  NTests = 3
  PoolSizes = {1, 2, 4}
INVARIANTS TypeOK NoBrokenPipe FailureReported
PROPERTIES ImplementsTestRun RunEnds
