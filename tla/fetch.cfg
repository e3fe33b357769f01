SPECIFICATION FairSpec
CONSTANTS
  MaxSets = 3
  MaxRows = 2
  Chunks <- MCChunks
  InterruptEvery = 2
  FirstRows = 1
  IntMax = 7
  Faults <- AllFaults
INVARIANTS FrameOK NoRowTwice NoRowSkipped CompleteIsExact
PROPERTY
  FetchTerminates
