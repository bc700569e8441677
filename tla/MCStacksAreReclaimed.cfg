SPECIFICATION Spec
CONSTANTS
  MaxThreads = 4
  StackPages = 2
  FrameCount = 26
  LedgerCapacity = 20
  RegionCapacity = 2
  IdentityModulus = 3
ACTION_CONSTRAINT LowestFit
INVARIANT StacksAreReclaimed
CHECK_DEADLOCK FALSE
