SPECIFICATION FairSpec
CONSTANTS
  PageSize = 2
  Granule = 2
  ArenaPages = 5
  TableSpan = 2
  MaxReservations = 3
  MaxCommitments = 2
  MaxTables = 5
  LedgerCapacity = 8
  Frames = {1,2,3,4,5,6,7,8,9}
  NoFrame = 0
  Sizes = {1, 3, 5}
CONSTRAINT RootIsLowest
ACTION_CONSTRAINT LowestFrameFirst
INVARIANTS
  ArenaIsValid
  MappingsMatchCommitments
  FramesHaveOneOwner
  NoStaleTranslation
PROPERTIES
  ImplementsAddressSpace
  CallsReturn
