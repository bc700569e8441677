SPECIFICATION MachineSpec
CONSTANTS
  MaxThreads = 4
  StackPages = 2
  FrameCount = 25
  LedgerCapacity = 23
  RegionCapacity = 2
  IdentityModulus = 3
  EnvThreads = {1, 2}
  BootThread = 1
  FlsSlots = {0, 1}
  FlsValues = {1}
  Sections = {section}
  MaxIdentity = 3
  MaxNesting = 2
  RuntimeSlot = 0
  Payloads <- MachinePayloads
  Bases = {32, 33, 3}
  AddressSpan = 256
  MaxRegions = 3
  MaxExecutables = 1
  MaxImportSymbols = 4
  ImportTargets <- MachineTargets
  StubPage = 29
  StubsPerPage = 3
  StubCode = 90
  OrdinalFlag = 128
  MaxRva = 100
  MaxTemplate = 3
  TlsVectorLength = 2
  TlsBlocks = {1, 27}
  TlsPage = 2
ACTION_CONSTRAINT LowestFit
INVARIANTS
  LoadedImageIsFaithful
  OverrunsAreBounded
  PagesAreAccounted
  ThreadStateIsFaithful
  RegionsMatchStacks
CHECK_DEADLOCK FALSE
