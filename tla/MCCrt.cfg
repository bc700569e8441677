SPECIFICATION CrtSpec
CONSTANTS
  Capacity = 2
  MaxRequest = 3
  Alignment = 2
  AddressMax = 10
  CounterMax = 11
  Protected = {5}
  Sizes = {1, 3, 4}
  WordBits = 5
  PointerSize = 2
  Hole = {28}
  ImageBase = 2
  ImageEnd = 22
  ImageRegions <- CrtRegions
  Cookies = {5, 10, 13, 22, 29}
  Tables <- CrtTables
  Preset <- CrtPreset
  OnExitFunctions = {0, 1, 18}
  StorageSlots = 2
  MaxInitialized = 3
  PoolBases = {16, 21, 22, 30}
  InitTable <- CrtInitTable
  InitBounds = {0, 4, 5, 8, 14, 16, 28}
  MaxEntries = 5
  MaxTrace = 8
  MaxCalls = 2
  PayloadImages <- CrtPayloads
  HarnessImage <- CrtHarness
  MaxSections = 2
  VehCapacity = 3
  SequenceMax = 9
  Handlers = {0, 4, 18, 25, 28}
  Int3 = 24
  ApprovedEnd = 28
  BootLower = 29
  BootUpper = 31
  AllowedFlags = {"CF"}
  Traps <- CrtTraps
  Changes <- CrtChanges
INVARIANTS
  HeapIsConsistent
  TablesAreFaithful
  WalksAreFaithful
  DoubleFreesAreRecognised
  HandlersRunInOrder
  OnlyApprovedContextsResume
  GuardsFollowTheDispatch
CHECK_DEADLOCK FALSE
