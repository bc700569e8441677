SPECIFICATION PlatformSpec
CONSTANTS
  WordBits = 5
  PointerSize = 2
  Hole = {28}
  ImageBase = 2
  ImageEnd = 18
  ImageRegions <- PlatformRegions
  StackRegion <- PlatformStack
  Allocations <- PlatformAllocations
  QueryPointers = {0, 4, 5, 12, 22, 24, 28, 31}
  QueryHandles <- PlatformHandles
  Snapshots <- PlatformSnapshots
  JobFacts <- PlatformJobs
  JobClasses = {14, 15}
  JobLengths = {1, 2, 3}
  MaskSize = 2
  InfoSize = 3
  InfoAlignment = 2
  MaxRelationships = 2
  InitialBytes = {0, 9}
  MaxQueries = 1
  Text <- PlatformText
  NamePointers = {0, 4, 6, 7, 10, 12, 13, 28, 31}
  OutputPointers = {20, 23}
  StackLower = 20
  StackUpper = 24
  MainModules <- PlatformModules
  WideSize = 2
  NameLimit = 3
  ScanLimit = 3
  Surroundings <- PlatformSurroundings
  PreviewLimit = 2
  EnvironmentPreview = 4
  MaxOrdinal = 3
  Kernel32Names <- PlatformKernel32Names
  NtdllName <- PlatformNtdllName
  Kernel32 = 25
  EnvironmentEntries <- PlatformEnvironment
  MaxNameCalls = 2
  BootStack <- PlatformStack
  WorkerStack <- PlatformWorkerStack
  HeapBlocks <- PlatformHeap
  Sources <- PlatformSources
  SourceBase = 11
  BufferPointers = {0, 11, 12, 16, 28}
  CountPointers = {0, 13, 12, 22}
  DestinationPointers = {0, 18, 25, 11}
  WriteLengths = {0, 2, 4}
  UnitCounts = {0, 2, 3}
  CountSize = 1
  NulLimit = 4
  MaxStreamCalls = 2
  Dates <- PlatformDates
  FirmwareSeconds = {0, 3, 4}
  Zones <- PlatformZones
  UnspecifiedZone = 9
  MaxZone = 4
  SecondsPerDay = 4
  UnitsPerSecond = 10
  UnitsPerMillisecond = 2
  UnspecifiedIsUtc = TRUE
  Processors <- PlatformProcessors
  MaxFrequency = 23
  TimerFrequency = 3
  TimerPeriod = 4
  MaxTicks = 14
  MaxClockCalls = 3
  FirmwareMaps <- PlatformMaps
  AccountingMax = 255
  AccountingPage = 2
  MapSlack = 1
  MaxMap = 7
  MaxDescriptors = 5
  MaxMapRetries = 2
  AccountCapacity = 3
  PoolSizes = {1, 3}
  ArenaGranules = {20, 24}
  GranulePages = 2
  StatusRegions <- PlatformStatusRegions
  StatusPointers = {0, 2, 5, 6, 20, 21}
  StatusSize = 2
  GenerationMax = 6
INVARIANTS
  QueriesAreTruthful
  StringsAreReadWhole
  AnswersAreConfirmed
  StreamsAreFaithful
  ConversionsAreFaithful
  StatusIsTruthful
  FiletimeIsTheInstant
  CounterTracksHardware
  AcquisitionKeepsOneBuffer
CHECK_DEADLOCK FALSE
