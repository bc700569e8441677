SPECIFICATION FairSpec
CONSTANTS
  MaxThreads = 3
  MaxEvents = 1
  MaxObjects = 3
  GenerationModulus = 2
  ClockMax = 2
  Timeouts = {1, 2}
  Singletons = {}
PROPERTIES
  RunnableThreadsRun
  CompletedWaitsReturn
  WaitsCompleteOnce
CHECK_DEADLOCK FALSE
