SPECIFICATION Spec
CONSTANTS
  MaxThreads = 2
  MaxEvents = 1
  MaxObjects = 3
  GenerationModulus = 3
  ClockMax = 1
  Timeouts = {1}
  Singletons = {}
PROPERTIES
  FiniteWaitsDoNotHalt
CHECK_DEADLOCK FALSE
