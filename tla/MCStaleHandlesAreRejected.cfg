SPECIFICATION Spec
CONSTANTS
  MaxThreads = 2
  MaxEvents = 1
  MaxObjects = 3
  GenerationModulus = 3
  ClockMax = 1
  Timeouts = {1}
  Singletons = {}
PROPERTIES
  StaleHandlesAreRejected
CHECK_DEADLOCK FALSE
