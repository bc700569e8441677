SPECIFICATION Spec
CONSTANTS
  MaxThreads = 2
  MaxEvents = 2
  MaxObjects = 3
  GenerationModulus = 3
  ClockMax = 0
  Timeouts = {}
  Singletons = {"NOTIFICATION", "STREAM"}
PROPERTIES
  StaleHandlesStayStale
  ReclaimIsSafe
CHECK_DEADLOCK FALSE
