SPECIFICATION Spec
CONSTANTS
  MaxThreads = 3
  MaxEvents = 1
  MaxObjects = 4
  GenerationModulus = 2
  ClockMax = 0
  Timeouts = {1}
  Singletons = {}
INVARIANTS
  TypeOK
  RunQueueMatchesStates
  WaitersMatchRecords
  HandlesNameTheirTargets
  NoLostWakeup
  EventsOutliveWaits
  CapacitySuffices
PROPERTIES
  ImplementsEventWaits
CHECK_DEADLOCK FALSE
