SPECIFICATION EnvSpec
CONSTANTS
  EnvThreads = {1, 2}
  BootThread = 1
  FlsSlots = {0}
  FlsValues = {1}
  Sections = {section}
  MaxIdentity = 2
  MaxNesting = 2
  RuntimeSlot = 0
INVARIANT ContentionFails
CHECK_DEADLOCK FALSE
