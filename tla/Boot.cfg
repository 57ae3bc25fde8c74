SPECIFICATION Spec
CONSTANTS
  MaxInfoSize = 1024
  MaxMmap = 3
  MaxAddr = 40
  PageSize = 2
  BigPage = 4
  BitsPerUnit = 8
  LowEnd = 2
  MaxRegions = 8
  Capacity = 2
  IdxMod = 4
  MaxFifo = 6
  MaxStrokes = 5
  Machines <- MCMachines
  Kernel <- MCKernel
CHECK_DEADLOCK FALSE
INVARIANTS
  ParseSound
  MemoryMapSound
  EventsInOrder
  ModifiersMatch
