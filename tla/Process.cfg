SPECIFICATION Spec
CONSTANTS
  Entries = 10
  Half = 5
  Section <- Sections
  PageSize = 8
  SlabSizes <- Slabs
  AllocHeader = 1
  PhSize = 1
  HeaderSize = 2
  StackPages = 1
  MaxBuffer = 16
  MaxProcs = 2
  Workers = {2, 3}
  StackSlots = 3
  KStack = 2
  PoolSizes = {4, 11, 12, 24, 28, 40}
  Images <- Tests
  Buffers <- Bufs
  Sizes = {1}
  MaxAttempts = 2
  MaxLive = 2
INVARIANTS
  AddressSpaceLive FramesPartitioned KernelStacksMapped 
  LoadSound SelfTestSound HeapBlocksSound
CHECK_DEADLOCK FALSE
