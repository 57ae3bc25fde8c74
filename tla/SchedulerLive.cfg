SPECIFICATION FairSpec
CONSTANTS
  MAX_THREADS = 4
  MAX_STACK_SLOTS = 4
  MAX_CAPACITY = 4
  TIMESLICE = 2
  MaxWindowTicks = 1
  MaxTotal = 5
PROPERTIES
  NoStarvation
  EventuallyReclaimed
