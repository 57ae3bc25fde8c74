SPECIFICATION Spec
CONSTANTS
  MAX_THREADS = 4
  MAX_STACK_SLOTS = 4
  MAX_CAPACITY = 4
  TIMESLICE = 2
  MaxWindowTicks = 2
  MaxTotal = 5
INVARIANT
  RunsOnLiveStack
