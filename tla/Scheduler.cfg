SPECIFICATION Spec
CONSTANTS
  MAX_THREADS = 5
  MAX_STACK_SLOTS = 5
  MAX_CAPACITY = 5
  TIMESLICE = 2
  MaxWindowTicks = 1
  MaxTotal = 6
INVARIANTS
  TypeOK
  OneRunning
  ReadyIffQueued
  StackOwnership
  RunsOnLiveStack
  ContextsSound
  Accounting
PROPERTY
  RoundRobin
