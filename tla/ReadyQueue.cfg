SPECIFICATION Spec
CONSTANTS
  Threads = {t1, t2, t3, t4}
  MAX_CAPACITY = 3
  NullThread = NullThread
INVARIANTS
  TypeOK
  RingInv
PROPERTY
  ImplementsFifo
