SPECIFICATION Spec
CONSTANTS
  Callers = {0, 3}
INVARIANTS
  AtomicTransition
