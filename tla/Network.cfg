SPECIFICATION Spec
CONSTANTS
  IdxMod = 4
  RxCount = 2
  ArpCap = 2
  MaxConns = 2
  MaxListeners = 2
  MaxSessions = 2
  MaxCmd = 4
  MaxAuthFailures = 2
  Setups <- MCSetups
  DefaultToken <- Token0
  RetryOffer = 1
  RetryAck = 2
  MaxPolls = 4
  MaxNics = 4
  MaxStalls = 1
CHECK_DEADLOCK FALSE
INVARIANTS
  RingsSound
  LeaseSound
  ArpSound
  UniqueConnections
  SessionsMatch
  
