SPECIFICATION Spec
CONSTANTS
  IdxMod = 8
  QSizes = {0, 2, 4}
  Sectors = 3
  Bounce = 1
  Marks <- Marks01
  Requests <- Reqs
  MaxRequests = 3
  MaxTimeouts = 1
  MaxEntries = 4
  MaxParts = 2
  MaxDevices = 4
  Bpc = 2
  Epc = 3
  NumFats = 2
  FatBegin = 1
  FatSize = 1
  RootCluster = 2
  MaxVnodes = 4
  Forever = 99
  BaseLen = 2
  ExtLen = 1
  MaxSegs = 3
  MaxName = 4
  Fds <- MCFds
  Disks <- MCDisks
  Totals <- MCTotals
  Volume <- MCVolume
  Lines <- MCLines
  Payloads <- MCPayloads
  Seeks <- MCSeeks
  MaxCommands = 3
  MaxWrites = 8
  MaxCrashes = 1
INVARIANTS
  QueueSound
  TransferSound
  PartitionIsolation
  
  
  
CHECK_DEADLOCK FALSE
