SPECIFICATION FairSpec
CONSTANTS
  FileSize = 4
  WireSize = 2
  MemorySize = 2
  MaxFaults = 2
INVARIANTS
  SuccessIsComplete
PROPERTIES
  FlashIsWhole
  Completes
  TransferEnds
CHECK_DEADLOCK FALSE
