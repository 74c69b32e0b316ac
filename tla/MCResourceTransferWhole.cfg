SPECIFICATION Spec
CONSTANTS
  FileSize = 3
  WireSize = 1
  MemorySize = 1
  MaxFaults = 1
INVARIANT WritesTheFile
CHECK_DEADLOCK FALSE
