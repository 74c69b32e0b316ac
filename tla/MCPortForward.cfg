SPECIFICATION AdapterSpec
CONSTANTS
  MaxChunks = 3
  WireSize = 2
  MaxMessages = 2
  QueueSize = 2
  Buffered = 2
INVARIANTS
  HandshakeFirst
  OnlyMessages
PROPERTIES
  HalvesAreWhole
  ClosedBothWays
  RepliesArrive
CHECK_DEADLOCK FALSE
