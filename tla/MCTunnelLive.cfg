SPECIFICATION FairSpec
CONSTANTS
  c1 = c1
  c2 = c2
  c3 = c3
  Conn = {c1, c2}
  QueueSize = 1
  MaxFaults = 1
  MayStop = TRUE
  Patient = {c1}
PROPERTIES
  ServedUnlessAbandoned
  Recovers
  StopEnds
CHECK_DEADLOCK FALSE
