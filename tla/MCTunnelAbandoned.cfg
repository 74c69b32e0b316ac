SPECIFICATION FairSpec
CONSTANTS
  c1 = c1
  c2 = c2
  c3 = c3
  Conn = {c1, c2}
  QueueSize = 1
  MaxFaults = 0
  MayStop = FALSE
  Patient = {c1}
PROPERTY EveryDialServed
CHECK_DEADLOCK FALSE
