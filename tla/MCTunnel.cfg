SPECIFICATION Spec
CONSTANTS
  c1 = c1
  c2 = c2
  c3 = c3
  Conn = {c1, c2, c3}
  QueueSize = 1
  MaxFaults = 1
  MayStop = TRUE
  Patient = {}
SYMMETRY Symmetry
INVARIANTS
  OneLiveSession
  NoMissedRendezvous
  DialAccounted
  TalksToOwnSession
  ServerHasDevices
  LeaksNeedFailures
  ServesOnlyRegistered
PROPERTIES
  StopIsFinal
  AccessSpec
CHECK_DEADLOCK FALSE
