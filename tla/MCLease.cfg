SPECIFICATION LeaseFairSpec
CONSTANTS
  r1 = r1
  r2 = r2
  Request = {r1, r2}
  MaxFaults = 2
INVARIANTS
  HolderWasGranted
  CleanExit
  SweepComplete
PROPERTIES
  ReadyIsTaken
  WaitEnds
CHECK_DEADLOCK FALSE
