SPECIFICATION FairSpec
CONSTANTS
  c1 = c1
  c2 = c2
  Call = {c1, c2}
  Exported <- CanMethods
  Other = {}
  Coroutines = {}
  MaxThreads = 2
  MaxSessions = 2
  MaxTasks = 2
  MaxFaults = 1
INVARIANTS
  Silenced
  ListedAreStopped
PROPERTY ChannelIsFreed
CHECK_DEADLOCK FALSE
