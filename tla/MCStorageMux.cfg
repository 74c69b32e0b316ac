SPECIFICATION Spec
CONSTANTS
  c1 = c1
  c2 = c2
  Call = {c1, c2}
  Exported <- Methods
  Other = {}
  Coroutines <- Writes
  MaxThreads = 1
  Size = 2
  MaxFaults = 1
SYMMETRY Symmetry
PROPERTIES
  WritesStorage
  NoStrayFile
