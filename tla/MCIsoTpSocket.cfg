SPECIFICATION Spec
CONSTANTS
  c1 = c1
  c2 = c2
  c3 = c3
  Call = {c1, c2, c3}
  Exported <- Methods
  Other <- Attributes
  Coroutines = {}
  MaxThreads = 2
  MaxFaults = 2
SYMMETRY Symmetry
INVARIANTS
  SettlesUsable
  UnknownNeedsRace
