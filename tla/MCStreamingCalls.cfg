SPECIFICATION MCSpec
CONSTANTS
  c1 = c1
  c2 = c2
  Node = {0, 1, 2, 3}
  Root = 0
  Name = {"power", "serial"}
  Nobody = Nobody
  Call = {c1, c2}
  MaxResults = 1
  Window = 1
INVARIANTS
  SameTree
  ItsDriver
PROPERTIES
  ResultsAreWhole
  LeftIsClosed
CHECK_DEADLOCK FALSE
