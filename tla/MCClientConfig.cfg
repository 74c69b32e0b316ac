SPECIFICATION ConfigsSpec
CONSTANTS
  n1 = n1
  n2 = n2
  n3 = n3
  Name = {n1, n2, n3}
  Stem <- Plain
  Proc = {1}
  MaxInterrupts = 2
  Alias = {n1, n2}
  MaxCommandCuts = 2
INVARIANTS
  CurrentExists
  ClientsHaveCurrent
PROPERTY UnreadableIsKept
