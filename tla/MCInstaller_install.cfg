CONSTANTS
  None = None
  Nodes = {n1, n2, n3}
  Sessions = {s1, s2}
SPECIFICATION FairSpec
CHECK_DEADLOCK FALSE
INVARIANTS
  TypeOK
  InfIsFound
  OneNodeIfChecked
  InstalledIsWhole
PROPERTIES
  ProductCanBeRemoved
