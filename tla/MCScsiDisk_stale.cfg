CONSTANTS
  None = None
  Zero = zero
  Values = {zero, x, y}
  MaxSize = 2
  MaxTransfer = 1
  BlocksPerWord = 2
  BlocksPerCylinder = 1
  MayOvertake = TRUE
SPECIFICATION Spec
CHECK_DEADLOCK FALSE
SYMMETRY Symmetry
INVARIANTS
  ReadReturnsWritten
