CONSTANTS
  None = None
  Zero = zero
  Values = {zero, x, y}
  MaxSize = 3
  MaxTransfer = 2
  BlocksPerWord = 2
  BlocksPerCylinder = 1
  MayOvertake = FALSE
SPECIFICATION Spec
CHECK_DEADLOCK FALSE
SYMMETRY Symmetry
INVARIANTS
  TypeOK
  ReadReturnsWritten
  ReplyFitsRequest
  CapacityWithinFile
