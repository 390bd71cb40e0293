CONSTANTS
  None = None
  Procs = {p1, p2}
  Ids = {1, 2}
  Callers = {c1, c2}
SPECIFICATION FairSpec
CHECK_DEADLOCK FALSE
INVARIANTS
  TypeOK
  RegisteredIsServed
  DeletedOnce
  RequestIsForDisk
  RunUsesLiveDisk
PROPERTIES
  ImplementsAttachedDisks
  DestroyedIsFreed
  StopEnds
