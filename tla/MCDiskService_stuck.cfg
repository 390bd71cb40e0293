CONSTANTS
  None = None
  Procs = {p1}
  Ids = {1}
  Callers = {c1}
SPECIFICATION FairSpec
CHECK_DEADLOCK FALSE
INVARIANTS
  StoppedIsReported
