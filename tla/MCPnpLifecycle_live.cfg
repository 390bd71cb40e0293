\* The handle is closed at a quiet moment: the cleanup ends.
CONSTANTS
  None = None
  Pdos = {p1, p2}
  Serials = {s1, s2}
  Callers = {c1}
  Calls = {"check", "find"}
  MayCloseWhile = {}
  MayStop = FALSE
  MayVanish = FALSE
  MaxLeaks = 0
SPECIFICATION FairSpec
INVARIANTS
  CleanupLeavesNone
PROPERTIES
  CleanupReturns
  AddedDiskIsEnumerated
  AbsentDiskIsDestroyed
