\* The handle is closed while a disk is being removed: the cleanup may hang.
CONSTANTS
  None = None
  Pdos = {p1}
  Serials = {s1}
  Callers = {c1}
  Calls = {"check", "find", "walk"}
  MayCloseWhile = {"removing"}
  MayStop = FALSE
  MayVanish = FALSE
  MaxLeaks = 0
SPECIFICATION FairSpec
PROPERTIES
  CleanupReturns
