\* Everything may happen: safety.
CONSTANTS
  None = None
  Pdos = {p1, p2}
  Serials = {s1}
  Callers = {c1}
  Calls = {"check", "find", "walk"}
  MayCloseWhile = {"adding", "unenumerated", "removing"}
  MayStop = TRUE
  MayVanish = TRUE
  MaxLeaks = 1
SPECIFICATION Spec
\* Hangs the violations show are reached here: a cleanup waiting for a disk it
\* no longer finds, a removal of the bus waiting for a leaked lock.
CHECK_DEADLOCK FALSE
SYMMETRY Symmetry
INVARIANTS
  TypeOK
  CountIsList
  ListedAreLive
  EventMeansGone
  UniqueSerial
  NoDanglingParent
  StatesAgree
  FdoRemoveLockBalanced
PROPERTIES
  DestroyedWhenMissing
  EventStays
