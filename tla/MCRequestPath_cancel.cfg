\* One disk: an IRP is cancelled while it is CurrentIrp.
CONSTANTS
  d1 = d1
  d2 = d2
  i1 = i1
  i2 = i2
  i3 = i3
  None = None
  Pdos = {d1}
  Irps = {i1, i2}
  Reqs = {r1}
  Target <- TargetOne
  MayCancel = TRUE
  MayRemove = FALSE
SPECIFICATION Spec
\* Each request is sent once: an instance stops when all are dealt with.
CHECK_DEADLOCK FALSE
INVARIANTS
  CompletedOnce
