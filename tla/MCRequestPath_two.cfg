\* Two disks sharing the service's one GET_REQUEST, cancellation and removal.
CONSTANTS
  d1 = d1
  d2 = d2
  i1 = i1
  i2 = i2
  i3 = i3
  None = None
  Pdos = {d1, d2}
  Irps = {i1, i2, i3}
  Reqs = {r1}
  Target <- TargetTwo
  MayCancel = TRUE
  MayRemove = TRUE
SPECIFICATION Spec
\* Each request is sent once: an instance stops when all are dealt with.
CHECK_DEADLOCK FALSE
SYMMETRY IrpSymmetry
INVARIANTS
  TypeOK
  InServiceIsCurrent
  CurrentIsInService
  UncancelledCompletedOnce
  RemoveLockBalanced
PROPERTIES
  ReplyTakesItsIrp
  ImplementsDiskRequests
