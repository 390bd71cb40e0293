\* Two disks: BusStartNextPacket borrows the only request IRP.
CONSTANTS
  d1 = d1
  d2 = d2
  i1 = i1
  i2 = i2
  i3 = i3
  None = None
  Pdos = {d1, d2}
  Irps = {i1, i2, i3}
  Reqs = {r1}
  Target <- TargetTwo
  MayCancel = FALSE
  MayRemove = FALSE
SPECIFICATION Spec
\* Each request is sent once: an instance stops when all are dealt with.
CHECK_DEADLOCK FALSE
INVARIANTS
  NoStrandedIrp
