---------------------------- MODULE ScsiDiskProofs ----------------------------
(***************************************************************************)
(* Proofs about ScsiDisk, for all sizes, values and bounds: the types, the *)
(* capacity, and, as long as no removal overtakes a request in Run's       *)
(* hands, the fit of replies and what reads return.                        *)
(***************************************************************************)
EXTENDS ScsiDisk, TLAPS

(* Every request the service has or will take lies on the disk, or ends    *)
(* with the block behind it. *)
OnDisk(r) == r.lba + r.n - 1 <= nBlocks

(* The file is never shorter than the last disk made of it.  This holds    *)
(* also when the disk is gone, so a request that outlives a removal is on  *)
(* the next disk too. *)
SizeOK ==
  /\ nBlocks <= size
  /\ disk # "none" => size <= nBlocks + 1 /\ nBlocks < MaxSize
  /\ transit # None => OnDisk(transit)
  /\ ready => OnDisk(slot)

(* The request of CurrentIrp, which is all the disk works on, is in one    *)
(* place: with Run, with the worker, or in a reply. *)
Same(r) ==
  current # None =>
    /\ r.op = current.op
    /\ r.lba = current.lba
    /\ r.n = current.n

AloneOK ==
  /\ disk = "none" => transit = None
  /\ transit # None => ~ ready /\ ~ replying
  /\ ready => ~ replying
  /\ disk = "attached" /\ current = None => transit = None /\ ~ ready /\ ~ replying
  /\ transit # None => Same(transit)
  /\ ready \/ replying => Same(slot)

(* What the worker found, in terms of its own request. *)
FitOK ==
  replying =>
    /\ threw \/ nBytes <= slot.n
    /\ b => \/ nBytes = slot.n
            \/ slot.op = "read" /\ slot.lba + slot.n - 1 = LastBlock

(* The buffer of a write that is to come has its value, which is possible  *)
(* already if the IRP will not be completed by the reply. *)
Holds(r) ==
  r.op = "write" => \A k \in 0 .. r.n - 1 :
    /\ current # None => buffer[k] = current.value
    /\ current = None \/ current.cancelled => buffer[k] \in possible[r.lba + k]

BufferOK ==
  /\ transit # None => Holds(transit)
  /\ ready => Holds(slot)

(* A write whose reply is on its way and will complete its IRP. *)
Committing ==
  replying /\ current # None /\ ~ current.cancelled /\ current.op = "write"

(* Every block holds something possible, or what such a write has put      *)
(* there; if the write succeeded, it has put it everywhere. *)
BlockOK ==
  /\ \A i \in Blocks :
       \/ block[i] \in possible[i]
       \/ Committing /\ i \in Extent(current) /\ block[i] = current.value
  /\ Committing /\ b => \A i \in Extent(current) : block[i] = current.value

CapacityInv == TypeOK /\ SizeOK

-----------------------------------------------------------------------------
(* Types and capacity.                                                     *)

LEMMA PacketFacts ==
  ASSUME NEW r \in Packets
  PROVE  /\ r.op \in {"read", "write"}
         /\ r.lba \in Nat /\ r.lba <= MaxSize
         /\ r.n \in Nat /\ 1 <= r.n /\ r.n <= MaxTransfer
BY ScsiDiskAssumption DEF Packets, Blocks

LEMMA IrpFacts ==
  ASSUME NEW r \in Irps
  PROVE  /\ r.op \in {"read", "write"}
         /\ r.lba \in Nat /\ r.lba <= MaxSize
         /\ r.n \in Nat /\ 1 <= r.n /\ r.n <= MaxTransfer
         /\ r.value \in Values
         /\ r.cancelled \in BOOLEAN
         /\ r # None
BY ScsiDiskAssumption DEF Irps, Blocks

LEMMA PacketOfIrp ==
  ASSUME NEW r \in Irps
  PROVE  /\ [op |-> r.op, lba |-> r.lba, n |-> r.n] \in Packets
         /\ [op |-> r.op, lba |-> r.lba, n |-> r.n] # None
<1>1. [op |-> r.op, lba |-> r.lba, n |-> r.n] \in Packets
  BY DEF Irps, Packets
<1> QED
  BY <1>1, ScsiDiskAssumption

(* What a block may hold stays a set of values when a write is given up. *)
LEMMA MaybeWrittenType ==
  ASSUME NEW r \in {None} \cup Irps, possible \in [Blocks -> SUBSET Values]
  PROVE  MaybeWritten(r) \in [Blocks -> SUBSET Values]
<1>1. CASE r = None
  BY <1>1 DEF MaybeWritten
<1>2. CASE r \in Irps
  <2>1. r.value \in Values
    BY <1>2, IrpFacts
  <2> QED
    BY <2>1 DEF MaybeWritten
<1> QED
  BY <1>1, <1>2

(* The file after the first k blocks of the worker's request. *)
LEMMA WriteFirstKeeps ==
  ASSUME TypeOK, SizeOK, ready, NEW k \in Nat, k <= slot.n, WriteFirst(k)
  PROVE  /\ size' \in Nat
         /\ block' \in [Blocks -> Values]
         /\ nBlocks <= size' /\ size' <= nBlocks + 1
         /\ buffer' = buffer
<1>1. slot \in Packets /\ size \in Nat /\ nBlocks \in Nat
  BY DEF TypeOK
<1>2. slot.lba \in Nat /\ slot.n \in Nat /\ slot.n <= MaxTransfer
  BY <1>1, PacketFacts
<1>3. disk # "none" /\ slot.lba + slot.n - 1 <= nBlocks
  BY DEF TypeOK, SizeOK, OnDisk
<1>4. nBlocks <= size /\ size <= nBlocks + 1
  BY <1>3 DEF SizeOK
<1>5. size' \in Nat /\ nBlocks <= size' /\ size' <= nBlocks + 1
  BY <1>1, <1>2, <1>3, <1>4 DEF WriteFirst
<1>6. ASSUME NEW i \in Blocks, i \in slot.lba .. slot.lba + k - 1
      PROVE  buffer[i - slot.lba] \in Values
  <2>1. i - slot.lba \in Room
    BY <1>2, <1>6, ScsiDiskAssumption DEF Room, Blocks
  <2> QED
    BY <2>1 DEF TypeOK
<1>7. block' \in [Blocks -> Values]
  BY <1>6 DEF WriteFirst, TypeOK
<1> QED
  BY <1>5, <1>7 DEF WriteFirst

(* A transfer, whatever comes of it. *)
LEMMA TransferKeeps ==
  ASSUME CapacityInv, Transfer,
         block' \in [Blocks -> Values], size' \in Nat,
         nBlocks <= size', size' <= nBlocks + 1,
         buffer' \in [Room -> Values],
         nBytes' \in 0 .. MaxTransfer, b' \in BOOLEAN, threw' \in BOOLEAN
  PROVE  CapacityInv'
<1> USE DEF CapacityInv, Transfer, diskVars, irpVars
<1>1. TypeOK'
  BY DEF TypeOK
<1>2. SizeOK'
  BY DEF TypeOK, SizeOK, OnDisk
<1> QED
  BY <1>1, <1>2

LEMMA InitCapacity == Init => CapacityInv
<1> SUFFICES ASSUME Init PROVE CapacityInv
  OBVIOUS
<1>1. 0 \in Blocks /\ 1 \in 1 .. MaxTransfer /\ 0 \in 0 .. MaxTransfer
  BY ScsiDiskAssumption DEF Blocks
<1>2. slot \in Packets
  BY <1>1 DEF Init, Packets
<1>3. size \in Nat
  BY ScsiDiskAssumption DEF Init
<1>4. possible \in [Blocks -> SUBSET Values]
  BY ScsiDiskAssumption DEF Init
<1>5. TypeOK
  BY <1>1, <1>2, <1>3, <1>4, ScsiDiskAssumption DEF Init, TypeOK
<1>6. SizeOK
  BY <1>3, ScsiDiskAssumption DEF Init, SizeOK
<1> QED
  BY <1>5, <1>6 DEF CapacityInv

LEMMA NextCapacity == CapacityInv /\ [Next]_vars => CapacityInv'
<1> SUFFICES ASSUME CapacityInv, [Next]_vars
             PROVE  CapacityInv'
  OBVIOUS
<1> USE DEF CapacityInv, fileVars, diskVars, irpVars, workerVars
<1>1. CASE Attach
  <2>1. 0 \in 0 .. MaxTransfer
    BY ScsiDiskAssumption
  <2>2. TypeOK'
    BY <1>1, <2>1, ScsiDiskAssumption DEF Attach, TypeOK
  <2>3. nBlocks' = size /\ size' = size /\ size \in Nat /\ size < MaxSize
    BY <1>1 DEF Attach, TypeOK
  <2>4. transit # None => OnDisk(transit)'
    BY <1>1, <2>3, PacketFacts DEF Attach, TypeOK, SizeOK, OnDisk
  <2>5. ~ ready'
    BY <1>1 DEF Attach, TypeOK
  <2>6. SizeOK'
    BY <1>1, <2>3, <2>4, <2>5 DEF Attach, SizeOK
  <2> QED
    BY <2>2, <2>6
<1>2. CASE Detach
  <2>1. possible' \in [Blocks -> SUBSET Values]
    BY <1>2, MaybeWrittenType DEF Detach, TypeOK
  <2>2. TypeOK'
    BY <1>2, <2>1 DEF Detach, TypeOK
  <2>3. SizeOK'
    BY <1>2 DEF Detach, TypeOK, SizeOK, OnDisk
  <2> QED
    BY <2>2, <2>3
<1>3. CASE CloseStorage
  <2>1. TypeOK'
    BY <1>3 DEF CloseStorage, TypeOK
  <2>2. SizeOK'
    BY <1>3 DEF CloseStorage, SizeOK, OnDisk
  <2> QED
    BY <2>1, <2>2
<1>4. ASSUME NEW r \in Requests, StartPacket(r)
      PROVE  CapacityInv'
  <2>1. r \in Irps
    BY DEF Requests
  <2>2. transit' \in Packets /\ OnDisk(transit)'
    BY <1>4, <2>1, PacketOfIrp DEF StartPacket, OnDisk, LastBlock
  <2>3. buffer' \in [Room -> Values]
    BY <1>4, <2>1, IrpFacts DEF StartPacket, TypeOK
  <2>4. TypeOK'
    BY <1>4, <2>1, <2>2, <2>3 DEF StartPacket, TypeOK
  <2>5. SizeOK'
    BY <1>4, <2>2 DEF StartPacket, SizeOK, OnDisk
  <2> QED
    BY <2>4, <2>5
<1>5. CASE Bus_CancelIrp
  <2>1. possible' \in [Blocks -> SUBSET Values]
    BY <1>5, MaybeWrittenType DEF Bus_CancelIrp, TypeOK
  <2>2. current' \in Irps
    BY <1>5 DEF Bus_CancelIrp, TypeOK, Irps
  <2>3. TypeOK'
    BY <1>5, <2>1, <2>2 DEF Bus_CancelIrp, TypeOK
  <2>4. SizeOK'
    BY <1>5 DEF Bus_CancelIrp, SizeOK, OnDisk
  <2> QED
    BY <2>3, <2>4
<1>6. CASE ProcessRequest
  <2>1. TypeOK'
    BY <1>6 DEF ProcessRequest, TypeOK
  <2>2. SizeOK'
    BY <1>6 DEF ProcessRequest, SizeOK, OnDisk, TypeOK
  <2> QED
    BY <2>1, <2>2
<1>7. CASE ReadBlocks
  <2>1. slot \in Packets /\ size \in Nat /\ nBlocks \in Nat
    BY DEF TypeOK
  <2>2. slot.lba \in Nat /\ slot.n \in Nat /\ slot.n <= MaxTransfer
    BY <2>1, PacketFacts
  <2>3. Available \in Nat /\ Available <= slot.n
    BY <2>1, <2>2 DEF Available
  <2>4. size <= MaxSize /\ nBlocks <= size /\ size <= nBlocks + 1
    BY <1>7, <2>1, ScsiDiskAssumption DEF ReadBlocks, Transfer, TypeOK, SizeOK
  <2>5. ASSUME NEW k \in Room, k < Available
        PROVE  block[slot.lba + k] \in Values
    <3>1. slot.lba + k < size
      BY <2>1, <2>2, <2>5, ScsiDiskAssumption DEF Available, Room
    <3>2. slot.lba + k \in Blocks
      BY <2>1, <2>2, <2>4, <3>1, ScsiDiskAssumption DEF Blocks, Room
    <3> QED
      BY <3>2 DEF TypeOK
  <2>6. buffer' \in [Room -> Values]
    BY <1>7, <2>5 DEF ReadBlocks, TypeOK
  <2>7. nBytes' \in 0 .. MaxTransfer
    BY <1>7, <2>2, <2>3, ScsiDiskAssumption DEF ReadBlocks
  <2>8. block' \in [Blocks -> Values] /\ size' = size
    BY <1>7 DEF ReadBlocks, TypeOK
  <2>9. Transfer /\ b' \in BOOLEAN /\ threw' \in BOOLEAN
    BY <1>7 DEF ReadBlocks
  <2> QED
    BY <2>1, <2>4, <2>6, <2>7, <2>8, <2>9, TransferKeeps
<1>8. CASE WriteBlocks
  <2>1. slot.n \in Nat /\ slot.n <= MaxTransfer
    BY PacketFacts DEF TypeOK
  <2>2. Transfer /\ ready /\ WriteFirst(slot.n)
    BY <1>8 DEF WriteBlocks, Transfer
  <2>3. /\ size' \in Nat /\ nBlocks <= size' /\ size' <= nBlocks + 1
        /\ block' \in [Blocks -> Values]
        /\ buffer' = buffer
    BY <2>1, <2>2, WriteFirstKeeps
  <2>4. nBytes' \in 0 .. MaxTransfer
    BY <1>8, <2>1, ScsiDiskAssumption DEF WriteBlocks
  <2>5. buffer' \in [Room -> Values]
    BY <2>3 DEF TypeOK
  <2>6. b' \in BOOLEAN /\ threw' \in BOOLEAN
    BY <1>8 DEF WriteBlocks
  <2> QED
    BY <2>2, <2>3, <2>4, <2>5, <2>6, TransferKeeps
<1>9. ASSUME Transfer, DonePartly,
             nBytes' \in 0 .. MaxTransfer, b' \in BOOLEAN, threw' \in BOOLEAN
      PROVE  CapacityInv'
  <2>1. slot.n \in Nat
    BY PacketFacts DEF TypeOK
  <2>2. ready
    BY <1>9 DEF Transfer
  <2>3. CASE slot.op = "write"
    <3>1. PICK k \in 0 .. slot.n - 1 : WriteFirst(k)
      BY <1>9, <2>3 DEF DonePartly
    <3>2. k \in Nat /\ k <= slot.n
      BY <2>1
    <3>3. /\ size' \in Nat /\ nBlocks <= size' /\ size' <= nBlocks + 1
          /\ block' \in [Blocks -> Values]
          /\ buffer' = buffer
      BY <2>2, <3>1, <3>2, WriteFirstKeeps
    <3>4. buffer' \in [Room -> Values]
      BY <3>3 DEF TypeOK
    <3> QED
      BY <1>9, <3>3, <3>4, TransferKeeps
  <2>4. CASE slot.op # "write"
    <3>1. UNCHANGED <<size, block, buffer>>
      BY <1>9, <2>4 DEF DonePartly
    <3>2. nBlocks <= size /\ size <= nBlocks + 1
      BY <2>2 DEF SizeOK, TypeOK
    <3>3. buffer' \in [Room -> Values] /\ block' \in [Blocks -> Values] /\ size' \in Nat
      BY <3>1 DEF TypeOK
    <3>4. nBlocks <= size' /\ size' <= nBlocks + 1
      BY <3>1, <3>2
    <3> QED
      BY <1>9, <3>3, <3>4, TransferKeeps
  <2> QED
    BY <2>3, <2>4
<1>10. CASE TransferFails
  <2>1. nBytes' \in 0 .. MaxTransfer
    BY <1>10, ScsiDiskAssumption DEF TransferFails
  <2> QED
    BY <1>9, <1>10, <2>1 DEF TransferFails
<1>11. CASE TransferThrows
  <2>1. nBytes' \in 0 .. MaxTransfer
    BY <1>11 DEF TransferThrows, TypeOK
  <2> QED
    BY <1>9, <1>11, <2>1 DEF TransferThrows
<1>12. CASE ProcessReply
  <2>1. possible' \in [Blocks -> SUBSET Values]
    <3>1. current \in {None} \cup Irps /\ possible \in [Blocks -> SUBSET Values]
      BY DEF TypeOK
    <3>2. MaybeWritten(current) \in [Blocks -> SUBSET Values]
      BY <3>1, MaybeWrittenType
    <3>3. current # None => current.value \in Values
      BY <3>1, IrpFacts
    <3> QED
      BY <1>12, <3>1, <3>2, <3>3 DEF ProcessReply
  <2>2. TypeOK'
    BY <1>12, <2>1 DEF ProcessReply, TypeOK
  <2>3. SizeOK'
    BY <1>12 DEF ProcessReply, SizeOK, OnDisk
  <2> QED
    BY <2>2, <2>3
<1>13. CASE UNCHANGED vars
  <2>1. TypeOK'
    BY <1>13 DEF vars, TypeOK
  <2>2. SizeOK'
    BY <1>13 DEF vars, SizeOK, OnDisk
  <2> QED
    BY <2>1, <2>2
<1> QED
  BY <1>1, <1>2, <1>3, <1>4, <1>5, <1>6, <1>7, <1>8, <1>10, <1>11, <1>12, <1>13
  DEF Next

LEMMA AlwaysCapacity == Spec => []CapacityInv
BY InitCapacity, NextCapacity, PTL DEF Spec

(* Spec => []TypeOK: every variable always has its type, and the service   *)
(* works on nothing once the file is closed. *)
THEOREM TypeCorrect == Spec => []TypeOK
<1>1. CapacityInv => TypeOK
  BY DEF CapacityInv
<1> QED
  BY <1>1, AlwaysCapacity, PTL

-----------------------------------------------------------------------------
(* What \div and % are, for divisors that are variables.                   *)

LEMMA Division ==
  ASSUME NEW m \in Nat, NEW d \in Nat \ {0}
  PROVE  /\ m \div d \in Nat
         /\ m % d \in Nat /\ m % d < d
         /\ m = d * (m \div d) + (m % d)
OBVIOUS

(* Spec => []CapacityWithinFile: the file has the blocks the disk was made *)
(* with and at most one more, and the geometry names only blocks it has.   *)
THEOREM CapacityCorrect == Spec => []CapacityWithinFile
<1>1. CapacityInv => CapacityWithinFile
  <2> SUFFICES ASSUME CapacityInv PROVE CapacityWithinFile
    OBVIOUS
  <2> USE DEF CapacityInv
  <2>1. FileHoldsDisk
    BY DEF SizeOK, FileHoldsDisk
  <2> DEFINE w == BlocksPerWord
             d == BlocksPerCylinder
             m == nBlocks % w
  <2>2. nBlocks \in Nat /\ w \in Nat \ {0} /\ d \in Nat \ {0}
    BY ScsiDiskAssumption DEF TypeOK
  <2>3. /\ m \in Nat /\ m < w /\ nBlocks \div w \in Nat
        /\ nBlocks = w * (nBlocks \div w) + m
    BY <2>2, Division
  <2>4. Cylinders \in Nat /\ m % d \in Nat /\ m % d < d /\ m = d * Cylinders + (m % d)
    BY <2>2, <2>3, Division DEF Cylinders
  <2> HIDE DEF m, w, d
  <2>5. m <= nBlocks
    BY <2>2, <2>3
  <2>6. Cylinders * d <= nBlocks
    BY <2>2, <2>3, <2>4, <2>5
  <2>7. nBlocks < w => m = nBlocks
    BY <2>2, <2>3
  <2>8. nBlocks < w => nBlocks < (Cylinders + 1) * d
    BY <2>2, <2>3, <2>4, <2>7
  <2>9. GeometryOK
    BY <2>6, <2>8 DEF GeometryOK, d, w
  <2> QED
    BY <2>1, <2>9 DEF CapacityWithinFile
<1> QED
  BY <1>1, AlwaysCapacity, PTL

-----------------------------------------------------------------------------
(* One request at a time, and the fit of its reply.                        *)

LEMMA InitData == Init => AloneOK /\ FitOK /\ BufferOK /\ BlockOK /\ ReadReturnsWritten
<1> SUFFICES ASSUME Init
             PROVE  AloneOK /\ FitOK /\ BufferOK /\ BlockOK /\ ReadReturnsWritten
  OBVIOUS
<1>1. AloneOK
  BY DEF Init, AloneOK
<1>2. FitOK
  BY DEF Init, FitOK
<1>3. BufferOK
  BY DEF Init, BufferOK
<1>4. BlockOK
  BY DEF Init, BlockOK, Committing
<1>5. ReadReturnsWritten
  BY DEF Init, ReadReturnsWritten
<1> QED
  BY <1>1, <1>2, <1>3, <1>4, <1>5

LEMMA NextAlone ==
  ASSUME ~ MayOvertake, CapacityInv, AloneOK, [Next]_vars
  PROVE  AloneOK'
<1> USE DEF fileVars, diskVars, irpVars, workerVars
<1> disk = "none" => ~ ready /\ ~ replying
  BY DEF CapacityInv, TypeOK
<1> disk # "attached" => current = None
  BY DEF CapacityInv, TypeOK
<1>1. CASE Attach
  BY <1>1 DEF Attach, AloneOK, Same
<1>2. CASE Detach
  BY <1>2 DEF Detach, AloneOK, Same
<1>3. CASE CloseStorage
  BY <1>3 DEF CloseStorage, AloneOK, Same
<1>4. ASSUME NEW r \in Requests, StartPacket(r)
      PROVE  AloneOK'
  <2>1. r # None
    BY IrpFacts DEF Requests
  <2>2. transit' = [op |-> r.op, lba |-> r.lba, n |-> r.n] /\ current' = r
    BY <1>4 DEF StartPacket
  <2>3. ~ ready' /\ ~ replying' /\ disk' = "attached"
    BY <1>4 DEF StartPacket, AloneOK
  <2> QED
    BY <2>1, <2>2, <2>3 DEF AloneOK, Same
<1>5. CASE Bus_CancelIrp
  <2>1. current \in Irps /\ current # None
    BY <1>5 DEF Bus_CancelIrp, CapacityInv, TypeOK
  <2>2. /\ current'.op = current.op
        /\ current'.lba = current.lba
        /\ current'.n = current.n
        /\ current' # None
    BY <1>5, <2>1, ScsiDiskAssumption DEF Bus_CancelIrp, Irps
  <2> QED
    BY <1>5, <2>1, <2>2 DEF Bus_CancelIrp, AloneOK, Same
<1>6. CASE ProcessRequest
  BY <1>6 DEF ProcessRequest, AloneOK, Same
<1>7. CASE Transfer
  BY <1>7 DEF Transfer, AloneOK, Same
<1>8. CASE ProcessReply
  BY <1>8 DEF ProcessReply, AloneOK, Same
<1>9. CASE UNCHANGED vars
  BY <1>9 DEF vars, AloneOK, Same
<1> QED
  BY <1>1, <1>2, <1>3, <1>4, <1>5, <1>6, <1>7, <1>8, <1>9
  DEF Next, ReadBlocks, WriteBlocks, TransferFails, TransferThrows

(* A read that succeeds gets all its blocks but the one behind the disk.   *)
LEMMA AvailableFits ==
  ASSUME CapacityInv, ready
  PROVE  /\ Available \in Nat
         /\ Available <= slot.n
         /\ Available = slot.n \/ slot.lba + slot.n - 1 = LastBlock
<1>1. slot \in Packets /\ size \in Nat /\ nBlocks \in Nat
  BY DEF CapacityInv, TypeOK
<1>2. slot.lba \in Nat /\ slot.n \in Nat /\ 1 <= slot.n
  BY <1>1, PacketFacts
<1>3. nBlocks <= size /\ slot.lba + slot.n - 1 <= nBlocks
  BY DEF CapacityInv, SizeOK, OnDisk
<1> QED
  BY <1>1, <1>2, <1>3 DEF Available, LastBlock

LEMMA NextFit ==
  ASSUME CapacityInv, AloneOK, FitOK, [Next]_vars
  PROVE  FitOK'
<1> USE DEF fileVars, diskVars, irpVars, workerVars, LastBlock
<1> slot.n \in Nat
  BY PacketFacts DEF CapacityInv, TypeOK
<1>1. CASE Attach
  BY <1>1 DEF Attach, FitOK, CapacityInv, TypeOK
<1>2. CASE Detach \/ CloseStorage \/ Bus_CancelIrp
  BY <1>2 DEF Detach, CloseStorage, Bus_CancelIrp, FitOK
<1>3. ASSUME NEW r \in Requests, StartPacket(r)
      PROVE  FitOK'
  BY <1>3 DEF StartPacket, FitOK
<1>4. CASE ProcessRequest
  BY <1>4 DEF ProcessRequest, FitOK, AloneOK
<1>5. CASE ReadBlocks
  <2>1. ready
    BY <1>5 DEF ReadBlocks, Transfer
  <2> QED
    BY <1>5, <2>1, AvailableFits DEF ReadBlocks, Transfer, FitOK
<1>6. CASE WriteBlocks
  BY <1>6 DEF WriteBlocks, Transfer, FitOK
<1>7. CASE TransferFails
  BY <1>7 DEF TransferFails, Transfer, FitOK
<1>8. CASE TransferThrows
  BY <1>8 DEF TransferThrows, Transfer, FitOK
<1>9. CASE ProcessReply
  BY <1>9 DEF ProcessReply, FitOK
<1>10. CASE UNCHANGED vars
  BY <1>10 DEF vars, FitOK
<1> QED
  BY <1>1, <1>2, <1>3, <1>4, <1>5, <1>6, <1>7, <1>8, <1>9, <1>10 DEF Next

-----------------------------------------------------------------------------
(* The data.                                                               *)

(* The blocks of a request on the disk are blocks of the model. *)
LEMMA ExtentInBlocks ==
  ASSUME CapacityInv, disk # "none", NEW r, r.lba \in Nat, r.n \in Nat,
         r.lba + r.n - 1 <= nBlocks
  PROVE  /\ Extent(r) \subseteq Blocks
         /\ \A k \in 0 .. r.n - 1 : r.lba + k \in Extent(r)
<1>1. nBlocks \in Nat /\ nBlocks < MaxSize /\ MaxSize \in Nat
  BY ScsiDiskAssumption DEF CapacityInv, TypeOK, SizeOK
<1>2. Extent(r) \subseteq Blocks
  BY <1>1 DEF Extent, Blocks
<1>3. \A k \in 0 .. r.n - 1 : r.lba + k \in Extent(r)
  BY DEF Extent
<1> QED
  BY <1>2, <1>3

(* CurrentIrp is given up: cancelled, or completed by a removal.  What its *)
(* write does from now on is possible already. *)
LEMMA GivenUp ==
  ASSUME CapacityInv, AloneOK, BufferOK, BlockOK, current # None,
         possible' = MaybeWritten(current),
         current' = None \/ (current'.cancelled /\ current'.value = current.value),
         UNCHANGED <<block, buffer, transit, slot, ready, replying>>
  PROVE  BufferOK' /\ BlockOK'
<1>1. current \in Irps /\ disk # "none" /\ nBlocks \in Nat
  BY DEF CapacityInv, TypeOK
<1>2. possible \in [Blocks -> SUBSET Values]
  BY DEF CapacityInv, TypeOK
<1>3. /\ \A i \in Blocks : possible[i] \subseteq possible'[i]
      /\ current.op = "write" =>
           \A i \in Blocks : i \in Extent(current) => current.value \in possible'[i]
  BY <1>2 DEF MaybeWritten
<1>4. \A i \in Blocks : block[i] \in possible'[i]
  BY <1>3 DEF BlockOK, Committing
<1>5. ~ Committing'
  BY DEF Committing
<1>6. BlockOK'
  BY <1>4, <1>5 DEF BlockOK
<1>7. ASSUME NEW r \in Packets, OnDisk(r), Same(r), Holds(r), r.op = "write",
             NEW k \in 0 .. r.n - 1
      PROVE  /\ buffer[k] = current.value
             /\ buffer[k] \in possible'[r.lba + k]
  <2>1. r.op = current.op /\ r.lba = current.lba /\ r.n = current.n
    BY <1>7 DEF Same
  <2>2. r.lba \in Nat /\ r.n \in Nat
    BY PacketFacts
  <2>3. r.lba + k \in Extent(r) /\ r.lba + k \in Blocks
    BY <1>1, <1>7, <2>2, ExtentInBlocks DEF OnDisk
  <2>4. r.lba + k \in Extent(current)
    BY <2>1, <2>3 DEF Extent
  <2>5. buffer[k] = current.value
    BY <1>7 DEF Holds
  <2> QED
    BY <1>3, <1>7, <2>1, <2>3, <2>4, <2>5
<1>8. ASSUME transit # None
      PROVE  Holds(transit)'
  <2>1. transit \in Packets /\ OnDisk(transit) /\ Same(transit) /\ Holds(transit)
    BY <1>8 DEF CapacityInv, TypeOK, SizeOK, AloneOK, BufferOK
  <2> QED
    BY <1>7, <2>1 DEF Holds
<1>9. ASSUME ready
      PROVE  Holds(slot)'
  <2>1. slot \in Packets /\ OnDisk(slot) /\ Same(slot) /\ Holds(slot)
    BY <1>9 DEF CapacityInv, TypeOK, SizeOK, AloneOK, BufferOK
  <2> QED
    BY <1>7, <2>1 DEF Holds
<1>10. BufferOK'
  BY <1>8, <1>9 DEF BufferOK
<1> QED
  BY <1>6, <1>10

(* The first k blocks of a write go to the file. *)
LEMMA WriteFirstData ==
  ASSUME CapacityInv, AloneOK, BufferOK, BlockOK, Transfer, slot.op = "write",
         NEW k \in Nat, k <= slot.n, WriteFirst(k),
         UNCHANGED possible, b' => k = slot.n
  PROVE  BufferOK' /\ BlockOK'
<1> USE DEF Transfer, irpVars, diskVars
<1>1. slot \in Packets /\ disk # "none" /\ nBlocks \in Nat /\ ready
  BY DEF CapacityInv, TypeOK
<1>2. slot.lba \in Nat /\ slot.n \in Nat /\ OnDisk(slot) /\ Same(slot) /\ Holds(slot)
  BY <1>1, PacketFacts DEF CapacityInv, SizeOK, AloneOK, BufferOK
<1>3. transit = None /\ ~ ready'
  BY DEF AloneOK
<1>4. BufferOK'
  BY <1>3 DEF BufferOK
<1>5. \A i \in Blocks : block[i] \in possible[i]
  BY DEF BlockOK, Committing
<1>6. \A i \in Blocks : block'[i] = IF i \in slot.lba .. slot.lba + k - 1
                                    THEN buffer[i - slot.lba] ELSE block[i]
  BY DEF WriteFirst
<1>7. ASSUME NEW i \in Blocks, i \in slot.lba .. slot.lba + k - 1
      PROVE  /\ current # None => block'[i] = current.value /\ i \in Extent(current)
             /\ current = None \/ current.cancelled => block'[i] \in possible[i]
  <2>1. i - slot.lba \in 0 .. slot.n - 1 /\ slot.lba + (i - slot.lba) = i
    BY <1>2, <1>7
  <2>2. /\ current # None => buffer[i - slot.lba] = current.value
        /\ current = None \/ current.cancelled => buffer[i - slot.lba] \in possible[i]
    BY <1>2, <2>1 DEF Holds
  <2>3. current # None => i \in Extent(current)
    BY <1>2, <1>7 DEF Same, Extent
  <2> QED
    BY <1>6, <1>7, <2>2, <2>3
<1>8. Committing' = (current # None /\ ~ current.cancelled)
  BY <1>2 DEF Committing, Same
<1>9. ASSUME NEW i \in Blocks
      PROVE  \/ block'[i] \in possible'[i]
             \/ Committing' /\ i \in Extent(current)' /\ block'[i] = current'.value
  <2>1. CASE i \in slot.lba .. slot.lba + k - 1
    BY <1>7, <1>8, <2>1 DEF Extent
  <2>2. CASE i \notin slot.lba .. slot.lba + k - 1
    BY <1>5, <1>6, <2>2
  <2> QED
    BY <2>1, <2>2
<1>10. ASSUME Committing', b', NEW i \in Extent(current)'
       PROVE  block'[i] = current'.value
  <2>1. k = slot.n /\ current # None
    BY <1>8, <1>10
  <2>2. i \in Extent(slot)
    BY <1>2, <1>10, <2>1 DEF Extent, Same
  <2>3. i \in Blocks
    BY <1>1, <1>2, <2>2, ExtentInBlocks DEF OnDisk
  <2> QED
    BY <1>7, <2>1, <2>2, <2>3 DEF Extent
<1>11. BlockOK'
  BY <1>9, <1>10 DEF BlockOK
<1> QED
  BY <1>4, <1>11

LEMMA NextData ==
  ASSUME ~ MayOvertake, CapacityInv, AloneOK, BufferOK, BlockOK, [Next]_vars
  PROVE  BufferOK' /\ BlockOK'
<1> USE DEF fileVars, diskVars, irpVars, workerVars
<1> DEFINE Quiet == transit = None /\ ~ ready
           Clean == \A i \in Blocks : block[i] \in possible[i]
<1> disk = "none" => ~ ready /\ ~ replying
  BY DEF CapacityInv, TypeOK
<1>1. ASSUME Quiet', Clean', ~ Committing'
      PROVE  BufferOK' /\ BlockOK'
  BY <1>1 DEF BufferOK, BlockOK
<1>2. ~ Committing => Clean
  BY DEF BlockOK
<1>3. ASSUME UNCHANGED <<buffer, block, possible, current, transit, slot, ready, replying, b>>
      PROVE  BufferOK' /\ BlockOK'
  <2>1. BufferOK'
    BY <1>3 DEF BufferOK, Holds
  <2>2. BlockOK'
    BY <1>3 DEF BlockOK, Committing, Extent
  <2> QED
    BY <2>1, <2>2
<1>4. CASE Attach
  <2>1. Quiet /\ ~ replying
    BY <1>4 DEF Attach, AloneOK
  <2> QED
    BY <1>1, <1>2, <1>4, <2>1 DEF Attach, Committing
<1>5. CASE Detach
  <2>1. CASE current = None
    <3>1. Quiet /\ ~ replying
      BY <1>5, <2>1 DEF Detach, AloneOK
    <3>2. possible' = possible
      BY <1>5, <2>1 DEF Detach, MaybeWritten, CapacityInv, TypeOK
    <3> QED
      BY <1>1, <1>2, <1>5, <3>1, <3>2 DEF Detach, Committing
  <2>2. CASE current # None
    <3>1. /\ possible' = MaybeWritten(current)
          /\ current' = None
          /\ UNCHANGED <<block, buffer, transit, slot, ready, replying>>
      BY <1>5 DEF Detach
    <3>2. current' = None \/ (current'.cancelled /\ current'.value = current.value)
      BY <3>1
    <3> QED
      BY <2>2, <3>1, <3>2, GivenUp
  <2> QED
    BY <2>1, <2>2
<1>6. CASE CloseStorage
  BY <1>3, <1>6 DEF CloseStorage
<1>7. ASSUME NEW r \in Requests, StartPacket(r)
      PROVE  BufferOK' /\ BlockOK'
  <2>1. r \in Irps /\ ~ r.cancelled /\ r # None
    BY IrpFacts DEF Requests
  <2>2. ~ ready' /\ ~ replying /\ ~ replying'
    BY <1>7 DEF StartPacket, AloneOK
  <2>3. r.n \in Nat /\ r.n <= MaxTransfer
    BY <2>1, IrpFacts
  <2>4. Holds(transit)'
    BY <1>7, <2>1, <2>3, ScsiDiskAssumption DEF StartPacket, Holds, Room
  <2>5. BufferOK'
    BY <2>2, <2>4 DEF BufferOK
  <2>6. BlockOK'
    BY <1>2, <1>7, <2>2 DEF StartPacket, BlockOK, Committing
  <2> QED
    BY <2>5, <2>6
<1>8. CASE Bus_CancelIrp
  <2>1. current \in Irps /\ current # None
    BY <1>8 DEF Bus_CancelIrp, CapacityInv, TypeOK
  <2>2. current'.cancelled /\ current'.value = current.value
    BY <1>8, <2>1 DEF Bus_CancelIrp, Irps
  <2> QED
    BY <1>8, <2>1, <2>2, GivenUp DEF Bus_CancelIrp
<1>9. CASE ProcessRequest
  <2>1. ~ replying /\ ~ Committing /\ disk # "none"
    BY <1>9 DEF ProcessRequest, AloneOK, Committing
  <2>2. slot' = transit /\ transit' = None /\ Holds(transit)
    BY <1>9, <2>1 DEF ProcessRequest, BufferOK
  <2>3. BufferOK'
    BY <1>9, <2>2 DEF ProcessRequest, BufferOK, Holds
  <2>4. BlockOK'
    BY <1>2, <1>9, <2>1 DEF ProcessRequest, BlockOK, Committing
  <2> QED
    BY <2>3, <2>4
<1>10. ASSUME Transfer
       PROVE  Quiet' /\ ~ Committing /\ Clean
  BY <1>2, <1>10 DEF Transfer, AloneOK, Committing
<1>11. CASE ReadBlocks
  <2>1. Same(slot) /\ slot.op = "read"
    BY <1>11 DEF ReadBlocks, Transfer, AloneOK
  <2>2. ~ Committing'
    BY <1>11, <2>1 DEF ReadBlocks, Transfer, Committing, Same
  <2> QED
    BY <1>1, <1>10, <1>11, <2>2 DEF ReadBlocks, Transfer
<1>12. CASE WriteBlocks
  <2>1. slot.n \in Nat /\ slot.n <= slot.n
    BY PacketFacts DEF CapacityInv, TypeOK
  <2>2. Transfer /\ slot.op = "write" /\ WriteFirst(slot.n) /\ UNCHANGED possible
    BY <1>12 DEF WriteBlocks, Transfer
  <2> QED
    BY <2>1, <2>2, WriteFirstData
<1>13. ASSUME Transfer, DonePartly, ~ b'
       PROVE  BufferOK' /\ BlockOK'
  <2>1. slot.n \in Nat /\ slot.op \in {"read", "write"}
    BY PacketFacts DEF CapacityInv, TypeOK
  <2>2. CASE slot.op = "write"
    <3>1. PICK k \in 0 .. slot.n - 1 : WriteFirst(k)
      BY <1>13, <2>2 DEF DonePartly
    <3>2. k \in Nat /\ k <= slot.n
      BY <2>1
    <3> QED
      BY <1>13, <2>2, <3>1, <3>2, WriteFirstData DEF Transfer
  <2>3. CASE slot.op = "read"
    <3>1. Same(slot) /\ UNCHANGED <<block, buffer>>
      BY <1>13, <2>3 DEF DonePartly, Transfer, AloneOK
    <3>2. ~ Committing'
      BY <1>13, <2>3, <3>1 DEF Transfer, Committing, Same
    <3> QED
      BY <1>1, <1>10, <1>13, <3>1, <3>2 DEF Transfer
  <2> QED
    BY <2>1, <2>2, <2>3
<1>14. CASE TransferFails \/ TransferThrows
  BY <1>13, <1>14 DEF TransferFails, TransferThrows
<1>15. CASE ProcessReply
  <2>1. Quiet /\ Quiet'
    BY <1>15 DEF ProcessReply, AloneOK
  <2>2. ~ Committing' /\ block' = block
    BY <1>15 DEF ProcessReply, Committing
  <2>3. current \in {None} \cup Irps /\ possible \in [Blocks -> SUBSET Values]
    BY DEF CapacityInv, TypeOK
  <2>4. CASE current = None \/ current.cancelled
    BY <1>1, <1>2, <1>15, <2>1, <2>2, <2>4 DEF ProcessReply, Committing
  <2>5. CASE current # None /\ ~ current.cancelled /\ b /\ current.op = "write"
    <3>1. Committing
      BY <1>15, <2>5 DEF ProcessReply, Committing
    <3>2. \A i \in Blocks : possible'[i] = IF i \in Extent(current) THEN {current.value}
                                                                  ELSE possible[i]
      BY <1>15, <2>3, <2>5 DEF ProcessReply
    <3>3. Clean'
      BY <2>2, <2>5, <3>1, <3>2 DEF BlockOK
    <3> QED
      BY <1>1, <2>1, <2>2, <3>3
  <2>6. CASE current # None /\ ~ current.cancelled /\ ~ (b /\ current.op = "write")
    <3>1. possible' = MaybeWritten(current)
      BY <1>15, <2>6 DEF ProcessReply
    <3>2. Clean'
      BY <2>2, <2>3, <3>1 DEF MaybeWritten, BlockOK, Committing
    <3> QED
      BY <1>1, <2>1, <2>2, <3>2
  <2> QED
    BY <2>4, <2>5, <2>6
<1>16. CASE UNCHANGED vars
  BY <1>3, <1>16 DEF vars
<1> QED
  BY <1>4, <1>5, <1>6, <1>7, <1>8, <1>9, <1>11, <1>12, <1>14, <1>15, <1>16 DEF Next

LEMMA NextRead ==
  ASSUME CapacityInv, AloneOK, BlockOK, ReadReturnsWritten, [Next]_vars
  PROVE  ReadReturnsWritten'
<1> USE DEF fileVars, diskVars, irpVars, workerVars
<1>1. CASE replying /\ replying'
  <2>1. CASE Bus_CancelIrp
    <3>1. current'.cancelled
      BY <2>1 DEF Bus_CancelIrp, CapacityInv, TypeOK, Irps
    <3> QED
      BY <3>1 DEF ReadReturnsWritten
  <2>2. CASE Detach
    BY <2>2 DEF Detach, ReadReturnsWritten
  <2>3. CASE ProcessRequest
    BY <2>3 DEF ProcessRequest, ReadReturnsWritten
  <2>4. CASE UNCHANGED vars
    BY <2>4 DEF vars, ReadReturnsWritten
  <2>5. ~ Attach /\ ~ CloseStorage /\ ~ Transfer /\ ~ ProcessReply
    BY <1>1 DEF Attach, CloseStorage, Transfer, ProcessReply, CapacityInv, TypeOK
  <2>6. ASSUME NEW r \in Requests, StartPacket(r)
        PROVE  FALSE
    BY <1>1, <2>6 DEF StartPacket, AloneOK
  <2> QED
    BY <2>1, <2>2, <2>3, <2>4, <2>5, <2>6
    DEF Next, ReadBlocks, WriteBlocks, TransferFails, TransferThrows
<1>2. CASE ~ replying /\ replying'
  <2>1. Transfer
    BY <1>2 DEF Next, vars, Attach, Detach, CloseStorage, StartPacket, Bus_CancelIrp,
      ProcessRequest, ReadBlocks, WriteBlocks, TransferFails, TransferThrows, ProcessReply
  <2>2. Same(slot) /\ ready /\ ~ replying /\ current' = current /\ possible' = possible
    BY <2>1 DEF Transfer, AloneOK
  <2>3. CASE ReadBlocks
    <3>1. slot \in Packets /\ disk # "none" /\ nBlocks \in Nat /\ size \in Nat
      BY <2>2 DEF CapacityInv, TypeOK
    <3>2. slot.lba \in Nat /\ slot.n \in Nat /\ slot.n <= MaxTransfer /\ OnDisk(slot)
      BY <2>2, <3>1, PacketFacts DEF CapacityInv, SizeOK
    <3>3. Available \in Nat /\ Available <= slot.n /\ nBytes' = Available
      BY <2>2, <2>3, AvailableFits DEF ReadBlocks
    <3>4. ASSUME NEW k \in 0 .. nBytes' - 1
          PROVE  buffer'[k] \in possible[slot.lba + k]
      <4>1. k \in Room /\ k \in 0 .. slot.n - 1 /\ k < Available
        BY <3>2, <3>3, ScsiDiskAssumption DEF Room
      <4>2. slot.lba + k \in Blocks
        BY <3>1, <3>2, <4>1, ExtentInBlocks DEF OnDisk
      <4>3. buffer'[k] = block[slot.lba + k]
        BY <2>3, <4>1 DEF ReadBlocks
      <4> QED
        BY <2>2, <4>2, <4>3 DEF BlockOK, Committing
    <3> QED
      BY <2>2, <3>4 DEF ReadReturnsWritten, Same
  <2>4. CASE WriteBlocks
    BY <2>2, <2>4 DEF WriteBlocks, ReadReturnsWritten, Same
  <2>5. CASE TransferFails \/ TransferThrows
    BY <2>5 DEF TransferFails, TransferThrows, ReadReturnsWritten
  <2>6. ReadBlocks \/ WriteBlocks \/ TransferFails \/ TransferThrows
    BY <1>2 DEF Next, vars, Attach, Detach, CloseStorage, StartPacket, Bus_CancelIrp,
      ProcessRequest, ProcessReply
  <2> QED
    BY <2>3, <2>4, <2>5, <2>6
<1>3. CASE ~ replying'
  BY <1>3 DEF ReadReturnsWritten
<1> QED
  BY <1>1, <1>2, <1>3

-----------------------------------------------------------------------------
DataInv == AloneOK /\ FitOK /\ BufferOK /\ BlockOK /\ ReadReturnsWritten

LEMMA AlwaysData ==
  ASSUME ~ MayOvertake
  PROVE  Spec => []DataInv
<1>1. Init => DataInv
  BY InitData DEF DataInv
<1>2. CapacityInv /\ DataInv /\ [Next]_vars => DataInv'
  BY NextAlone, NextFit, NextData, NextRead DEF DataInv
<1> QED
  BY <1>1, <1>2, AlwaysCapacity, PTL DEF Spec

(* Spec => []ReplyFitsRequest: the reply is about the IRP that is          *)
(* CurrentIrp and moves what it asked for. *)
THEOREM ReplyCorrect == Spec => []ReplyFitsRequest
<1>1. CASE MayOvertake
  <2>1. ReplyFitsRequest
    BY <1>1 DEF ReplyFitsRequest
  <2> QED
    BY <2>1, PTL
<1>2. CASE ~ MayOvertake
  <2>1. DataInv => ReplyFitsRequest
    BY DEF DataInv, AloneOK, FitOK, Same, ReplyFitsRequest
  <2>2. Spec => []DataInv
    BY <1>2, AlwaysData
  <2> QED
    BY <2>1, <2>2, PTL
<1> QED
  BY <1>1, <1>2

(* Spec => []ReadReturnsWritten, if no removal overtakes a request in      *)
(* Run's hands: a read returns what was written last, across cancelled,    *)
(* failed and thrown transfers and across attachments.                     *)
THEOREM ReadCorrect ==
  ASSUME ~ MayOvertake
  PROVE  Spec => []ReadReturnsWritten
<1>1. DataInv => ReadReturnsWritten
  BY DEF DataInv
<1>2. Spec => []DataInv
  BY AlwaysData
<1> QED
  BY <1>1, <1>2, PTL

(* What is in the file when nothing is current is what reads are promised, *)
(* also while the service finishes a write of a disk that is gone.         *)
THEOREM FileCorrect ==
  ASSUME ~ MayOvertake
  PROVE  Spec => []FileIsPossible
<1>1. DataInv => FileIsPossible
  BY DEF DataInv, BlockOK, Committing, FileIsPossible
<1>2. Spec => []DataInv
  BY AlwaysData
<1> QED
  BY <1>1, <1>2, PTL
=============================================================================
