------------------------------- MODULE ScsiDisk -------------------------------
(***************************************************************************)
(* The data of one disk: what reads and writes move between the requester, *)
(* the buffer driver and service share, and the storage, over any number   *)
(* of attachments (busenum.c, disksrv.cpp, the plug-ins).  RequestPath has *)
(* the queues; here one IRP after the other is CurrentIrp.                 *)
(*                                                                         *)
(* Sizes are in blocks.  A write writes one value to all its blocks.  The  *)
(* file of the plain plug-in grows when it is written behind its end; a    *)
(* storage that refuses to (VMDK) is one whose transfer fails.             *)
(***************************************************************************)
EXTENDS Integers

CONSTANTS
  Values,             \* what a block can hold
  Zero,               \* what every block holds at first
  MaxSize,            \* bound: blocks the file can have
  MaxTransfer,        \* BUFFER_SIZE, which is also MaximumTransferLength
  BlocksPerWord,      \* 2^32 bytes
  BlocksPerCylinder,  \* 255 * 63
  MayOvertake,        \* whether a removal may overtake a request in Run's hands
  None                \* no IRP

Blocks == 0 .. MaxSize
Room == 0 .. MaxTransfer - 1

(* A request as the service gets it, and an IRP as the driver has it. *)
Packets == [op : {"read", "write"}, lba : Blocks, n : 1 .. MaxTransfer]
Irps == [op : {"read", "write"}, lba : Blocks, n : 1 .. MaxTransfer,
         value : Values, cancelled : BOOLEAN]

ASSUME ScsiDiskAssumption ==
  /\ Zero \in Values
  /\ MaxSize \in Nat
  /\ {MaxTransfer, BlocksPerWord, BlocksPerCylinder} \subseteq Nat \ {0}
  /\ MayOvertake \in BOOLEAN
  /\ None \notin Packets
  /\ None \notin Irps

VARIABLES
  size, block,      \* the file: its length and its blocks
  disk,             \* "none", "attached", or "leaving": the PDO is gone
  nBlocks,          \* the storage's m_nBlocks and the PDO's
  buffer,           \* the shared memory
  current,          \* CurrentIrp, [op, lba, n, value, cancelled], or None
  transit,          \* the request Run has, [op, lba, n], or None
  slot,             \* m_req, [op, lba, n]
  ready,            \* m_hEvent
  replying,         \* whether the worker is between a transfer and SendReply
  nBytes, b,        \* the worker's variables, kept from request to request
  threw,            \* history: the transfer replied to has thrown
  possible          \* history: what each block may hold

fileVars == <<size, block>>
diskVars == <<disk, nBlocks>>
irpVars == <<current, transit>>
workerVars == <<slot, ready, replying, nBytes, b, threw>>
vars == <<fileVars, diskVars, buffer, irpVars, workerVars, possible>>

(* The blocks of a request. *)
Extent(r) == r.lba .. r.lba + r.n - 1

Init ==
  /\ size \in 0 .. MaxSize
  /\ block = [i \in Blocks |-> Zero]
  /\ disk = "none"
  /\ nBlocks = 0
  /\ buffer = [k \in Room |-> Zero]
  /\ current = None
  /\ transit = None
  /\ slot = [op |-> "read", lba |-> 0, n |-> 1]
  /\ ready = FALSE
  /\ replying = FALSE
  /\ nBytes = 0
  /\ b = FALSE
  /\ threw = FALSE
  /\ possible = [i \in Blocks |-> {Zero}]

-----------------------------------------------------------------------------
(* Attachment.                                                             *)

(* Mutant: the size is rounded up. *)
AttachRoundingUp ==
  /\ disk = "none"
  /\ size < MaxSize
  /\ disk' = "attached"
  /\ nBlocks' = size + 1
  /\ buffer' = [k \in Room |-> Zero]
  /\ nBytes' = 0 /\ b' = FALSE
  /\ UNCHANGED <<fileVars, irpVars, slot, ready, replying, threw, possible>>

(* A disk is made from the file, which nobody else has open for writing,   *)
(* and a buffer and a worker with it.  MaxSize is also the size that is    *)
(* too large. *)
Attach ==
  /\ disk = "none"
  /\ size < MaxSize
  /\ disk' = "attached"
  /\ nBlocks' = size
  /\ buffer' = [k \in Room |-> Zero]
  /\ nBytes' = 0 /\ b' = FALSE
  /\ UNCHANGED <<fileVars, irpVars, slot, ready, replying, threw, possible>>

(* What the blocks of r may hold once it may have been written. *)
MaybeWritten(r) ==
  [i \in Blocks |-> IF r # None /\ r.op = "write" /\ i \in Extent(r)
                    THEN possible[i] \cup {r.value} ELSE possible[i]]

(* Bus_DestroyPdo completes CurrentIrp, which the service goes on with. *)
Detach ==
  /\ disk = "attached"
  /\ disk' = "leaving"
  /\ current' = None
  /\ possible' = MaybeWritten(current)
  /\ UNCHANGED <<fileVars, nBlocks, buffer, transit, workerVars>>

(* Mutant: the removal does not wait for the worker. *)
CloseStorageEarly ==
  /\ disk = "leaving"
  /\ disk' = "none"
  /\ UNCHANGED <<fileVars, nBlocks, buffer, irpVars, workerVars, possible>>

(* RemoveDiskFinal closes the file, after the request the worker has; one  *)
(* that Run has not given it yet does not keep it. *)
CloseStorage ==
  /\ disk = "leaving"
  /\ ~ ready /\ ~ replying
  /\ MayOvertake \/ transit = None
  /\ disk' = "none"
  /\ UNCHANGED <<fileVars, nBlocks, buffer, irpVars, workerVars, possible>>

-----------------------------------------------------------------------------
(* The driver.                                                             *)

(* What READ_CAPACITY answers: the requester takes it for the last block.  *)
LastBlock == nBlocks

(* IOCTL_DISK_GET_DRIVE_GEOMETRY.  The product is of 32 bits. *)
Cylinders == (nBlocks % BlocksPerWord) \div BlocksPerCylinder

(* An IRP becomes CurrentIrp; BusSetupRequest. *)
StartPacket(r) ==
  /\ disk = "attached"
  /\ current = None
  /\ transit = None
  /\ r.lba + r.n - 1 <= LastBlock
  /\ current' = r
  /\ transit' = [op |-> r.op, lba |-> r.lba, n |-> r.n]
  /\ buffer' = [k \in Room |-> IF r.op = "write" /\ k < r.n THEN r.value ELSE buffer[k]]
  /\ UNCHANGED <<fileVars, diskVars, workerVars, possible>>

(* Mutant: the cancel routine clears CurrentIrp. *)
Bus_CancelIrpClearing ==
  /\ current # None
  /\ current' = None
  /\ possible' = MaybeWritten(current)
  /\ UNCHANGED <<fileVars, diskVars, buffer, transit, workerVars>>

(* Completes the IRP and leaves it CurrentIrp. *)
Bus_CancelIrp ==
  /\ current # None
  /\ ~ current.cancelled
  /\ current' = [current EXCEPT !.cancelled = TRUE]
  /\ possible' = MaybeWritten(current)
  /\ UNCHANGED <<fileVars, diskVars, buffer, transit, workerVars>>

(* Bus_ProcessReply: a read that was not cancelled gets numBytes of the    *)
(* buffer and the status of the reply. *)
ProcessReply ==
  /\ replying
  /\ replying' = FALSE
  /\ current' = None
  /\ possible' =
       IF current = None \/ current.cancelled THEN possible
       ELSE IF b /\ current.op = "write"
       THEN [i \in Blocks |-> IF i \in Extent(current) THEN {current.value}
                                                     ELSE possible[i]]
       ELSE MaybeWritten(current)
  /\ UNCHANGED <<fileVars, diskVars, buffer, transit, slot, ready, nBytes, b, threw>>

-----------------------------------------------------------------------------
(* The worker and its storage.                                             *)

(* Run gives the request to the disk that has the number now, if there is  *)
(* one, and sends GET_REQUEST again. *)
ProcessRequest ==
  /\ transit # None
  /\ transit' = None
  /\ IF disk = "none" THEN UNCHANGED <<slot, ready>>
     ELSE slot' = transit /\ ready' = TRUE
  /\ UNCHANGED <<fileVars, diskVars, buffer, current, replying, nBytes, b, threw,
                 possible>>

Transfer ==
  /\ ready /\ ~ replying
  /\ ready' = FALSE
  /\ replying' = TRUE
  /\ UNCHANGED <<diskVars, irpVars, slot, possible>>

(* The blocks of a read that the file has. *)
Available == IF slot.lba >= size THEN 0
             ELSE IF slot.lba + slot.n <= size THEN slot.n ELSE size - slot.lba

(* ReadBlocks reads what there is. *)
ReadBlocks ==
  /\ Transfer
  /\ slot.op = "read"
  /\ buffer' = [k \in Room |-> IF k < Available THEN block[slot.lba + k] ELSE buffer[k]]
  /\ nBytes' = Available
  /\ b' = TRUE
  /\ threw' = FALSE
  /\ UNCHANGED fileVars

(* The first k blocks of a write reach the file. *)
WriteFirst(k) ==
  /\ block' = [i \in Blocks |-> IF i \in slot.lba .. slot.lba + k - 1
                                THEN buffer[i - slot.lba] ELSE block[i]]
  /\ size' = IF slot.lba + k > size THEN slot.lba + k ELSE size
  /\ UNCHANGED buffer

(* WriteBlocks, which makes the file longer if it has to. *)
WriteBlocks ==
  /\ Transfer
  /\ slot.op = "write"
  /\ WriteFirst(slot.n)
  /\ nBytes' = slot.n
  /\ b' = TRUE
  /\ threw' = FALSE

(* What a transfer that fails has done before. *)
DonePartly ==
  IF slot.op = "write" THEN \E k \in 0 .. slot.n - 1 : WriteFirst(k)
  ELSE UNCHANGED <<fileVars, buffer>>

(* Mutant: the plug-in sets nBytes only if it succeeds. *)
TransferFailsSilently ==
  /\ Transfer
  /\ DonePartly
  /\ b' = FALSE
  /\ threw' = FALSE
  /\ UNCHANGED nBytes

(* The plug-in returns FALSE. *)
TransferFails ==
  /\ Transfer
  /\ DonePartly
  /\ nBytes' = 0
  /\ b' = FALSE
  /\ threw' = FALSE

(* The plug-in throws, or returns before it sets nBytes, as the plain one  *)
(* does if it cannot move the file pointer. *)
TransferThrows ==
  /\ Transfer
  /\ DonePartly
  /\ b' = FALSE
  /\ threw' = TRUE
  /\ UNCHANGED nBytes

-----------------------------------------------------------------------------
Requests ==
  {r \in Irps : ~ r.cancelled /\ (r.op = "read" => r.value = Zero)}

Next ==
  \/ Attach \/ Detach \/ CloseStorage
  \/ \E r \in Requests : StartPacket(r)
  \/ Bus_CancelIrp
  \/ ProcessRequest
  \/ ReadBlocks \/ WriteBlocks \/ TransferFails \/ TransferThrows
  \/ ProcessReply

Spec == Init /\ [][Next]_vars

-----------------------------------------------------------------------------
(* Properties.                                                             *)

(* Every variable has its type; of a disk that is not attached no IRP is   *)
(* current, and the service works on none once the file is closed. *)
TypeOK ==
  /\ size \in Nat
  /\ block \in [Blocks -> Values]
  /\ disk \in {"none", "attached", "leaving"}
  /\ nBlocks \in Nat
  /\ buffer \in [Room -> Values]
  /\ current \in {None} \cup Irps
  /\ transit \in {None} \cup Packets
  /\ slot \in Packets
  /\ ready \in BOOLEAN
  /\ replying \in BOOLEAN
  /\ nBytes \in 0 .. MaxTransfer
  /\ b \in BOOLEAN
  /\ threw \in BOOLEAN
  /\ possible \in [Blocks -> SUBSET Values]
  /\ disk # "attached" => current = None
  /\ disk = "none" => ~ ready /\ ~ replying

(* What a reply copies out of the shared buffer for a read that succeeded  *)
(* is what was written last, across attachments: of writes that were       *)
(* cancelled, failed or cut off by a removal either the old or the new     *)
(* value, of the others the new one, and never what another request left   *)
(* in the buffer. *)
ReadReturnsWritten ==
  replying /\ b /\ current # None /\ ~ current.cancelled /\ current.op = "read" =>
    \A k \in 0 .. nBytes - 1 : buffer[k] \in possible[current.lba + k]

(* When no request is current the file holds what the requesters may       *)
(* believe it to hold: all writes that were answered with success, and of  *)
(* those that were given up all blocks either old or new, although the     *)
(* service may not be done with them and the disk may be gone. *)
FileIsPossible ==
  current = None => \A i \in Blocks : block[i] \in possible[i]

(* A reply is about the IRP that is CurrentIrp when it comes.  It moves no *)
(* more than was asked for, unless the storage threw and numBytes is that  *)
(* of an earlier request.  One of success moves all of it, but for a read  *)
(* of the block behind the disk that READ_CAPACITY promises. *)
ReplyFitsRequest ==
  replying /\ disk = "attached" /\ ~ MayOvertake =>
    /\ current # None
    /\ threw \/ nBytes <= current.n
    /\ b => \/ nBytes = current.n
            \/ current.op = "read" /\ current.lba + current.n - 1 = LastBlock

(* The disk has all its blocks, and its file at most one more, however     *)
(* often the block behind the disk is written while it is attached; the    *)
(* geometry names no block the disk does not have, and leaves less than a  *)
(* cylinder out unless the size does not fit in 32 bits. *)
FileHoldsDisk == disk # "none" => nBlocks <= size /\ size <= nBlocks + 1
GeometryOK ==
  /\ Cylinders * BlocksPerCylinder <= nBlocks
  /\ nBlocks < BlocksPerWord => nBlocks < (Cylinders + 1) * BlocksPerCylinder
CapacityWithinFile == FileHoldsDisk /\ GeometryOK
=============================================================================
