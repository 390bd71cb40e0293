# Verification of virtualdisk in TLA+

This directory holds TLA+ models of virtualdisk, the configurations that model-check
them with TLC, and proofs about them checked by TLAPS. Line numbers refer to the
repository's files.

## 1. The system

virtualdisk gives Windows a disk whose contents a user-mode service provides.

| Part | Where | State it keeps | Operations |
|---|---|---|---|
| Request path of the bus driver | `bus/busenum.c`, the queues in `bus/pnp.c` | per disk: `IrpQueue`, `CurrentIrp`, `PDOLock`, remove lock, transfer buffer; per bus: `RequestQueue` | `Bus_Scsi`, `BusStartPacket`, `BusStartNextPacket`, GET_REQUEST, SEND_REPLY, cancellation |
| PnP life cycle | `bus/pnp.c`, `bus/buspdo.c`, cleanup in `bus/busenum.c` | `DevicePnPState` and `PreviousPnPState` of bus and disks, `ListOfPDOs`, `NumPDOs`, `Present`, `ReportedMissing`, `CleanupReadyEvent`, the service's `RemoveEvent`s | `Bus_AddDisk`, `Bus_RemoveDisk`, `Bus_RemoveAllDisks`, `Bus_FDO_PnP`, `Bus_PDO_PnP`, `Bus_DestroyPdo`, `Bus_FDO_Cleanup` |
| SCSI commands, geometry | `bus/busenum.c` | `Claimed`, sense data, block count and size | claim, release, READ_CAPACITY, MODE_SENSE, drive geometry |
| Power | `bus/power.c` | device and system power state | `Bus_Power` |
| Identification | `bus/buspdo.c` | none | `QueryDeviceId`, `-Text`, `-Caps` |
| Service, request side | `umode/disksrv/disksrv.cpp` | one `m_req` and one buffer per disk, `m_RequestEvent` | `Run`, `GetRequest`, `ProcessRequest`, `threadProc`, `SendReply` |
| Service, disk life cycle | same | `CDiskContainer`, `CPluginManager` | RPC `AddDisk`, `RemoveDisk`; `RemoveDiskFinal`, `Terminate` |
| Storage plug-ins | `fileplugin.cpp`, `umode/vmdkplug` | open file, size | `ReadBlocks`, `WriteBlocks` |
| Client, installer | `umode/diskctl`, `ca`, `vdisksetup` | none; registry and device nodes | one RPC; installation and removal |

How they interact. The class driver sends a read or write IRP to a disk's PDO. The
driver hands it to the service by completing a GET_REQUEST IRP, of which the service
always has one in the driver and which *all disks share*; if none waits, or the disk is
busy, the IRP is queued. The service's `Run` loop receives the request, gives it to the
disk's worker thread and sends GET_REQUEST again. The worker performs the transfer in
memory that driver and service share and answers with SEND_REPLY, whereupon the driver
completes the IRP and starts the disk's next one. Removal of a disk by PnP completes its
IRPs and sets `RemoveEvent`, on which the worker deletes the disk from the service.

What is hard: threads of the class driver, of the `Run` loop, of every worker, of PnP and
of whoever cancels IRPs run through the same disks. Each disk's `PDOLock` protects its
`CurrentIrp`; `RequestQueue` is shared by all disks and has a lock of its own; the FDO's
mutex protects the list of disks, but is released before a disk found in it is used; and
IRPs are cancelled under none of these.

What makes each part correct:
 - request path: no IRP is lost, completed twice, or given another's answer; a waiting
   IRP and a waiting GET_REQUEST find each other; remove locks balance;
 - PnP life cycle: a disk is added and deleted once, the count agrees with the list, the
   cleanup ends, no state is restored that was not saved;
 - service: a worker has one request at a time, every request is answered, nothing
   deleted is used, termination ends;
 - data, geometry and storage: a read returns what was written, a reply is about its
   request, no access outside the file, no geometry larger than the disk;
 - installer: what is installed is whole, and it can be removed.

## 2. The modules

| Module | Models | Proofs |
|---|---|---|
| `RequestPath`, `MCRequestPath` | request path and the request side of the service | `RequestPathProofs`, `RequestOutcomeProofs` |
| `DiskRequests` | abstract: what the disks promise about requests; implemented by `RequestPath` | |
| `PnpLifecycle`, `MCPnpLifecycle` | states of bus and disks, AddDisk, RemoveDisk, QUERY_RELATIONS, removal, cleanup | `PnpLifecycleProofs`, `PnpRemovalProofs` |
| `DiskService`, `MCDiskService` | RPC, container, processors, workers, `Run`, start and stop of the service | `DiskServiceProofs` |
| `AttachedDisks` | abstract: what the service promises about disk numbers; implemented by `DiskService` | |
| `ScsiDisk`, `MCScsiDisk` | data of reads and writes, shared buffer, storage, capacity, geometry | `ScsiDiskProofs` |
| `Installer`, `MCInstaller` | installation, rollback and removal of driver and device nodes | `InstallerProofs` |
| `SequenceLemmas` | what `Append`, `Tail`, `RemoveAt` do to lists | used by the first two |

The components meet in two places, and each module has the other's side as far as it
matters. `RequestPath` takes the service's loop with the lookup and the hand-over as one
step and the driver in every step; `DiskService` has the service in every step and of the
driver only whether it has a disk, a request of it, and the PnP manager's knowledge of it.
`PnpLifecycle` has when a missing disk is destroyed; `DiskService` assumes that it is, if the
manager knows it (`AbsentDiskIsDestroyed`), and `PnpLifecycle` that the calls for one number do not overlap, which `AttachedDisks` states.

Every safety property and both refinements the passing runs check are proved. Three hold in
the circumstances of their run only, and their theorems assume just that: `NoStrandedIrp` for
one disk (run `stranded` refutes it for two), `CleanupLeavesNone` when nothing is being added or
removed as the handle is closed (run `lost`), `ReadReturnsWritten` when no removal overtakes a
request (run `stale`). Some theorems state properties no run lists: the safety halves of
liveness properties, and that what a violating run shows is all there is of its kind. TLC
confirmed each of these on the instances of the passing runs before it was proved.

## 3. RequestPath

State. Each variable is a field of the code (its comment in the module names it). A
read or write IRP is a value of `Irps` and is sent once; `Target` is the PDO. What the
code keeps in local variables is per thread: `pc`, `at` (pdoData), `held` (Irp), `rqIrp`.
A GET_REQUEST IRP names the thread that sent it, a disk names its worker's thread.
`carried`, `slot` and `replying` follow a request through the service: in the completed
GET_REQUEST, in the worker's `m_req`, in the reply being processed. `lockTags` counts the
remove-lock acquisitions made with an IRP as the tag.

Actions. One per outcome of a handler, in the order the code takes them:

| Code | Actions |
|---|---|
| `Bus_Scsi` to the call of `BusStartPacket` | `Bus_Scsi`, `Bus_ScsiDeleted` |
| `BusStartPacket` | `QueuePacket`, `QueueCancelledPacket`, `StartPacket` |
| `IoCancelIrp` of an IRP that is queued, current, in nobody's reach | `CancelQueued`, `Bus_CancelIrp`, `CancelInHand` |
| GET_REQUEST in `Bus_FDO_IoCtl` | `GetRequest`, `WalkTo`, `WalkDone` |
| `BusStartNextPacket` | `NothingToStart`, `TakeRequest`, then `PutBackRequest`, or `TakeQueuedIrp` and `StartTakenIrp` |
| `CDiskServer::Run`, `ProcessRequest` | `ProcessRequest` |
| worker, `Bus_ProcessReply` | `SendReply`, `SendReplyRefused`, `ReplyWithoutIrp`, `TakeCurrentIrp`, `FinishReply`, `RemoveDiskFinal` |
| removal of a missing disk, `Bus_DestroyPdo` | `RemovePdo`, `DestroyCurrentIrp` or `DestroyNoIrp`, `DrainIrp`, `DeletePdo` |

`BusStartNextPacket` makes two accesses to queues that cancellation and other disks also
use, so it is three steps with `PDOLock` held. Everything else under a `PDOLock` makes one
access to state other threads can reach and is one step.

Abstractions. A request has no contents: which IRP it is about is what the properties
tell apart. `IoAcquireRemoveLock` on a PDO is never refused, because nothing ever calls
`IoReleaseRemoveLockAndWait` for a PDO: its failure branches are unreachable. Commands
that do not reach a queue are left out, as is the cancellation of GET_REQUEST (the
service closing its handle). A thread that is inside the driver with a PDO that has been
deleted goes on as if its memory were still there: what it does after a use of freed
memory is not predicted, and the properties about a disk say "while it is not being
removed". `Bus_CancelIrp` is one step, from `IoCancelIrp`'s claim of the cancel routine to
`IoCompleteRequest` (`busenum.c:661-663`); in the code a reply or the removal may complete the
IRP in between, so that either may be the first of the two. No property depends on which is. A surprise removal of
the bus is not in `RequestPath`: it sets `ParentFdo` to NULL (`pnp.c:550`) without the `PDOLock`
under which `BusStartNextPacket` and `BusStartPacket` dereference it (`busenum.c:679`, `1047`),
and an IRP of a disk that is still started would stop the system. No order
among a disk's requests is claimed: between the release of `PDOLock` in
`Bus_ProcessReply` and `BusStartNextPacket` a new IRP may start before the queued ones.

### Runs

| Run | Instance | Shows |
|---|---|---|
| `two` | 2 disks, 3 IRPs (2 to one disk), 1 GET_REQUEST, cancellation, removal | types; what the service has is `CurrentIrp` and conversely; an IRP not cancelled is completed at most once; remove locks balance; a reply takes the IRP it answers; the refinement of `DiskRequests` |
| `one` | 1 disk, 3 IRPs, 2 GET_REQUESTs, cancellation, fairness | no wake-up is lost; every IRP is completed (it would not be if `BusStartNextPacket` lost a request IRP) |
| `stranded` | 2 disks, 1 GET_REQUEST | violation: a wake-up is lost |
| `cancel` | 1 disk, cancellation | violation: an IRP is completed twice |

Bounds. Two disks are needed for the shared request queue to matter, and two IRPs of one
disk for a queue behind `CurrentIrp`; the third IRP keeps the other disk busy. The
service has one GET_REQUEST; run `one` gives the driver two, which its interface allows,
so that request IRPs can be mixed up. The two IRPs of the same disk are
interchangeable (symmetry, used only in the run without liveness). Deadlock is not
checked: an instance rests when each IRP has been sent and dealt with.

Fairness. `FairSpec` assumes that a thread that can go on does: the kernel schedules
every thread, spin locks are held for a bounded time, the storage answers, and the
service sends GET_REQUEST again. Nothing obliges the system to send, to cancel or
to remove. Weak fairness is enough: with one disk, no thread's step is disabled again and
again by the others.

### What the violations show

 1. `stranded` (`busenum.c:713`). `BusStartNextPacket` for disk 1 takes the only request
    IRP; `BusStartPacket` for disk 2 finds none and queues its IRP; disk 1 has nothing to
    do and the request IRP is put back. Disk 2's IRP waits beside a waiting request IRP
    until an unrelated event. With one disk this cannot happen (run `one`).
 2. `cancel` (`busenum.c:663`). `Bus_CancelIrp` completes the IRP without clearing
    `CurrentIrp`; the reply or the removal completes it again.

Two more defects are states of run `two`, whose properties allow for them. The removal
may complete `CurrentIrp` between the two locks of `Bus_ProcessReply` (`busenum.c:762`,
`764`), and the reply finds none: `ReplyWithoutIrp`, the case `ASSERT (Irp)` at
`busenum.c:776` denies. And `Bus_DestroyPdo` (`pnp.c:1047-1079`) does not wait for threads
that have passed the state check of `Bus_Scsi`: their IRP is queued after the drain
(`QueuePacket` while the PDO is being deleted) and never completed.

### Proofs

`RequestPathProofs` (the first five) and `RequestOutcomeProofs` prove, for any disks, IRPs and
GET_REQUESTs, with or without cancellation and removal, from `RequestPathAssumption` only:

| Theorem | Statement |
|---|---|
| `TypeCorrect` | `Spec => []TypeOK` |
| `MutualExclusion` | a `PDOLock` has one holder |
| `ServiceCorrect` | `Spec => []InServiceIsCurrent` |
| `ReplyCorrect` | `Spec => ReplyTakesItsIrp` |
| `CompletionCorrect` | `Spec => []UncancelledCompletedOnce` |
| `RemoveLockCorrect` | `Spec => []RemoveLockBalanced` |
| `CurrentCorrect` | `Spec => []CurrentIsInService` |
| `OutcomeCorrect` | `Spec => ImplementsDiskRequests`, the refinement |
| `OneDiskCorrect` | `Spec => []NoStrandedIrp`, assuming one disk |
| `StrandedOnlyByPutBack` | `Spec => StrandedByPutBack`: with more disks a wake-up is lost only where a request IRP is put back |
| `PendingCorrect` | `Spec => []PendingGoesOn`: where an IRP that is not completed is, and who goes on with it |
| `RequestKept` | `Spec => []RequestGoesOn`: a GET_REQUEST IRP is queued, with a thread, or carries a request |
| `SecondCompletionCorrect` | `Spec => CompletedAgainIfCancelled`: only a cancelled IRP is completed twice, none three times, and none starts again |

The inductive invariant is layered, and each layer is preserved given the earlier ones:
 - `TypeOK`, `ThreadOK`: at each place, which of a thread's pointers are set;
 - `LockOK`: `pdoLock[p] = t` exactly when `t` is at a place that holds `p`'s lock;
 - `TargetOK`: an IRP is only ever queued, current or held at its own PDO;
 - `ServiceOK`: `InServiceIsCurrent`, with `IdleWhileStarting`: while a thread is between
   two accesses under `PDOLock` the disk has no `CurrentIrp`. Without the latter,
   `StartTakenIrp` could overwrite a `CurrentIrp` whose request the service has;
 - `PlaceOK`: an IRP is in one place at a time (dispatched, queued once, current, held by
   one thread), and has not been completed there unless it was cancelled. This is what
   keeps the reply, the removal and the drain from completing the same IRP;
 - `StatusOK`: an IRP is pending exactly until it is first completed, a served one is
   nowhere, and its remove lock is held exactly while it is dispatched, current or held: it is
   released when the IRP is queued, and acquired again when it is taken from the queue. It
   is proved from what a step can do to one IRP (`OneMoves`): at most one IRP enters,
   waits, leaves its queue, is taken, starts, is cancelled or ends, and the others keep
   everything. The refinement follows from the same fact: what moves one IRP is one step
   of `DiskRequests`, and what moves none is a stutter;
 - `RequestOK`, `InHandsOK`: a GET_REQUEST IRP is on the queue, with one thread, or
   completed, and carries nothing before it is completed; a worker stays until its disk is
   gone. So the `CurrentIrp` a request IRP was filled with is with the service until the
   reply takes it;
 - `OnceOK`, `PendingOK`, `OutstandingOK`: a started IRP was completed at most once, and
   only if it was cancelled; one not completed is dispatched, queued or started; a GET_REQUEST the
   service waits for is somewhere.

Lost wake-ups are not proved from an invariant but step by step. A disk is stranded (`Stranded`)
if it is idle with an IRP queued, a request IRP waits, and no thread is on its way to
that disk. `KeepsGoing` lists what a step would have to take away from a disk to strand it. Every
step keeps it except `PutBackRequest`, and that one only if the disk is not the thread's own.
With one disk there is no other, which is `OneDiskCorrect`.

The facts about sequences these and the proofs of section 4 rest on are in `SequenceLemmas`.
`InServiceIsCurrent` is about IRPs; its proof is about disks (`DiskService`), and
`ServiceByDisk` shows the two equivalent.

Only model-checked: `EveryIrpCompletes`, which is liveness. Its safety halves are proved:
by `PendingGoesOn` an IRP that waits has somebody who goes on with it, unless there is no
request IRP or the disk is stranded, and by `RequestGoesOn` request IRPs are not lost. What
is left to TLC is that those who can go on do.

## 4. PnpLifecycle

State. `fdo` and `pdo` hold the fields of the device extensions, `list`, `numPdos` and
`ready` the FDO's `ListOfPDOs`, `NumPDOs` and `CleanupReadyEvent`, `event` the
`RemoveEvent` of each disk's worker, `rlock` the FDO's remove lock. `call` is the IOCTL
each thread of the service is in, `handle` the service's handle and where
`Bus_FDO_Cleanup` is, `mgr` the REMOVE_DEVICE IRP in progress. `leaks`, `stray` and the
field `surprised` are history, for the properties. A PDO of the model is one device
object: it is created once.

What the code does under the FDO's mutex is one step; before and after it any other
thread may run. `NumPDOs` is read without the mutex in two places, and these reads are
steps of their own.

| Code | Actions |
|---|---|
| `Bus_FDO_IoCtl` up to its `switch` | `Enter` (`AddDisk`, `RemoveDisk`, `GetRequest`) |
| `Bus_AddDisk`, `Bus_InitializePdo` | `CheckUnique`, then `AddFails`, or `InsertPdo` and `Invalidate` |
| `Bus_RemoveDisk` | `FindDisk` |
| GET_REQUEST's walk over the disks | `WalkTo`, `WalkDone` |
| `Bus_CreateClose` | `OpenHandle`, `Close` (what both do to the remove lock is `Bus_CreateClose`) |
| `Bus_FDO_Cleanup` | `CloseHandle`, `CleanupCheck`, `CleanupReset`, `Bus_RemoveAllDisks`, `CleanupWait` |
| `Bus_FDO_PnP` | `StartFdo`, `QueryStopFdo`, `CancelStopFdo`, `StopFdo`, `QueryRemoveFdo`, `CancelRemoveFdo`, `SurpriseRemovalFdo`, `RemoveFdo`, `ReleaseFdo`, `DeleteFdo`, `QueryRelations`, `QueryRelationsFails` |
| `Bus_PDO_PnP` | `StartPdo`, `QueryStopPdo`, `CancelStopPdo`, `StopPdo`, `QueryRemovePdo`, `CancelRemovePdo`, `SurpriseRemovalPdo`, `EjectPdo`, `RemovePdo`, `UnlinkPdo`, `DestroyPdo`, `CountPdos`, `SignalReady` |

The environment. The PnP manager is not part of the repository; `bus` and `dev` are its
view of the devices and decide which IRPs it sends. The model gives it no order of its
own beyond what it guarantees drivers: it sends one state-changing IRP at a time; a device
goes through the states of the PnP state diagram; it removes children before their parent;
it removes the FDO, whose open is exclusive, only when the handle is closed; a disk it was
told is missing gets SURPRISE_REMOVAL (if started) and REMOVE_DEVICE; an ejection
requested for a disk it has not enumerated is lost. A handle of the bus may be opened in every
state once it was started, also while it is being removed, until
`IoReleaseRemoveLockAndWait` refuses new locks (`fdoWait`). Cancellations may come without a query
(the code handles this case explicitly), and every query may be refused by somebody else.
Of the service only one thing is assumed: its container keeps the AddDisk calls for one
disk from overlapping (`disksrv.cpp:579-600`).

Abstractions. Requests of the disks are in `RequestPath`. IRPs that fill in an answer
and change nothing are left out. `StartFdo` failing and the bus disappearing both end
in a surprise removal. What follows the use of the uninitialised `fdoData`
(`CountPdos`) is unpredictable; the model goes on only with the outcome in which nothing
is written.

### Runs

| Run | Instance | Shows |
|---|---|---|
| `pnp` | 2 PDOs that compete for one serial number, 1 thread in any IOCTL, stops, failed restarts, one return that keeps the remove lock, the bus may vanish, the handle may be closed at any time | the list has each disk once and only live ones; the count is the list's length plus the disks a surprise removal orphaned; `RemoveEvent` only after the disk is gone, and never taken back by RemoveDisk; no disk is destroyed that PnP does not know to be missing; no disk points to a deleted bus; serial numbers stay unique; the driver's states are those the PnP manager believes in; each holder of the FDO's remove lock is known |
| `live` | 2 PDOs, 1 thread, fairness, the handle is closed at quiet moments | the cleanup returns and leaves no disk; added disks are enumerated; absent disks are destroyed and their workers told |
| `lost` | 1 PDO, a disk may be being removed when the handle is closed | violation: the cleanup never returns |

Bounds. Two disks are needed for the count to differ from "none", for the list to have a
rest when one is removed, and for the last removal to be told from another. They have one
serial number, so that a disk is added under the number of one that is leaving. One thread
is enough: its IOCTL overlaps every IRP of the PnP manager, and two AddDisk calls that
overlap each other are `DiskService`'s subject. PDOs are created once each, so an
instance covers as many additions as it has PDOs. `MaxLeaks` is how often a handler
returns without releasing the FDO's remove lock. `MayCloseWhile` names what may be under way when the
handle is closed: an IOCTL (`adding`), a disk PnP has not asked about (`unenumerated`),
a removal (`removing`). `pnp` allows all three. Deadlock is not checked there,
because with them the system really stops: see below. In `live` it is checked.

Fairness (`FairSpec`). Threads inside the driver go on; the PnP manager finishes the IRP
it handles, cancels or completes what it has queried, starts the bus, enumerates when
`IoInvalidateDeviceRelations` told it to, and removes what is missing. Nothing obliges
anybody to start a disk, stop, eject, open or close. Enumeration is assumed strongly fair:
it is disabled while the manager queries the bus or removes a disk, which it may do again
and again, and the manager queues enumerations rather than dropping them.

### What the violations show

 1. `lost` (`busenum.c:305`). `Bus_FDO_Cleanup` sees a disk in `NumPDOs`; the disk, which
    was being removed, goes away and its removal sets `CleanupReadyEvent`; the cleanup
    resets the event and waits for it. The event should be reset before the count is read.

A surprise removal of the bus clears `ParentFdo` of its disks (`pnp.c:550`). REMOVE_DEVICE of
such a disk skips the assignment of `fdoData` and reads `NumPDOs` through it
(`buspdo.c:195-212`). The variable `stray` of the model records it; `DestroyedWhenMissing`
says that nothing else leads there.

The cleanup hangs in more circumstances, which `live` excludes by `MayCloseWhile = {}` and
`MayVanish = FALSE`, and which are states of `pnp`: a disk PnP has never enumerated is
waited for, but the manager does not remove what it does not know; an AddDisk that inserts
after `Bus_RemoveAllDisks` adds a disk that is present and waited for; after a surprise
removal `NumPDOs` never reaches zero (`CountIsList` says by how much).

The removal of the bus waits for ever in `IoReleaseRemoveLockAndWait` (`pnp.c:616`) after either of two returns
that keep the FDO's remove lock, and `FdoRemoveLockBalanced` says that there is no third:
QUERY_RELATIONS when its allocation fails (`pnp.c:705-712`), and `Bus_CreateClose` when it finds the
FDO Deleted (`busenum.c:396-401`), which is between `pnp.c:575` and `pnp.c:616`. `Bus_CreateClose`
does the same on a PDO that is not present (`busenum.c:406-411`); nobody waits for a PDO's
remove lock, and opens of PDOs are not modelled.

GET_REQUEST's walk follows links of PDOs that may have been freed (`busenum.c:909`); the
model has the walk and its stale links, but no property about it, since the code nowhere
says that they are safe.

### Proofs

`PnpLifecycleProofs` (the first seven) and `PnpRemovalProofs` prove, for any disks, serial
numbers, threads and settings, from `PnpAssumption` only:

| Theorem | Statement |
|---|---|
| `TypeCorrect` | `Spec => []TypeOK`: also, no counter is ever negative |
| `ListCorrect` | `Spec => []ListedAreLive` |
| `CountCorrect` | `Spec => []CountIsList` |
| `EventCorrect` | `Spec => []EventMeansGone` |
| `EventStaysCorrect` | `Spec => EventStays` |
| `NoParentDangles` | `Spec => []NoDanglingParent` |
| `RemoveLockCorrect` | `Spec => []FdoRemoveLockBalanced`: who holds the FDO's remove lock, and which two returns forget it |
| `SerialCorrect` | `Spec => []UniqueSerial` |
| `DestroyedCorrect` | `Spec => DestroyedWhenMissing` |
| `StatesCorrect` | `Spec => []StatesAgree` |
| `CleanupCorrect` | `Spec => []CleanupLeavesNone`, assuming that the handle is closed with no IOCTL and no removal under way |
| `AwaitedCorrect` | `Spec => []CleanupIsAwaited`, assuming the same: the cleanup waits only for something that is to come |
| `AnnouncedCorrect` | `Spec => []ChangesAreAnnounced`: the manager has been asked to enumerate whatever it does not know yet |

The disks and threads may be infinitely many: only finitely many are ever orphans or busy,
which the invariants carry along. The layers:
 - `DataTypes`: the types of everything but the counters, which could go negative and need
   the layers below;
 - `StructOK`: the list has each disk once and exactly the disks that live and have a
   parent, but for the one between `UnlinkPdo` and `DestroyPdo` (`ListOK`); that disk is
   what `mgr` says (`RemovalOK`); no thread is in an IOCTL when the handle is closed
   (`HandleOK`), so that once the FDO is Deleted the list is empty, no disk comes, and the
   manager removes none (`FdoOK`, with `DeletedOK`: an open is refused from then on); what the manager knows and has not removed exists
   (`KnownOK`). The parts need each other: a removal may start only of a disk that lives,
   which is what the manager knows;
 - `EventOK`, `CountOK`, `LockOK`: the events, the count and the remove lock, each alone on
   top of the first two. `DiskSteps` sorts the steps by what they do to the disks, so that
   these proofs have seven cases and not forty.

 - `PnpRemovalProofs` adds the others. `SerialOK`: between the
   check of a number and the insertion of its disk no disk with that number comes, because
   calls for one number are kept apart (`ApartOK`); a disk with the number may be listed
   only if it was surprise-removed, which the field `surprised` remembers (`SurprisedOK`). `MarkOK`: a disk marked ReportedMissing is not
   present and is missing for the manager or about to be removed by it, and a disk without a
   parent has been surprise-removed; hence the disk a removal destroys is missing. `AgreeOK`:
   the state a query for stop or removal has saved is Started, which a cancelled query
   restores and the manager believes. `DataOK`: `fdoData`, by which a removal knows whom to
   signal, is what the disk's parent was when it began. `CleanOK`: from the closing of the
   handle to `Bus_RemoveAllDisks` every listed disk is present and none is being removed, so the
   event is reset before anything sets it; from then on it is set only when no disk is left.
   `ChangesAreAnnounced` is inductive with `LockOK`, which counts the returns that keep the remove
   lock; one of them, the failed allocation, loses an enumeration.

`CleanupCorrect` and `AwaitedCorrect` assume `MayCloseWhile \subseteq {"unenumerated"}`: a disk
the manager does not know yet keeps the cleanup waiting, but never makes it return early.
Runs `live` and `lost` are on the two sides of that assumption.

Only model-checked: the liveness properties, which are out of TLAPS's reach. Of
`CleanupReturns` the safety half is `CleanupIsAwaited`, of `AddedDiskIsEnumerated` and
`AbsentDiskIsDestroyed` it is `ChangesAreAnnounced`.

## 5. DiskService

State. `diskMap` is the container, `proc` the `CDiskProcessor`s, each created once, with
where their thread is, their two events and their `m_req`. `rpc` is the AddDisk each RPC
thread is in, `run` the thread of `ServiceMain` with the pointer it holds, `irp` and `req`
its GET_REQUEST and the request it received. `term`, `handler`, `status`, `scm` are the
stop: the event, the control handler's thread, `srv.Status` and what was last reported of
it. `pdo`, `known`, `busy` and `ready` are the driver as the service sees it: how far a disk's
PDO is, whether the PnP manager has enumerated it, whether a request of it is with the service,
and `CleanupReadyEvent`.

| Code | Actions |
|---|---|
| RPC `AddDisk`, `CDiskServer::AddDisk` | `AddDisk`, `CreateDiskProcessor` or `CreateFails`, `InsertDisk`, `RegisterWithDriver`, then `Accepted`, or `Refused`, `UndoDelete`, `UndoErase` |
| RPC `RemoveDisk` | `RemoveDisk` |
| `threadProc` | `ServeRequest`, `SendReply`, `RemoveDiskFinal`, `EraseDisk` |
| `Run`, `GetRequest` | `FindDisk`, `ProcessRequest`, `Terminated`, `GetRequestFails` |
| `ServiceMain`, `Terminate` | `ServiceStarts`, `ServiceFailsToStart`, `Terminate`, `SetStopped`, `ReportStopped` |
| `CloseHandle` of the bus: `Bus_FDO_Cleanup` | `CloseBus` (`NumPDOs` is read), `RemoveAllDisks` (the event is reset, the disks marked), `BusClosed` (the event was waited for) |
| `CtrlHandler` | `StopService`, `SetStopPending`, `ReportStopPending`, `Interrogate` |
| the driver and the PnP manager | `Enumerate`, `DispatchRequest`, `EjectDisk`, `DestroyPdo` |

A removal from the container is two steps with `m_cs` held, the deletion and the erasure,
because `FindDisk`, which `Run` calls, does not take `m_cs`. Likewise `Run`'s lookup and its
use of the pointer are two steps.

Undefined behaviour. AddDisk that is refused by the driver, or finds the number taken,
deletes a processor whose thread is waiting (`disksrv.cpp:591`, `596`); the comment at
`disksrv.cpp:252` says that the destructor frees all resources, but it does not end the
thread. That thread waits on closed handles and freed memory: it is `wild`, and the model
goes on with the outcomes that touch nobody else. `Run` may use a processor that was
deleted after its lookup (`disksrv.cpp:660-663`); the model takes the write as lost, and
`RunUsesLiveDisk` says when this cannot happen.

| Run | Instance | Shows |
|---|---|---|
| `service` | 2 processors, 2 numbers, 2 clients, fairness | a disk the driver has is alive, found under its number and has a worker; no processor is deleted twice; a worker's request is of its number; `Run`'s pointer dangles only if the driver has destroyed the disk; the numbers behave as `AttachedDisks` says; destroyed disks leave the container; a stop ends unless requests never pause or the cleanup meets one of three circumstances |
| `stuck` | 1 processor | violation: the service ends and is reported as STOP_PENDING for ever |

Two processors suffice for a number to be taken over by a second disk while the first one is
leaving, two clients for two AddDisk calls of one number, two numbers for `Run` to hold one
disk while another goes. Deadlock is not checked: the service ends.

Fairness. Threads that can go on do; that of `ServiceMain`, once it waits in the driver's cleanup,
only when `CleanupReadyEvent` is set. A missing disk *that the PnP manager knows* is destroyed: run
`live` checks that (`AbsentDiskIsDestroyed`) for handles closed at quiet moments. With
`MayCloseWhile = {"adding", "removing"}` in its cfg TLC finds the same of the disks the manager
knows, in a state space too large for a run that is repeated often. The bus stays
while the service has it open. Of a missing disk the manager does not know
nothing is assumed, and `DestroyPdo` is not enabled for it. Nobody has to add, enumerate, remove,
request or stop anything; there is no fairness for `GetRequestFails`.

`StopEnds` names everything in the module that keeps a stop from ending, all of it of the code's
making. `WaitForMultipleObjects` prefers `RequestEvent` to `TerminationEvent`
(`disksrv.cpp:631`), so a disk whose next request is always there when `Run` looks keeps the
service from stopping: the premise `<>[](irp # "done")`. And the driver's cleanup hangs
(`CleanupDisturbed`) if the last disk goes between its look at `NumPDOs` and its reset
of the event (`LastDiskWentBeforeReset`, which run `lost` shows in the driver), if it marked a disk
absent the PnP manager did not know yet (`UnknownDisk`), or if an AddDisk that overlaps it inserts
a disk after the marking (`LateDisk`). `StopEnds` says that there is no fourth: not disks that have requests, are
ejected, or are being added or removed when the stop comes.

What `stuck` shows (`disksrv.cpp:702`). `CtrlHandler` sets `TerminationEvent` and then writes
STOP_PENDING into the structure `ServiceMain` writes STOPPED into. If it is overtaken,
`ServiceMain` or the handler reports STOP_PENDING last, and `CmdRemoveService`
(`disksrv.cpp:913-922`) waits for a change that does not come. Everything else about the
stop is left to run `service`.

Also seen while modelling, without a property: a stop leaves GET_REQUEST pending with an
`OVERLAPPED` on a stack that has been left (`disksrv.cpp:616-635`) until the handle is closed;
the pointer `FindPlugin` returns may be released by `Terminate` while an AddDisk uses it;
RPC RemoveDisk returns success for a disk that does not exist; a failed AddDisk may return
an error code of 0 (`disksrv.cpp:1017`).

### Proofs

`DiskServiceProofs` proves, for any processors, numbers and clients, from `DiskServiceAssumption`
only:

| Theorem | Statement |
|---|---|
| `TypeCorrect` | `Spec => []TypeOK` |
| `RegisteredCorrect` | `Spec => []RegisteredIsServed` |
| `DeletedCorrect` | `Spec => []DeletedOnce` |
| `RequestCorrect` | `Spec => []RequestIsForDisk` |
| `RunCorrect` | `Spec => []RunUsesLiveDisk` |
| `NumbersCorrect` | `Spec => ImplementsAttachedDisks`, the refinement |
| `HeldCorrect` | `Spec => []RequestIsHeld`: one slot per disk loses no request of a disk the driver has |
| `ContainerCorrect` | `Spec => []FreedOnlyUnderLock`: when `FindDisk` may find a freed processor |
| `DestroyedCorrect` | `Spec => []DestroyedIsLeaving` |
| `CallsCorrect` | `Spec => []CallsAreApart`, which `PnpLifecycle` assumes of the service |
| `WildCorrect` | `Spec => []WildIsUnregistered`: whose worker may run on freed memory |
| `StopCorrect` | `Spec => []StopIsRemembered` |
| `StoppedCorrect` | `Spec => []StoppedOrOverwritten`: what `stuck` shows is the only way |

The inductive invariant `IInv` says for each place of an AddDisk what its processor is (`CallOK`), for
each stage of a processor where it is in the container and what its worker does (`DiskOK`),
whose requests may be in its slot (`SlotOK`), that the container maps numbers to processors
of that number and nobody else's (`MapOK`), that no two AddDisk calls have the same processor
(`Apart`), and what `Run` holds (`RunOK`). `RegisteredIsServed` is not inductive alone: the
driver gets its disk from a client between insertion and registration, and that nobody
takes the processor out of the container in that time is `CallOK` with `MapOK`. The
refinement follows from `DiskOK` and `MapOK`: the processor the container has under a number
decides the number's stage (`StageByMap`), so a step that touches one processor moves one
number.

On top of it three more invariants. `EntriesOK` and `NotYetIn`: what the container has is alive or
about to be erased by the thread that deleted it, and a processor that is still to be inserted
is not in it, so that deleting it, because its number is taken, leaves no entry behind.
`HeldOK`: the driver has one disk of a number at a time; so if the request in `Run`'s hands is
of another disk than the one that has its number now, that disk was destroyed and the new one
has had no request since. `ProcessRequest` may then overwrite its slot, and a reply that is
meant for the old disk finds nothing to complete. `StopOK`: the four states of the stop by
where `ServiceMain` is.

Only model-checked: `DestroyedIsFreed` and `StopEnds`, which are liveness. Their safety halves
are `DestroyedIsLeaving` and `StopIsRemembered`.

## 6. ScsiDisk

What `RequestPath` leaves out of a request, for one disk and its file, over any number of
attachments. Sizes are in blocks; a write writes one value to all its blocks. One IRP after
the other is `CurrentIrp`, as `RequestPath` shows, which is also why driver and worker do
not race for the shared buffer. `possible` is history: what each block may hold, given the
writes that were answered, and those whose outcome the requester does not know.

| Code | Actions |
|---|---|
| `CFileStorage::Init`, `CDiskProcessor::Init` and destructor | `Attach`, `CloseStorage` |
| `Bus_DestroyPdo` | `Detach` |
| `BusSetupRequest` | `StartPacket` |
| `Bus_CancelIrp`, `Bus_ProcessReply` | `Bus_CancelIrp`, `ProcessReply` |
| `Run` | `ProcessRequest` |
| `threadProc` with a plug-in | `ReadBlocks`, `WriteBlocks`, `TransferFails`, `TransferThrows` |
| READ_CAPACITY, drive geometry | `LastBlock`, `Cylinders` |

Faults. A write that fails may have written any number of its first blocks. A storage that
throws, or cannot move its file pointer, leaves the worker's `nBytes` from the request before
(`disksrv.cpp:302-309`), and the driver copies that many bytes of a read whatever the status
(`busenum.c:807-812`): `ReplyFitsRequest` excepts it (`threw`). READ_CAPACITY answers the number of
blocks where the last block's address is expected (`busenum.c:1113`): a requester may use one
block more than there is, the plain file grows by it, and a read of it succeeds with fewer
bytes; `CapacityWithinFile` says that this is all. The geometry is computed from a 32-bit
product (`busenum.c:565`); the example of `vdisksetup/readme.txt:18` exceeds it. It is
then too small, never too large.

| Run | Instance | Shows |
|---|---|---|
| `scsi` | file of at most 3 blocks, 2 per request, 2 values and zero | reads return what was written; a reply is about `CurrentIrp` and moves what it asked for; capacity and geometry fit the file |
| `stale` | file of at most 2 blocks, `MayOvertake = TRUE` | violation: a request of a removed disk is carried out on its successor |

Three blocks and two per request let requests overlap without being equal and start or end
beyond the file; two values tell a stale from a new one, and are interchangeable (symmetry, no
liveness). `BlocksPerWord` is 2, so that the 32-bit product wraps; a cylinder is one
block, as a disk this small could not show the wrap and the rounding both. That the rounding to whole
cylinders never names a block too many is `CapacityCorrect`, for every size and width. Deadlock is not checked: a
file of `MaxSize` cannot be attached. The file's size is assumed to be a multiple of the block.

What `stale` shows (`disksrv.cpp:660`). `Run` has received a request; its disk is removed, its
worker goes, and another disk is attached under the number before `Run` looks the number
up. `RequestIsForDisk` of run `service` says that this is the only way. Run `scsi` excludes it
(`MayOvertake = FALSE`).

Proofs (`ScsiDiskProofs`, from `ScsiDiskAssumption`, for all sizes, widths and values).
`TypeCorrect` and `CapacityCorrect` rest on `SizeOK`: the file is never shorter than the last
disk made of it, *also while there is none*, so a request that outlives a removal still is on
the next disk. `ReplyCorrect` and `ReadCorrect` need that `CurrentIrp`'s request is in one place
at a time (`AloneOK`), that the buffer holds the value of a write that is to come, which is
already possible if the write was given up (`BufferOK`), and that every block holds something
possible, or what a write whose reply is on its way has put there (`BlockOK`).
`ReadCorrect` assumes `~ MayOvertake`, without which run `stale` refutes it. `FileCorrect`
(`Spec => []FileIsPossible`, under the same assumption) is about the file rather than
the reply: while no request is current it holds what the requesters were told.

## 7. Installer

State: the product as Windows Installer has it, the device nodes, the three parts of the
driver package (key of the service, INF, image), the custom action under way, and what each
open dialog has seen (`setup`). Nodes share the package: removing one node removes it for all.

| Code | Actions |
|---|---|
| `InstallUISequence` with `CheckInstall`, launch condition | `OpenSetup`, `CancelSetup` |
| `InstallExecuteSequence` begins | `StartInstall`, `StartQuietInstall` |
| `Install`, `InstallDriver` | `RegisterDevice`, `UpdateDriver`, `InstallEnds`, `InstallFails` |
| `Uninstall`, `UninstallDriver` | `StartUninstall`, `NextNode`, `ScanFails`, `UninstallEnds` |
| `RemoveDevice` | `LookUp`, `RemoveNode`, `DeleteKey`, `UninstallInf`, `UninstallCrashes`, `DeleteImage`, `RemoveDeviceFails` |

Windows Installer executes one installation at a time. The dialogs before it, in which
`CheckInstall` runs (`Product.wxs:152-156`), are not serialised: several may be open, and while
one stands at "Next" anybody may install. So the check and the installation are two steps, and
a session is `checked` from the first until somebody makes a node, which leaves it `unsure`, as
does a check that could not list the nodes. `unsure` (without index) is history: an
installation was executed on nothing better than that.

`GetDriverInfPath` returns TRUE in three ways (`path`): with `InfPath` written, with the list of drivers
empty, and, the error being logged only, with `SetupDiEnumDriverInfo` failing at its first call
(`ca.cpp:237-246`, `258-259`). In the last two `InfPath` is uninitialised and goes through `strrchr`
(`ca.cpp:323`). What it holds is whatever is on the stack: perhaps the path of the node before
(`UninstallInf`), perhaps nothing with a backslash, and the process dies (`UninstallCrashes`).

Run `install`: three nodes, two dialogs, any step may fail, fairness.
 - `InfIsFound`: where `RemoveDevice` uninstalls the INF it is there, and `InfPath` is unwritten
   only if the enumeration itself failed. The list is never empty because of an earlier
   removal that stopped half-way, since the key of the service goes before the INF and the next
   removal stops where it looks for the key.
 - `OneNodeIfChecked`: a second node is made only by an installation for which nobody had
   looked, or after whose look another one made a node. The check promises no more: two
   dialogs may both pass it, and when the first installation fails, its node stays
   and the second makes another.
 - `InstalledIsWhole`: between actions an installed product has its driver whole, or nothing of it,
   or, where a removal died of an unwritten `InfPath`, all but the key.
 - `ProductCanBeRemoved`.

Three nodes, because the first makes the second's removal fail, and
the third tells "the second" from "the last". Two dialogs, because a check becomes stale
by one other installation. Fairness: Windows Installer goes on, and the
administrator asks for the removal until it is done; nothing obliges anybody to install.

What the model shows of the code's faults, which the properties allow for:
 - `Uninstall` returns a `BOOL` as its exit code (`ca.cpp:423`). TRUE is an error to Windows
   Installer, FALSE is success: a removal of the driver that succeeds rolls the removal of the
   product back, one that fails lets the product go and leaves the rest of the driver. The
   second attempt finds no node, "succeeds", and takes the product off.
 - `InstallDriverRollback` gets no `CustomActionData` (`Product.wxs:132-148`): it looks for
   devices with an empty id, and a failed installation stays as far as it got.
 - `CheckDriverInstalled` is in the dialogs' sequence only (`Product.wxs:152-156`): an
   installation without them, or with stale ones, makes a second node (`unsure`).
 - `GetDriverInfPath` hides a failed enumeration, as above.

Assumptions: the installer's own actions after `UninstallDriver` do not fail; reading
`CustomActionData` does not fail; whether the product is installed is seen anew when an execution
begins. Whether `DeleteFile` ever succeeds depends on whether the
registry's `ImagePath` is one it understands; the model allows both.

Proofs (`InstallerProofs`, from `InstallerAssumption`, for any nodes and dialogs): `TypeCorrect`,
`InfCorrect`, `OneNode`, `WholeOrNothing`. The invariant has four parts: what each step of an
installation may rely on (`InstallOK`); that what a dialog has seen holds as long as it is `checked`
(`SetupOK`); that the key of the service goes first, so that the
INF and the image are there as long as it is (`PackageOK`); and that a removal reports success
only when nothing of the package is left (`RemovalOK`). `ProductCanBeRemoved`
is liveness and only model-checked.

## 8. Not modelled

 - Power (`power.c`): forwards the bus's IRPs and stores a disk's power state, which only the
   log reads.
 - Claim and release, TEST_UNIT_READY, MODE_SENSE, sense data: nothing in the program reads
   what they store. (`busenum.c:1142` and `1156` put `SRB_STATUS_AUTOSENSE_VALID` into `ScsiStatus`;
   `busenum.c:822` puts it where it belongs.)
 - Identification, text and logging keep no state. The RPC stubs and `umode/inc` are
   generated. `diskctl` parses arguments and makes one call. `CmdInstallService` and
   `CmdRemoveService` are sequences of calls of the service control manager.
 - Loading of plug-ins; the VMDK library.
 - A second bus: the driver's state is per FDO, and the service opens one.
