---------------------------- MODULE RequestPath -----------------------------
(***************************************************************************)
(* The path of a read or write request through the bus driver and back     *)
(* (bus/busenum.c, bus/pnp.c): the class driver's SCSI IRPs, the disks'    *)
(* IRP queues, the one queue of GET_REQUEST IRPs all disks share, the      *)
(* service that answers, IRP cancellation and the removal of a disk.       *)
(*                                                                         *)
(* Atomicity.  What the code does under a PDO's PDOLock is one step where  *)
(* it makes a single access to state that lock does not protect, and       *)
(* several steps with the lock held where it makes more: the request queue *)
(* has a lock of its own, taken for one insertion or removal at a time,    *)
(* and IRPs are cancelled without the PDOLock.  A completion               *)
(* (IoCompleteRequest) is part of the step that decides it.                *)
(*                                                                         *)
(* IoAcquireRemoveLock on a PDO is never refused: nothing calls            *)
(* IoReleaseRemoveLockAndWait for a PDO.  Its failure branches are         *)
(* therefore unreachable and have no action here.                          *)
(***************************************************************************)
EXTENDS Integers, SequencesExt

CONSTANTS
  Pdos,       \* the disks: PDOs in the driver, CDiskProcessors in the service
  Irps,       \* the read and write IRPs, each sent once
  Reqs,       \* the GET_REQUEST IRPs; the service keeps one, sent repeatedly
  Target,     \* the PDO each read or write IRP is sent to
  None,       \* the NULL of every pointer
  MayCancel,  \* whether the system cancels IRPs
  MayRemove   \* whether the system removes disks

ASSUME RequestPathAssumption ==
  /\ Pdos \cap Reqs = {}
  /\ None \notin Pdos \cup Irps \cup Reqs \cup {"csq", "current"}
  /\ Target \in [Irps -> Pdos]
  /\ MayCancel \in BOOLEAN
  /\ MayRemove \in BOOLEAN

VARIABLES
  \* a read or write IRP
  issued,         \* those sent to the driver so far
  dispatched,     \* those in Bus_Scsi, before BusStartPacket
  cancelFlag,     \* those with Irp->Cancel set
  cancelRoutine,  \* [Irps -> {None, "csq", "current"}], Irp->CancelRoutine
  ioStatus,       \* [Irps -> Statuses], Irp->IoStatus.Status
  completions,    \* [Irps -> Nat], how often IoCompleteRequest was called
  lockTags,       \* [Irps -> Int], remove-lock acquisitions minus releases
  \* a PDO
  irpQueue,       \* [Pdos -> Seq(Irps)], IrpQueue
  currentIrp,     \* [Pdos -> Irps \cup {None}], CurrentIrp
  pdoLock,        \* [Pdos -> Threads \cup {None}], the holder of PDOLock
  pnp,            \* [Pdos -> PnpStates], how far the PDO's removal is
  \* the GET_REQUEST IRPs
  requestQueue,   \* Seq(Reqs), the FDO's RequestQueue
  outstanding,    \* those sent to the driver and not received back
  carried,        \* [Reqs -> Irps \cup {None}], the request one was completed with
  \* a thread in the driver
  pc,             \* [Threads -> Places]
  at,             \* [Threads -> Pdos \cup {None}], its pdoData
  rqIrp,          \* [Threads -> Reqs \cup {None}], its rqIrp
  held,           \* [Threads -> Irps \cup {None}], its Irp
  todo,           \* [Reqs -> SUBSET Pdos], the rest of ListOfPDOs in GET_REQUEST
  \* the service
  attached,       \* the disks in the service's CDiskContainer
  slot,           \* [Pdos -> Irps \cup {None}], a worker's m_req
  replying        \* [Pdos -> Irps \cup {None}], what its SEND_REPLY answers

irpVars == <<issued, dispatched, cancelFlag, cancelRoutine, ioStatus,
             completions, lockTags>>
pdoVars == <<irpQueue, currentIrp, pdoLock, pnp>>
requestVars == <<requestQueue, outstanding, carried>>
threadVars == <<pc, at, rqIrp, held, todo>>
serviceVars == <<attached, slot, replying>>
vars == <<irpVars, pdoVars, requestVars, threadVars, serviceVars>>

-----------------------------------------------------------------------------
(* The worker of disk p sends p's replies, so p also names that thread;    *)
(* a GET_REQUEST IRP also names the thread that sent it.                   *)
Threads == Pdos \cup Reqs

Statuses == {"pending", "served", "cancelled", "nodevice"}

(* "deleted": DevicePnPState is Deleted and the PDO is off ListOfPDOs;     *)
(* "draining": Bus_DestroyPdo has dealt with CurrentIrp; "gone":           *)
(* IoDeleteDevice has been called and RemoveEvent set.                     *)
PnpStates == {"live", "deleted", "draining", "gone"}

(* "user": not in the driver; "walk": in GET_REQUEST, between two PDOs;    *)
(* "found": in Bus_ProcessReply, the PDO found, the mutex released;        *)
(* "taken": there with CurrentIrp taken; "next": about to run              *)
(* BusStartNextPacket; "rqTaken", "irpTaken": inside it.                   *)
Places == {"user", "walk", "found", "taken", "next", "rqTaken", "irpTaken"}
LockPlaces == {"taken", "rqTaken", "irpTaken"}

Listed == {p \in Pdos : pnp[p] = "live"}

(* Where a thread goes on after BusStartNextPacket: to the next PDO of     *)
(* GET_REQUEST, or out of SEND_REPLY.                                      *)
AfterStartNext(t) == IF t \in Reqs THEN "walk" ELSE "user"

(* Mutant of HandOver: the request IRP is filled in but not completed.      *)
HandOverUncompleted(r, i) ==
  /\ UNCHANGED carried
  /\ currentIrp' = [currentIrp EXCEPT ![Target[i]] = i]
  /\ cancelRoutine' = [cancelRoutine EXCEPT ![i] = "current"]

(* BusSetupRequest, CurrentIrp = Irp, IoSetCancelRoutine(Bus_CancelIrp)    *)
(* and the completion of request IRP r with IRP i.                         *)
HandOver(r, i) ==
  /\ carried' = [carried EXCEPT ![r] = i]
  /\ currentIrp' = [currentIrp EXCEPT ![Target[i]] = i]
  /\ cancelRoutine' = [cancelRoutine EXCEPT ![i] = "current"]

(* IoCompleteRequest(Irp) with IoStatus.Status = s. *)
Complete(i, s) ==
  /\ ioStatus' = [ioStatus EXCEPT ![i] = s]
  /\ completions' = [completions EXCEPT ![i] = @ + 1]

Init ==
  /\ issued = {} /\ dispatched = {} /\ cancelFlag = {}
  /\ cancelRoutine = [i \in Irps |-> None]
  /\ ioStatus = [i \in Irps |-> "pending"]
  /\ completions = [i \in Irps |-> 0]
  /\ lockTags = [i \in Irps |-> 0]
  /\ irpQueue = [p \in Pdos |-> <<>>]
  /\ currentIrp = [p \in Pdos |-> None]
  /\ pdoLock = [p \in Pdos |-> None]
  /\ pnp = [p \in Pdos |-> "live"]
  /\ requestQueue = <<>> /\ outstanding = {}
  /\ carried = [r \in Reqs |-> None]
  /\ pc = [t \in Threads |-> "user"]
  /\ at = [t \in Threads |-> None]
  /\ rqIrp = [t \in Threads |-> None]
  /\ held = [t \in Threads |-> None]
  /\ todo = [r \in Reqs |-> {}]
  /\ attached = Pdos
  /\ slot = [p \in Pdos |-> None]
  /\ replying = [p \in Pdos |-> None]

-----------------------------------------------------------------------------
(* The class driver.                                                       *)

(* Bus_Scsi up to the call of BusStartPacket, which                        *)
(* Bus_ExecuteSrb and Bus_ExecuteCommand reach for a read or a write: the  *)
(* device is not Deleted and the remove lock is acquired.                  *)
Bus_Scsi(i) ==
  /\ i \notin issued
  /\ pnp[Target[i]] = "live"
  /\ issued' = issued \cup {i}
  /\ dispatched' = dispatched \cup {i}
  /\ lockTags' = [lockTags EXCEPT ![i] = @ + 1]
  /\ UNCHANGED <<cancelFlag, cancelRoutine, ioStatus, completions>>
  /\ UNCHANGED <<pdoVars, requestVars, threadVars, serviceVars>>

(* Bus_Scsi on a Deleted device: the IRP is completed at END, where the    *)
(* remove lock is released although it was not acquired.                   *)
Bus_ScsiDeleted(i) ==
  /\ i \notin issued
  /\ pnp[Target[i]] \in {"deleted", "draining"}
  /\ issued' = issued \cup {i}
  /\ Complete(i, "nodevice")
  /\ lockTags' = [lockTags EXCEPT ![i] = @ - 1]
  /\ UNCHANGED <<dispatched, cancelFlag, cancelRoutine>>
  /\ UNCHANGED <<pdoVars, requestVars, threadVars, serviceVars>>

(* BusStartPacket with the PDO busy or no request IRP waiting: the IRP     *)
(* goes to the tail of IrpQueue, and Bus_Scsi releases the remove lock.    *)
QueuePacket(i) ==
  LET p == Target[i] IN
  /\ i \in dispatched \ cancelFlag
  /\ pdoLock[p] = None
  /\ currentIrp[p] # None \/ requestQueue = <<>>
  /\ dispatched' = dispatched \ {i}
  /\ lockTags' = [lockTags EXCEPT ![i] = @ - 1]
  /\ irpQueue' = [irpQueue EXCEPT ![p] = Append(@, i)]
  /\ cancelRoutine' = [cancelRoutine EXCEPT ![i] = "csq"]
  /\ UNCHANGED <<issued, cancelFlag, ioStatus, completions>>
  /\ UNCHANGED <<currentIrp, pdoLock, pnp, requestVars, threadVars, serviceVars>>

(* The same with an IRP that is cancelled already: IoCsqInsertIrp          *)
(* completes it.                                                           *)
QueueCancelledPacket(i) ==
  LET p == Target[i] IN
  /\ i \in dispatched \cap cancelFlag
  /\ pdoLock[p] = None
  /\ currentIrp[p] # None \/ requestQueue = <<>>
  /\ dispatched' = dispatched \ {i}
  /\ lockTags' = [lockTags EXCEPT ![i] = @ - 1]
  /\ Complete(i, "cancelled")
  /\ UNCHANGED <<issued, cancelFlag, cancelRoutine>>
  /\ UNCHANGED <<pdoVars, requestVars, threadVars, serviceVars>>

(* Mutant of StartPacket: CurrentIrp is not tested. *)
StartPacketBusy(i) ==
  /\ i \in dispatched
  /\ pdoLock[Target[i]] = None
  /\ requestQueue # <<>>
  /\ dispatched' = dispatched \ {i}
  /\ requestQueue' = Tail(requestQueue)
  /\ HandOver(Head(requestQueue), i)
  /\ UNCHANGED <<issued, cancelFlag, ioStatus, completions, lockTags>>
  /\ UNCHANGED <<irpQueue, pdoLock, pnp, outstanding, threadVars, serviceVars>>

(* BusStartPacket with the PDO idle and a request IRP waiting: the IRP is  *)
(* handed over at once.  The remove lock is acquired for it and Bus_Scsi   *)
(* releases its own acquisition.                                           *)
StartPacket(i) ==
  LET p == Target[i] IN
  /\ i \in dispatched
  /\ pdoLock[p] = None
  /\ currentIrp[p] = None
  /\ requestQueue # <<>>
  /\ dispatched' = dispatched \ {i}
  /\ requestQueue' = Tail(requestQueue)
  /\ HandOver(Head(requestQueue), i)
  /\ UNCHANGED <<issued, cancelFlag, ioStatus, completions, lockTags>>
  /\ UNCHANGED <<irpQueue, pdoLock, pnp, outstanding, threadVars, serviceVars>>

(* IoCancelIrp(i) sets Irp->Cancel and calls the cancel routine, if any.   *)
MayCancelIrp(i) ==
  MayCancel /\ i \in issued /\ i \notin cancelFlag /\ completions[i] = 0

(* A queued IRP leaves its queue and BusCompleteCanceledIrp completes it. *)
CancelQueued(i) ==
  LET p == Target[i] IN
  /\ MayCancelIrp(i)
  /\ cancelRoutine[i] = "csq"
  /\ cancelFlag' = cancelFlag \cup {i}
  /\ cancelRoutine' = [cancelRoutine EXCEPT ![i] = None]
  /\ \E k \in DOMAIN irpQueue[p] :
       /\ irpQueue[p][k] = i
       /\ irpQueue' = [irpQueue EXCEPT ![p] = RemoveAt(@, k)]
  /\ Complete(i, "cancelled")
  /\ UNCHANGED <<issued, dispatched, lockTags, currentIrp, pdoLock, pnp>>
  /\ UNCHANGED <<requestVars, threadVars, serviceVars>>

(* Mutant of Bus_CancelIrp: it also clears CurrentIrp. *)
Bus_CancelIrpClearing(i) ==
  /\ MayCancelIrp(i)
  /\ cancelRoutine[i] = "current"
  /\ cancelFlag' = cancelFlag \cup {i}
  /\ cancelRoutine' = [cancelRoutine EXCEPT ![i] = None]
  /\ currentIrp' = [currentIrp EXCEPT ![Target[i]] = None]
  /\ Complete(i, "cancelled")
  /\ UNCHANGED <<issued, dispatched, lockTags, irpQueue, pdoLock, pnp>>
  /\ UNCHANGED <<requestVars, threadVars, serviceVars>>

(* For CurrentIrp, Bus_CancelIrp completes the IRP and does nothing else.  *)
(* That IoCancelIrp takes the cancel routine and that the routine then     *)
(* completes the IRP is one step here; a reply may come between the two,   *)
(* its completion being the first.  No property depends on the order.      *)
Bus_CancelIrp(i) ==
  /\ MayCancelIrp(i)
  /\ cancelRoutine[i] = "current"
  /\ cancelFlag' = cancelFlag \cup {i}
  /\ cancelRoutine' = [cancelRoutine EXCEPT ![i] = None]
  /\ Complete(i, "cancelled")
  /\ UNCHANGED <<issued, dispatched, lockTags>>
  /\ UNCHANGED <<pdoVars, requestVars, threadVars, serviceVars>>

(* An IRP a thread is working on has no cancel routine. *)
CancelInHand(i) ==
  /\ MayCancelIrp(i)
  /\ cancelRoutine[i] = None
  /\ cancelFlag' = cancelFlag \cup {i}
  /\ UNCHANGED <<issued, dispatched, cancelRoutine, ioStatus, completions, lockTags>>
  /\ UNCHANGED <<pdoVars, requestVars, threadVars, serviceVars>>

-----------------------------------------------------------------------------
(* GET_REQUEST and BusStartNextPacket.                                     *)

(* Mutant of GetRequest: the disks are not walked. *)
GetRequestOnly(r) ==
  /\ pc[r] = "user" /\ r \notin outstanding
  /\ outstanding' = outstanding \cup {r}
  /\ requestQueue' = Append(requestQueue, r)
  /\ UNCHANGED <<carried, threadVars, irpVars, pdoVars, serviceVars>>

(* The service sends its GET_REQUEST again: Bus_FDO_IoCtl queues it, then  *)
(* walks ListOfPDOs.                                                       *)
GetRequest(r) ==
  /\ pc[r] = "user" /\ r \notin outstanding
  /\ outstanding' = outstanding \cup {r}
  /\ requestQueue' = Append(requestQueue, r)
  /\ pc' = [pc EXCEPT ![r] = "walk"]
  /\ todo' = [todo EXCEPT ![r] = Listed]
  /\ UNCHANGED <<carried, at, rqIrp, held, irpVars, pdoVars, serviceVars>>

(* The walk comes to a PDO that is still listed, or ends. *)
WalkTo(r, p) ==
  /\ pc[r] = "walk" /\ p \in todo[r] \cap Listed
  /\ todo' = [todo EXCEPT ![r] = @ \ {p}]
  /\ at' = [at EXCEPT ![r] = p]
  /\ pc' = [pc EXCEPT ![r] = "next"]
  /\ UNCHANGED <<rqIrp, held, irpVars, pdoVars, requestVars, serviceVars>>

WalkDone(r) ==
  /\ pc[r] = "walk" /\ todo[r] \cap Listed = {}
  /\ todo' = [todo EXCEPT ![r] = {}]
  /\ pc' = [pc EXCEPT ![r] = "user"]
  /\ UNCHANGED <<at, rqIrp, held, irpVars, pdoVars, requestVars, serviceVars>>

(* BusStartNextPacket finds the PDO busy, or no request IRP. *)
NothingToStart(t) ==
  /\ pc[t] = "next"
  /\ pdoLock[at[t]] = None
  /\ currentIrp[at[t]] # None \/ requestQueue = <<>>
  /\ pc' = [pc EXCEPT ![t] = AfterStartNext(t)]
  /\ at' = [at EXCEPT ![t] = None]
  /\ UNCHANGED <<rqIrp, held, todo, irpVars, pdoVars, requestVars, serviceVars>>

(* It takes a request IRP off the shared queue, keeping PDOLock. *)
TakeRequest(t) ==
  /\ pc[t] = "next"
  /\ pdoLock[at[t]] = None
  /\ currentIrp[at[t]] = None
  /\ requestQueue # <<>>
  /\ pdoLock' = [pdoLock EXCEPT ![at[t]] = t]
  /\ rqIrp' = [rqIrp EXCEPT ![t] = Head(requestQueue)]
  /\ requestQueue' = Tail(requestQueue)
  /\ pc' = [pc EXCEPT ![t] = "rqTaken"]
  /\ UNCHANGED <<outstanding, carried, at, held, todo>>
  /\ UNCHANGED <<irpQueue, currentIrp, pnp, irpVars, serviceVars>>

(* Mutant of PutBackRequest: the wrong pointer is put back. *)
PutBackWrongIrp(t) ==
  /\ pc[t] = "rqTaken"
  /\ irpQueue[at[t]] = <<>>
  /\ requestQueue' = Append(requestQueue, held[t])
  /\ rqIrp' = [rqIrp EXCEPT ![t] = None]
  /\ pdoLock' = [pdoLock EXCEPT ![at[t]] = None]
  /\ pc' = [pc EXCEPT ![t] = AfterStartNext(t)]
  /\ at' = [at EXCEPT ![t] = None]
  /\ UNCHANGED <<outstanding, carried, held, todo>>
  /\ UNCHANGED <<irpQueue, currentIrp, pnp, irpVars, serviceVars>>

(* The PDO's IrpQueue is empty: the request IRP is queued again. *)
PutBackRequest(t) ==
  /\ pc[t] = "rqTaken"
  /\ irpQueue[at[t]] = <<>>
  /\ requestQueue' = Append(requestQueue, rqIrp[t])
  /\ rqIrp' = [rqIrp EXCEPT ![t] = None]
  /\ pdoLock' = [pdoLock EXCEPT ![at[t]] = None]
  /\ pc' = [pc EXCEPT ![t] = AfterStartNext(t)]
  /\ at' = [at EXCEPT ![t] = None]
  /\ UNCHANGED <<outstanding, carried, held, todo>>
  /\ UNCHANGED <<irpQueue, currentIrp, pnp, irpVars, serviceVars>>

(* Mutant of TakeQueuedIrp: the remove lock is not acquired. *)
TakeQueuedIrpUnlocked(t) ==
  LET p == at[t]
      i == Head(irpQueue[p]) IN
  /\ pc[t] = "rqTaken"
  /\ irpQueue[p] # <<>>
  /\ irpQueue' = [irpQueue EXCEPT ![p] = Tail(@)]
  /\ cancelRoutine' = [cancelRoutine EXCEPT ![i] = None]
  /\ held' = [held EXCEPT ![t] = i]
  /\ pc' = [pc EXCEPT ![t] = "irpTaken"]
  /\ UNCHANGED <<issued, dispatched, cancelFlag, ioStatus, completions>>
  /\ UNCHANGED <<lockTags, currentIrp, pdoLock, pnp, at, rqIrp, todo>>
  /\ UNCHANGED <<requestVars, serviceVars>>

(* It takes the head of IrpQueue and acquires the remove lock for it. *)
TakeQueuedIrp(t) ==
  LET p == at[t]
      i == Head(irpQueue[p]) IN
  /\ pc[t] = "rqTaken"
  /\ irpQueue[p] # <<>>
  /\ irpQueue' = [irpQueue EXCEPT ![p] = Tail(@)]
  /\ cancelRoutine' = [cancelRoutine EXCEPT ![i] = None]
  /\ held' = [held EXCEPT ![t] = i]
  /\ lockTags' = [lockTags EXCEPT ![i] = @ + 1]
  /\ pc' = [pc EXCEPT ![t] = "irpTaken"]
  /\ UNCHANGED <<issued, dispatched, cancelFlag, ioStatus, completions>>
  /\ UNCHANGED <<currentIrp, pdoLock, pnp, at, rqIrp, todo>>
  /\ UNCHANGED <<requestVars, serviceVars>>

(* It hands the IRP over and releases PDOLock. *)
StartTakenIrp(t) ==
  /\ pc[t] = "irpTaken"
  /\ HandOver(rqIrp[t], held[t])
  /\ rqIrp' = [rqIrp EXCEPT ![t] = None]
  /\ held' = [held EXCEPT ![t] = None]
  /\ pdoLock' = [pdoLock EXCEPT ![at[t]] = None]
  /\ pc' = [pc EXCEPT ![t] = AfterStartNext(t)]
  /\ at' = [at EXCEPT ![t] = None]
  /\ UNCHANGED <<issued, dispatched, cancelFlag, ioStatus, completions, lockTags>>
  /\ UNCHANGED <<irpQueue, pnp, requestQueue, outstanding, todo, serviceVars>>

-----------------------------------------------------------------------------
(* The service's threads and SEND_REPLY.                                   *)

(* CDiskServer::Run takes the request its GET_REQUEST came back with to    *)
(* the disk's worker: m_req is overwritten, whatever it held.              *)
ProcessRequest(r) ==
  LET i == carried[r] IN
  /\ pc[r] = "user" /\ i # None
  /\ outstanding' = outstanding \ {r}
  /\ carried' = [carried EXCEPT ![r] = None]
  /\ slot' = IF Target[i] \in attached THEN [slot EXCEPT ![Target[i]] = i] ELSE slot
  /\ UNCHANGED <<requestQueue, attached, replying, irpVars, pdoVars, threadVars>>

(* A worker has done the transfer of m_req and sends its reply;            *)
(* Bus_ProcessReply finds the disk under the mutex.                        *)
SendReply(p) ==
  /\ pc[p] = "user" /\ slot[p] # None
  /\ p \in Listed
  /\ slot' = [slot EXCEPT ![p] = None]
  /\ replying' = [replying EXCEPT ![p] = slot[p]]
  /\ at' = [at EXCEPT ![p] = p]
  /\ pc' = [pc EXCEPT ![p] = "found"]
  /\ UNCHANGED <<attached, rqIrp, held, todo, irpVars, pdoVars, requestVars>>

(* The disk is not listed any more: the reply is refused. *)
SendReplyRefused(p) ==
  /\ pc[p] = "user" /\ slot[p] # None
  /\ p \notin Listed
  /\ slot' = [slot EXCEPT ![p] = None]
  /\ UNCHANGED <<attached, replying, threadVars, irpVars, pdoVars, requestVars>>

(* Under PDOLock, Bus_ProcessReply finds no CurrentIrp and returns. *)
ReplyWithoutIrp(p) ==
  /\ pc[p] = "found"
  /\ pdoLock[p] = None
  /\ currentIrp[p] = None
  /\ replying' = [replying EXCEPT ![p] = None]
  /\ at' = [at EXCEPT ![p] = None]
  /\ pc' = [pc EXCEPT ![p] = "user"]
  /\ UNCHANGED <<attached, slot, rqIrp, held, todo, irpVars, pdoVars, requestVars>>

(* Under PDOLock, it takes CurrentIrp and clears the cancel routine. *)
TakeCurrentIrp(p) ==
  LET i == currentIrp[p] IN
  /\ pc[p] = "found"
  /\ pdoLock[p] = None
  /\ i # None
  /\ pdoLock' = [pdoLock EXCEPT ![p] = p]
  /\ currentIrp' = [currentIrp EXCEPT ![p] = None]
  /\ held' = [held EXCEPT ![p] = i]
  /\ cancelRoutine' = [cancelRoutine EXCEPT ![i] = None]
  /\ pc' = [pc EXCEPT ![p] = "taken"]
  /\ UNCHANGED <<issued, dispatched, cancelFlag, ioStatus, completions, lockTags>>
  /\ UNCHANGED <<irpQueue, pnp, at, rqIrp, todo, requestVars, serviceVars>>

(* Mutants of FinishReply: Irp->Cancel is not tested, or the next IRP is    *)
(* not started.                                                            *)
FinishReplyAnyway(p) ==
  LET i == held[p] IN
  /\ pc[p] = "taken"
  /\ Complete(i, "served")
  /\ lockTags' = [lockTags EXCEPT ![i] = @ - 1]
  /\ pdoLock' = [pdoLock EXCEPT ![p] = None]
  /\ held' = [held EXCEPT ![p] = None]
  /\ replying' = [replying EXCEPT ![p] = None]
  /\ pc' = [pc EXCEPT ![p] = "next"]
  /\ UNCHANGED <<issued, dispatched, cancelFlag, cancelRoutine>>
  /\ UNCHANGED <<irpQueue, currentIrp, pnp, at, rqIrp, todo>>
  /\ UNCHANGED <<requestVars, attached, slot>>

FinishReplyOnly(p) ==
  LET i == held[p] IN
  /\ pc[p] = "taken"
  /\ Complete(i, IF i \in cancelFlag THEN "cancelled" ELSE "served")
  /\ lockTags' = [lockTags EXCEPT ![i] = @ - 1]
  /\ pdoLock' = [pdoLock EXCEPT ![p] = None]
  /\ held' = [held EXCEPT ![p] = None]
  /\ replying' = [replying EXCEPT ![p] = None]
  /\ at' = [at EXCEPT ![p] = None]
  /\ pc' = [pc EXCEPT ![p] = "user"]
  /\ UNCHANGED <<issued, dispatched, cancelFlag, cancelRoutine>>
  /\ UNCHANGED <<irpQueue, currentIrp, pnp, rqIrp, todo>>
  /\ UNCHANGED <<requestVars, attached, slot>>

(* It chooses the status by Irp->Cancel, releases PDOLock, completes the   *)
(* IRP, releases the remove lock, and goes on to BusStartNextPacket.       *)
FinishReply(p) ==
  LET i == held[p] IN
  /\ pc[p] = "taken"
  /\ Complete(i, IF i \in cancelFlag THEN "cancelled" ELSE "served")
  /\ lockTags' = [lockTags EXCEPT ![i] = @ - 1]
  /\ pdoLock' = [pdoLock EXCEPT ![p] = None]
  /\ held' = [held EXCEPT ![p] = None]
  /\ replying' = [replying EXCEPT ![p] = None]
  /\ pc' = [pc EXCEPT ![p] = "next"]
  /\ UNCHANGED <<issued, dispatched, cancelFlag, cancelRoutine>>
  /\ UNCHANGED <<irpQueue, currentIrp, pnp, at, rqIrp, todo>>
  /\ UNCHANGED <<requestVars, attached, slot>>

(* The worker sees RemoveEvent, with no request left, and deletes itself. *)
RemoveDiskFinal(p) ==
  /\ pnp[p] = "gone" /\ p \in attached
  /\ pc[p] = "user" /\ slot[p] = None
  /\ attached' = attached \ {p}
  /\ UNCHANGED <<slot, replying, irpVars, pdoVars, requestVars, threadVars>>

-----------------------------------------------------------------------------
(* IRP_MN_REMOVE_DEVICE of a disk that has been reported missing.          *)

(* The PDO becomes Deleted and leaves ListOfPDOs. *)
RemovePdo(p) ==
  /\ MayRemove
  /\ pnp[p] = "live"
  /\ pnp' = [pnp EXCEPT ![p] = "deleted"]
  /\ UNCHANGED <<irpQueue, currentIrp, pdoLock, irpVars, requestVars>>
  /\ UNCHANGED <<threadVars, serviceVars>>

(* Mutant of DestroyCurrentIrp: CurrentIrp is completed but not cleared. *)
DestroyCurrentIrpKept(p) ==
  LET i == currentIrp[p] IN
  /\ pnp[p] = "deleted" /\ i # None
  /\ pdoLock[p] = None
  /\ pnp' = [pnp EXCEPT ![p] = "draining"]
  /\ cancelRoutine' = [cancelRoutine EXCEPT ![i] = None]
  /\ Complete(i, "cancelled")
  /\ lockTags' = [lockTags EXCEPT ![i] = @ - 1]
  /\ UNCHANGED <<issued, dispatched, cancelFlag, irpQueue, currentIrp, pdoLock>>
  /\ UNCHANGED <<requestVars, threadVars, serviceVars>>

(* Bus_DestroyPdo takes CurrentIrp under PDOLock and completes it. *)
DestroyCurrentIrp(p) ==
  LET i == currentIrp[p] IN
  /\ pnp[p] = "deleted" /\ i # None
  /\ pdoLock[p] = None
  /\ pnp' = [pnp EXCEPT ![p] = "draining"]
  /\ currentIrp' = [currentIrp EXCEPT ![p] = None]
  /\ cancelRoutine' = [cancelRoutine EXCEPT ![i] = None]
  /\ Complete(i, "cancelled")
  /\ lockTags' = [lockTags EXCEPT ![i] = @ - 1]
  /\ UNCHANGED <<issued, dispatched, cancelFlag, irpQueue, pdoLock>>
  /\ UNCHANGED <<requestVars, threadVars, serviceVars>>

(* Or finds none. *)
DestroyNoIrp(p) ==
  /\ pnp[p] = "deleted" /\ currentIrp[p] = None
  /\ pdoLock[p] = None
  /\ pnp' = [pnp EXCEPT ![p] = "draining"]
  /\ UNCHANGED <<irpQueue, currentIrp, pdoLock, irpVars, requestVars>>
  /\ UNCHANGED <<threadVars, serviceVars>>

(* It completes the queued IRPs one by one, without PDOLock. *)
DrainIrp(p) ==
  LET i == Head(irpQueue[p]) IN
  /\ pnp[p] = "draining"
  /\ irpQueue[p] # <<>>
  /\ irpQueue' = [irpQueue EXCEPT ![p] = Tail(@)]
  /\ cancelRoutine' = [cancelRoutine EXCEPT ![i] = None]
  /\ Complete(i, "cancelled")
  /\ UNCHANGED <<issued, dispatched, cancelFlag, lockTags>>
  /\ UNCHANGED <<currentIrp, pdoLock, pnp, requestVars, threadVars, serviceVars>>

(* Having found the queue empty, it sets RemoveEvent and deletes the PDO. *)
DeletePdo(p) ==
  /\ pnp[p] = "draining"
  /\ irpQueue[p] = <<>>
  /\ pnp' = [pnp EXCEPT ![p] = "gone"]
  /\ UNCHANGED <<irpQueue, currentIrp, pdoLock, irpVars, requestVars>>
  /\ UNCHANGED <<threadVars, serviceVars>>

-----------------------------------------------------------------------------
Scsi(i) == Bus_Scsi(i) \/ Bus_ScsiDeleted(i)
BusStartPacket(i) == QueuePacket(i) \/ QueueCancelledPacket(i) \/ StartPacket(i)
IoCancelIrp(i) == CancelQueued(i) \/ Bus_CancelIrp(i) \/ CancelInHand(i)
BusStartNextPacket(t) ==
  NothingToStart(t) \/ TakeRequest(t) \/ PutBackRequest(t)
    \/ TakeQueuedIrp(t) \/ StartTakenIrp(t)
Walk(r) == WalkDone(r) \/ \E p \in Pdos : WalkTo(r, p)
Worker(p) ==
  SendReply(p) \/ SendReplyRefused(p) \/ ReplyWithoutIrp(p) \/ TakeCurrentIrp(p)
    \/ FinishReply(p) \/ RemoveDiskFinal(p)
DestroyPdo(p) ==
  DestroyCurrentIrp(p) \/ DestroyNoIrp(p) \/ DrainIrp(p) \/ DeletePdo(p)

Next ==
  \/ \E i \in Irps : Scsi(i) \/ BusStartPacket(i) \/ IoCancelIrp(i)
  \/ \E r \in Reqs : GetRequest(r) \/ Walk(r) \/ ProcessRequest(r)
  \/ \E t \in Threads : BusStartNextPacket(t)
  \/ \E p \in Pdos : Worker(p) \/ RemovePdo(p) \/ DestroyPdo(p)

Spec == Init /\ [][Next]_vars

(* The scheduler runs every thread that can run, spin locks are released,  *)
(* a storage operation returns; nothing obliges the system to send, to     *)
(* cancel or to remove.                                                    *)
Fairness ==
  /\ \A i \in Irps : WF_vars(BusStartPacket(i))
  /\ \A r \in Reqs : WF_vars(GetRequest(r) \/ Walk(r) \/ ProcessRequest(r))
  /\ \A t \in Threads : WF_vars(BusStartNextPacket(t))
  /\ \A p \in Pdos : WF_vars(Worker(p))
  /\ \A p \in Pdos : WF_vars(DestroyPdo(p))

FairSpec == Spec /\ Fairness

-----------------------------------------------------------------------------
(* The places an IRP can be. *)
Queued(i) == i \in ToSet(irpQueue[Target[i]])
Started(i) ==
  currentIrp[Target[i]] = i \/ \E t \in Threads : held[t] = i

(* The service has request i: in a completed GET_REQUEST, in the worker's  *)
(* m_req, or in a reply that has not taken CurrentIrp yet.                 *)
CarriedBy(r, i) == carried[r] = i
WithWorker(i) == slot[Target[i]] = i
BeingReplied(i) == replying[Target[i]] = i /\ pc[Target[i]] = "found"
InService(i) ==
  (\E r \in Reqs : CarriedBy(r, i)) \/ WithWorker(i) \/ BeingReplied(i)

-----------------------------------------------------------------------------
(* Properties.                                                             *)

(* Every variable has its type. *)
TypeOK ==
  /\ issued \in SUBSET Irps
  /\ dispatched \in SUBSET Irps
  /\ cancelFlag \in SUBSET Irps
  /\ cancelRoutine \in [Irps -> {None, "csq", "current"}]
  /\ ioStatus \in [Irps -> Statuses]
  /\ completions \in [Irps -> Nat]
  /\ lockTags \in [Irps -> Int]
  /\ irpQueue \in [Pdos -> Seq(Irps)]
  /\ currentIrp \in [Pdos -> Irps \cup {None}]
  /\ pdoLock \in [Pdos -> Threads \cup {None}]
  /\ pnp \in [Pdos -> PnpStates]
  /\ requestQueue \in Seq(Reqs)
  /\ outstanding \in SUBSET Reqs
  /\ carried \in [Reqs -> Irps \cup {None}]
  /\ pc \in [Threads -> Places]
  /\ at \in [Threads -> Pdos \cup {None}]
  /\ rqIrp \in [Threads -> Reqs \cup {None}]
  /\ held \in [Threads -> Irps \cup {None}]
  /\ todo \in [Reqs -> SUBSET Pdos]
  /\ attached \in SUBSET Pdos
  /\ slot \in [Pdos -> Irps \cup {None}]
  /\ replying \in [Pdos -> Irps \cup {None}]

(* While a disk is not being removed, a request of it that the service has *)
(* in any form is the disk's CurrentIrp, and the service has it only once. *)
(* The service relies on this: a worker has a single m_req and a single    *)
(* transfer buffer, which ProcessRequest and BusSetupRequest overwrite.    *)
InServiceIsCurrent ==
  \A i \in Irps :
    pnp[Target[i]] = "live" /\ InService(i) =>
      /\ currentIrp[Target[i]] = i
      /\ \A r \in Reqs : CarriedBy(r, i) =>
           /\ slot[Target[i]] = None
           /\ ~ BeingReplied(i)
           /\ \A s \in Reqs : CarriedBy(s, i) => s = r
      /\ ~ (WithWorker(i) /\ BeingReplied(i))

(* The converse: while a disk is not being removed, its CurrentIrp is with *)
(* the service, so that somebody is going to reply to it.  The reply and   *)
(* the hand-over are by different threads; a request lost between them     *)
(* leaves the disk busy for good.                                          *)
CurrentIsInService ==
  \A p \in Pdos :
    pnp[p] = "live" /\ currentIrp[p] # None => InService(currentIrp[p])

(* While a disk is not being removed, a reply takes the very IRP whose     *)
(* request it answers: no IRP gets the data or the status of another.      *)
ReplyTakesItsIrp ==
  [][\A p \in Pdos :
       pc[p] = "found" /\ pc'[p] = "taken" /\ pnp[p] = "live" =>
         held'[p] = replying[p]]_vars

(* An IRP that nobody cancels is completed at most once, although three    *)
(* parties complete IRPs: the reply, the removal and the dispatch.         *)
UncancelledCompletedOnce ==
  \A i \in Irps \ cancelFlag : completions[i] <= 1

(* An IRP holds the PDO's remove lock exactly while it is in Bus_Scsi or   *)
(* started: every path that ends one of the two releases once.  The        *)
(* exception is the dispatch to a Deleted device.                          *)
RemoveLockBalanced ==
  \A i \in Irps : ioStatus[i] # "nodevice" =>
    lockTags[i] = IF i \in dispatched \/ Started(i) THEN 1 ELSE 0

(* README.md:15: "when the driver receives the request, it signals the     *)
(* service".  When no thread is in the driver, a waiting request IRP and   *)
(* an idle disk with a queued IRP do not coexist: the wake-up is not lost. *)
NoStrandedIrp ==
  (\A t \in Threads : pc[t] = "user") /\ dispatched = {} /\ requestQueue # <<>> =>
    \A p \in Listed : currentIrp[p] = None => irpQueue[p] = <<>>

(* A thread is going to run BusStartNextPacket for p, or runs it. *)
WillStart(p) ==
  \/ \E t \in Threads : at[t] = p /\ pc[t] \in {"taken", "next", "rqTaken", "irpTaken"}
  \/ \E r \in Reqs : pc[r] # "user" /\ p \in todo[r]

(* p is idle with an IRP on its queue, a request IRP waits, and nobody is  *)
(* going to bring the two together.                                        *)
Stranded(p) ==
  /\ p \in Listed /\ currentIrp[p] = None
  /\ irpQueue[p] # <<>> /\ requestQueue # <<>>
  /\ ~ WillStart(p)

(* How a wake-up is lost: only when BusStartNextPacket, having found the   *)
(* queue of another disk empty, puts back the request IRP it had taken     *)
(* (busenum.c:713), which p missed in the meantime.                       *)
StrandedByPutBack ==
  [][\A p \in Pdos : Stranded(p)' /\ ~ Stranded(p) =>
       \E t \in Threads : PutBackRequest(t) /\ at[t] # p]_vars

(* The safety half of EveryIrpCompletes: an IRP of a disk that is not      *)
(* being removed and that is not completed is being dispatched, or a       *)
(* thread is about to start the disk's next IRP, or the service has the    *)
(* disk's CurrentIrp, or there is no request IRP.  Otherwise it is stuck   *)
(* on the queue of a stranded disk.                                        *)
PendingGoesOn ==
  \A i \in issued :
    LET p == Target[i] IN
    pnp[p] = "live" /\ completions[i] = 0 =>
      \/ i \in dispatched
      \/ WillStart(p)
      \/ currentIrp[p] # None /\ InService(currentIrp[p])
      \/ requestQueue = <<>>
      \/ Stranded(p)

(* And if there is no request IRP, it is because each is in the hands of a *)
(* thread of the driver or of the service.                                 *)
RequestGoesOn ==
  \A r \in Reqs : r \in outstanding =>
    \/ r \in ToSet(requestQueue)
    \/ \E t \in Threads : rqIrp[t] = r /\ pc[t] \in {"rqTaken", "irpTaken"}
    \/ carried[r] # None

(* The second completion that cancellation causes is the worst of it: an   *)
(* IRP is completed at most twice, twice only if it was cancelled, and one *)
(* that is completed is not dispatched, queued or started any more, so one *)
(* cancelled on a queue never reaches the service.  Which of Bus_CancelIrp *)
(* and the reply is the first to complete CurrentIrp is left open.         *)
CompletedAgainIfCancelled ==
  [][\A i \in Irps :
       /\ completions'[i] <= 2
       /\ completions'[i] = 2 => i \in cancelFlag'
       /\ completions[i] > 0 =>
            i \notin dispatched' /\ ~ Queued(i)' /\ (Started(i)' => Started(i))]_vars

(* README.md:17: "the driver signals OS that the request is completed".    *)
(* Every IRP is completed at most once, cancelled or not.                  *)
CompletedOnce == \A i \in Irps : completions[i] <= 1

(* README.md:15-17: every request the driver receives is completed.        *)
EveryIrpCompletes ==
  \A i \in Irps : i \in issued ~> completions[i] > 0

(* The driver and the service implement DiskRequests: a request is served  *)
(* while no other of its disk is, and has one outcome, whichever threads   *)
(* move it.                                                                *)
Phase(i) ==
  IF ioStatus[i] = "served" THEN "served"
  ELSE IF ioStatus[i] # "pending" THEN "aborted"
  ELSE IF \/ currentIrp[Target[i]] = i
          \/ held[Target[i]] = i /\ pc[Target[i]] = "taken"
         THEN "serving"
  ELSE IF i \in issued THEN "waiting" ELSE "new"

Abstract == INSTANCE DiskRequests WITH phase <- [i \in Irps |-> Phase(i)]
ImplementsDiskRequests == Abstract!Spec
=============================================================================
