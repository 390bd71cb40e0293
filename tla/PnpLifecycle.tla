---------------------------- MODULE PnpLifecycle ----------------------------
(***************************************************************************)
(* The life of the bus device (FDO) and of its disks (PDOs): the PnP       *)
(* states, the FDO's list of PDOs and its count, AddDisk and RemoveDisk,   *)
(* enumeration, removal, and the cleanup when the service goes away        *)
(* (bus/pnp.c, bus/buspdo.c, bus/busenum.c).                               *)
(*                                                                         *)
(* Actors: the PnP manager, which sends one state-changing PnP IRP at a    *)
(* time; the threads of the service inside an IOCTL; the close of the      *)
(* service's handle, which may find IOCTLs of other threads in progress.   *)
(* What the code does under the FDO's mutex is one step, what it does      *)
(* after is another.  A PnP IRP whose handler touches nothing that other   *)
(* threads write is one step.                                              *)
(*                                                                         *)
(* The PnP manager is external.  Its view (bus, dev) decides which IRPs it *)
(* sends: it follows the state diagram of PnP devices, removes children    *)
(* before their parent, and removes the FDO, whose open is exclusive, only *)
(* when the service's handle is closed.                                    *)
(***************************************************************************)
EXTENDS Integers, SequencesExt

CONSTANTS
  Pdos,              \* the PDOs IoCreateDevice can make, each once
  Serials,           \* what AddDisk and RemoveDisk name a disk by
  Callers,           \* the threads of the service that send IOCTLs
  Calls,             \* the IOCTLs they send, named by where they begin:
                     \* "check" AddDisk, "find" RemoveDisk, "walk" GET_REQUEST
  None,              \* the NULL of every pointer
  MayCloseWhile,     \* what may be under way when the handle is closed
  MayVanish,         \* whether the bus may be surprise removed
  MayStop,           \* whether the PnP manager rebalances resources
  MaxLeaks           \* bound: returns that keep the FDO's remove lock

(* "adding": an IOCTL is in progress; "unenumerated": a disk was added that *)
(* PnP has not asked about; "removing": a disk is on its way out.          *)
Circumstances == {"adding", "unenumerated", "removing"}

ASSUME PnpAssumption ==
  /\ None \notin Pdos \cup Serials
  /\ Calls \subseteq {"check", "find", "walk"}
  /\ MayCloseWhile \subseteq Circumstances
  /\ MayVanish \in BOOLEAN
  /\ MayStop \in BOOLEAN
  /\ MaxLeaks \in Nat

VARIABLES
  fdo,       \* [now, prev]: DevicePnPState, PreviousPnPState of the FDO
  list,      \* ListOfPDOs
  numPdos,   \* NumPDOs
  ready,     \* whether CleanupReadyEvent is signalled
  rlock,     \* how often the FDO's RemoveLock is held
  leaks,     \* how often a handler returned without releasing it
  pdo,       \* [Pdos -> record], the device extensions, see NewPdo
  event,     \* [Pdos -> BOOLEAN], whether RemoveEvent is signalled
  handle,    \* the service's handle of the FDO, and its Bus_FDO_Cleanup
  call,      \* [Callers -> record], the IOCTL a thread is in
  mgr,       \* the REMOVE_DEVICE IRP in progress: [at, pdo, fdoData], where
             \* fdoData tells whether that local variable has a value
  bus,       \* the manager's view of the FDO: [node, missing, stale]
  dev,       \* [Pdos -> [node, missing, eject]], its view of the PDOs
  stray      \* whether the uninitialised fdoData was ever used (history)

fdoVars == <<fdo, list, numPdos, ready, rlock, leaks>>
pdoVars == <<pdo, event>>
serviceVars == <<handle, call>>
mgrVars == <<mgr, bus, dev, stray>>
vars == <<fdoVars, pdoVars, serviceVars, mgrVars>>

-----------------------------------------------------------------------------
PnpStates == {"NotStarted", "Started", "StopPending", "Stopped",
              "RemovePending", "SurpriseRemovePending", "Deleted"}

NotStarted == [now |-> "NotStarted", prev |-> "NotStarted"]

(* SET_NEW_PNP_STATE and RESTORE_PREVIOUS_PNP_STATE. *)
SetNew(d, s) == [d EXCEPT !.prev = d.now, !.now = s]
Restore(d) == [d EXCEPT !.now = d.prev]

(* CANCEL_STOP and CANCEL_REMOVE: s is the state the query had set. *)
CancelAlways(d, s) == Restore(d)
Cancel(d, s) == IF d.now = s THEN Restore(d) ELSE d

(* A PDO's extension.  object: whether the device object exists; parent:   *)
(* whether ParentFdo is set; surprised: whether it ever was in             *)
(* SurpriseRemovePending (history).                                        *)
NoPdo == [object |-> "none", now |-> "NotStarted", prev |-> "NotStarted",
          present |-> FALSE, reportedMissing |-> FALSE, serial |-> None,
          parent |-> FALSE, surprised |-> FALSE]

(* IoCreateDevice and Bus_InitializePdo. *)
NewPdo(s) == [NoPdo EXCEPT !.object = "live", !.present = TRUE,
                           !.serial = s, !.parent = TRUE]

(* IoDeleteDevice: the extension is freed.  That the disk had a parent is  *)
(* kept for the properties.                                                *)
Freed(d) == [NoPdo EXCEPT !.object = "destroyed", !.now = "Deleted",
                          !.parent = d.parent]

Listed == ToSet(list)
Places == {"user", "check", "insert", "invalidate", "find", "walk"}
HandlePlaces == {"closed", "open", "check", "reset", "removeAll", "wait",
                 "close"}
RemovePlaces == {"idle", "unlink", "destroy", "count", "signal",
                 "fdoRelease", "fdoWait"}
BusNodes == {"added", "started", "stopPending", "stopped", "removePending",
             "surprise", "gone"}
Nodes == {"unknown", "reported", "started", "stopPending", "stopped",
          "removePending", "removed", "surprise", "gone"}

NoRemoval == [at |-> "idle", pdo |-> None, fdoData |-> FALSE]
User == [at |-> "user", serial |-> None, pdo |-> None]

Init ==
  /\ fdo = NotStarted
  /\ list = <<>>
  /\ numPdos = 0
  /\ ready = FALSE
  /\ rlock = 0
  /\ leaks = 0
  /\ pdo = [p \in Pdos |-> NoPdo]
  /\ event = [p \in Pdos |-> FALSE]
  /\ handle = "closed"
  /\ call = [c \in Callers |-> User]
  /\ mgr = NoRemoval
  /\ bus = [node |-> "added", missing |-> FALSE, stale |-> FALSE]
  /\ dev = [p \in Pdos |-> [node |-> "unknown", missing |-> FALSE,
                            eject |-> FALSE]]
  /\ stray = FALSE

-----------------------------------------------------------------------------
(* The service: IOCTLs on the FDO.                                         *)

(* Bus_IoCtl and Bus_FDO_IoCtl: the state check and the remove lock.  The  *)
(* service's container makes the AddDisk calls for one disk one at a time. *)
Enter(c, at, s) ==
  /\ at \in Calls
  /\ handle = "open"
  /\ call[c] = User
  /\ fdo.now # "Deleted"
  /\ at = "check" =>
       \A d \in Callers : call[d].at \in {"check", "insert", "invalidate"} =>
                            call[d].serial # s
  /\ rlock' = rlock + 1
  /\ call' = [call EXCEPT ![c] = [at |-> at, serial |-> s, pdo |-> None]]
  /\ UNCHANGED <<fdo, list, numPdos, ready, leaks, pdoVars, handle, mgrVars>>

AddDisk(c, s) == Enter(c, "check", s)
RemoveDisk(c, s) == Enter(c, "find", s)

(* The IRP is completed and the remove lock released. *)
Leave(c) ==
  /\ rlock' = rlock - 1
  /\ call' = [call EXCEPT ![c] = User]

(* Mutant: disks on their way out do not count as holding their serial. *)
CheckPresentUnique(c) ==
  /\ call[c].at = "check"
  /\ IF \E p \in Listed : pdo[p].serial = call[c].serial /\ pdo[p].present
                          /\ pdo[p].now # "SurpriseRemovePending"
     THEN Leave(c)
     ELSE /\ call' = [call EXCEPT ![c].at = "insert"]
          /\ UNCHANGED rlock
  /\ UNCHANGED <<fdo, list, numPdos, ready, leaks, pdoVars, handle, mgrVars>>

(* Mutant: the error path releases the remove lock and goes on. *)
CheckUniqueGoesOn(c) ==
  /\ call[c].at = "check"
  /\ IF \E p \in Listed : pdo[p].serial = call[c].serial
                          /\ pdo[p].now # "SurpriseRemovePending"
     THEN /\ rlock' = rlock - 1
          /\ call' = [call EXCEPT ![c].at = "insert"]
     ELSE /\ call' = [call EXCEPT ![c].at = "insert"]
          /\ UNCHANGED rlock
  /\ UNCHANGED <<fdo, list, numPdos, ready, leaks, pdoVars, handle, mgrVars>>

(* Bus_AddDisk: is the serial number free?  Under the mutex, which is then *)
(* released.                                                               *)
CheckUnique(c) ==
  /\ call[c].at = "check"
  /\ IF \E p \in Listed : pdo[p].serial = call[c].serial
                          /\ pdo[p].now # "SurpriseRemovePending"
     THEN Leave(c)
     ELSE /\ call' = [call EXCEPT ![c].at = "insert"]
          /\ UNCHANGED rlock
  /\ UNCHANGED <<fdo, list, numPdos, ready, leaks, pdoVars, handle, mgrVars>>

(* Mutant: a failed AddDisk keeps the remove lock. *)
AddFailsLocked(c) ==
  /\ call[c].at = "insert"
  /\ call' = [call EXCEPT ![c] = User]
  /\ UNCHANGED <<fdoVars, pdoVars, handle, mgrVars>>

(* IoCreateDevice, an allocation, the event handle or MapBuffer fails. *)
AddFails(c) ==
  /\ call[c].at = "insert"
  /\ Leave(c)
  /\ UNCHANGED <<fdo, list, numPdos, ready, leaks, pdoVars, handle, mgrVars>>

(* Mutant: the system is told before the disk is on the list. *)
InsertPdoLate(c, p) ==
  /\ call[c].at = "insert"
  /\ pdo[p].object = "none"
  /\ IF call[c].pdo = None
     THEN /\ bus' = [bus EXCEPT !.stale = TRUE]
          /\ call' = [call EXCEPT ![c].pdo = p]
          /\ UNCHANGED <<pdo, list, numPdos, rlock>>
     ELSE /\ p = call[c].pdo
          /\ pdo' = [pdo EXCEPT ![p] = NewPdo(call[c].serial)]
          /\ list' = Append(list, p)
          /\ numPdos' = numPdos + 1
          /\ Leave(c)
          /\ UNCHANGED bus
  /\ UNCHANGED <<fdo, ready, leaks, event, handle, mgr, dev, stray>>

(* Bus_InitializePdo: a new PDO p, put on the list under the mutex. *)
InsertPdo(c, p) ==
  /\ call[c].at = "insert"
  /\ pdo[p].object = "none"
  /\ pdo' = [pdo EXCEPT ![p] = NewPdo(call[c].serial)]
  /\ list' = Append(list, p)
  /\ numPdos' = numPdos + 1
  /\ call' = [call EXCEPT ![c].at = "invalidate"]
  /\ UNCHANGED <<fdo, ready, rlock, leaks, event, handle, mgrVars>>

(* IoInvalidateDeviceRelations at the end of Bus_AddDisk. *)
Invalidate(c) ==
  /\ call[c].at = "invalidate"
  /\ bus' = [bus EXCEPT !.stale = TRUE]
  /\ Leave(c)
  /\ UNCHANGED <<fdo, list, numPdos, ready, leaks, pdoVars, handle, mgr, dev,
                 stray>>

(* Mutant: the mutex is released before the disk found is used. *)
FindDiskUnlocked(c) ==
  /\ call[c].at = "find"
  /\ IF call[c].pdo = None
     THEN /\ \E p \in Listed : /\ pdo[p].serial = call[c].serial
                               /\ call' = [call EXCEPT ![c].pdo = p]
          /\ UNCHANGED <<rlock, event, dev>>
     ELSE /\ event' = [event EXCEPT ![call[c].pdo] = FALSE]
          /\ dev' = [dev EXCEPT ![call[c].pdo].eject =
                       @ \/ dev[call[c].pdo].node # "unknown"]
          /\ Leave(c)
  /\ UNCHANGED <<fdo, list, numPdos, ready, leaks, pdo, handle, mgr, bus, stray>>

(* Bus_RemoveDisk, under the mutex: the first disk with that serial number *)
(* has its RemoveEvent reset and its ejection requested.  (A request for a *)
(* disk the PnP manager does not know of is lost.)                         *)
FoundAt(c, k) ==
  /\ pdo[list[k]].serial = call[c].serial
  /\ \A j \in 1..(k - 1) : pdo[list[j]].serial # call[c].serial

FindDisk(c) ==
  /\ call[c].at = "find"
  /\ \/ /\ numPdos # 0
        /\ \E k \in DOMAIN list :
             /\ FoundAt(c, k)
             /\ event' = [event EXCEPT ![list[k]] = FALSE]
             /\ dev' = [dev EXCEPT ![list[k]].eject =
                          @ \/ dev[list[k]].node # "unknown"]
     \/ /\ numPdos = 0 \/ \A k \in DOMAIN list : ~ FoundAt(c, k)
        /\ UNCHANGED <<event, dev>>
  /\ Leave(c)
  /\ UNCHANGED <<fdo, list, numPdos, ready, leaks, pdo, handle, mgr, bus, stray>>

(* GET_REQUEST: the walk over ListOfPDOs, without the mutex.  call.pdo is  *)
(* the disk BusStartNextPacket is working on.  A disk on the list leads to *)
(* its successor; the link of one taken off it since is stale.             *)
Entry(k) == IF k > Len(list) THEN None ELSE list[k]
Successors(p) ==
  IF p = None THEN {Entry(1)}
  ELSE IF p \in Listed THEN {Entry(k + 1) : k \in {k \in DOMAIN list : list[k] = p}}
  ELSE {None} \cup {q \in Pdos : pdo[q].object # "none"}

GetRequest(c) == Enter(c, "walk", None)

WalkTo(c, q) ==
  /\ call[c].at = "walk"
  /\ q \in Successors(call[c].pdo)
  /\ call' = [call EXCEPT ![c].pdo = q]
  /\ UNCHANGED <<fdoVars, pdoVars, handle, mgrVars>>

WalkDone(c) ==
  /\ call[c].at = "walk"
  /\ None \in Successors(call[c].pdo)
  /\ Leave(c)
  /\ UNCHANGED <<fdo, list, numPdos, ready, leaks, pdoVars, handle, mgrVars>>

-----------------------------------------------------------------------------
(* The service's handle.  One at a time: the FDO is exclusive.             *)

(* Bus_CreateClose and the remove lock: an FDO that is Deleted keeps it.   *)
(* Else it is released in the same step: only the removal waits for it,    *)
(* and is not sent while a handle is being opened or closed.               *)
Bus_CreateClose ==
  /\ IF fdo.now = "Deleted"
     THEN rlock' = rlock + 1 /\ leaks' = leaks + 1
     ELSE UNCHANGED <<rlock, leaks>>
  /\ UNCHANGED <<fdo, list, numPdos, ready, pdoVars, call, mgrVars>>

(* IRP_MJ_CREATE, in every state the started FDO comes to, until the       *)
(* removal waits for the remove lock and IoAcquireRemoveLock is refused.   *)
(* A Deleted FDO is not opened.                                            *)
OpenHandle ==
  /\ handle = "closed"
  /\ bus.node \notin {"added", "gone"}
  /\ mgr.at # "fdoWait"
  /\ fdo.now = "Deleted" => leaks < MaxLeaks
  /\ handle' = IF fdo.now = "Deleted" THEN "closed" ELSE "open"
  /\ Bus_CreateClose

Quiet(what) ==
  CASE what = "adding"       -> \A c \in Callers : call[c] = User
    [] what = "unenumerated" -> \A p \in Listed : dev[p].node # "unknown"
    [] what = "removing"     ->
         /\ mgr.at = "idle"
         /\ \A p \in Listed : pdo[p].present /\ ~ dev[p].eject

(* IRP_MJ_CLEANUP: the last handle is closed.  Bus_FDO_Cleanup completes   *)
(* the waiting GET_REQUESTs first.  IOCTLs of other threads may still be   *)
(* in progress.                                                            *)
CloseHandle ==
  /\ handle = "open"
  /\ \A what \in Circumstances \ MayCloseWhile : Quiet(what)
  /\ handle' = IF fdo.now = "Deleted" THEN "close" ELSE "check"
  /\ UNCHANGED <<fdoVars, pdoVars, call, mgrVars>>

(* NumPDOs is read without the mutex. *)
CleanupCheck ==
  /\ handle = "check"
  /\ handle' = IF numPdos > 0 THEN "reset" ELSE "close"
  /\ UNCHANGED <<fdoVars, pdoVars, call, mgrVars>>

CleanupReset ==
  /\ handle = "reset"
  /\ ready' = FALSE
  /\ handle' = "removeAll"
  /\ UNCHANGED <<fdo, list, numPdos, rlock, leaks, pdoVars, call, mgrVars>>

(* Bus_RemoveAllDisks, under the mutex. *)
Bus_RemoveAllDisks ==
  /\ handle = "removeAll"
  /\ IF numPdos = 0
     THEN UNCHANGED <<pdo, bus>>
     ELSE /\ pdo' = [p \in Pdos |->
                      IF p \in Listed THEN [pdo[p] EXCEPT !.present = FALSE]
                                      ELSE pdo[p]]
          /\ bus' = [bus EXCEPT !.stale = @ \/ list # <<>>]
  /\ handle' = "wait"
  /\ UNCHANGED <<fdoVars, event, call, mgr, dev, stray>>

(* KeWaitForSingleObject; the event is a notification event and stays set. *)
CleanupWait ==
  /\ handle = "wait"
  /\ ready
  /\ handle' = "close"
  /\ UNCHANGED <<fdoVars, pdoVars, call, mgrVars>>

(* IRP_MJ_CLOSE: no IOCTL is in progress any more. *)
Close ==
  /\ handle = "close"
  /\ \A c \in Callers : call[c] = User
  /\ handle' = "closed"
  /\ Bus_CreateClose

-----------------------------------------------------------------------------
(* The PnP manager and the FDO: Bus_FDO_PnP.                               *)

FdoUnchanged == UNCHANGED <<list, numPdos, ready, rlock, leaks, pdoVars,
                            serviceVars, mgr, dev, stray>>

BusTo(node) == bus' = [bus EXCEPT !.node = node]

(* START_DEVICE, first or after STOP.  If it fails the manager takes the   *)
(* bus for gone.                                                           *)
StartFdo ==
  /\ mgr.at = "idle"
  /\ bus.node \in {"added", "stopped"} /\ ~ bus.missing
  /\ \/ fdo' = SetNew(fdo, "Started") /\ BusTo("started")
     \/ MayVanish /\ UNCHANGED fdo /\ bus' = [bus EXCEPT !.missing = TRUE]
  /\ FdoUnchanged

QueryStopFdo ==
  /\ MayStop
  /\ mgr.at = "idle"
  /\ bus.node = "started"
  /\ fdo' = SetNew(fdo, "StopPending")
  /\ BusTo("stopPending")
  /\ FdoUnchanged

(* CANCEL_STOP; it may also come without a query before it. *)
CancelStopFdo ==
  /\ mgr.at = "idle"
  /\ bus.node \in {"stopPending", "started"}
  /\ fdo' = Cancel(fdo, "StopPending")
  /\ BusTo("started")
  /\ FdoUnchanged

StopFdo ==
  /\ mgr.at = "idle"
  /\ bus.node = "stopPending"
  /\ fdo' = SetNew(fdo, "Stopped")
  /\ BusTo("stopped")
  /\ FdoUnchanged

(* QUERY_REMOVE, after the children have agreed. *)
QueryRemoveFdo ==
  /\ mgr.at = "idle"
  /\ bus.node = "started"
  /\ \A p \in Pdos : dev[p].node \in {"unknown", "reported", "removePending",
                                      "removed", "gone"}
  /\ fdo' = SetNew(fdo, "RemovePending")
  /\ BusTo("removePending")
  /\ FdoUnchanged

CancelRemoveFdo ==
  /\ mgr.at = "idle"
  /\ bus.node \in {"removePending", "started"}
  /\ fdo' = Cancel(fdo, "RemovePending")
  /\ BusTo("started")
  /\ FdoUnchanged

(* The bus disappears: the manager is going to send SURPRISE_REMOVAL. *)
BusVanishes ==
  /\ MayVanish
  /\ bus.node \in {"started", "stopPending", "stopped", "removePending"}
  /\ ~ bus.missing
  /\ bus' = [bus EXCEPT !.missing = TRUE]
  /\ UNCHANGED <<fdoVars, pdoVars, serviceVars, mgr, dev, stray>>

(* SURPRISE_REMOVAL of the FDO, after those of its children.  The disks    *)
(* are taken off the list and lose their parent; NumPDOs keeps its value.  *)
SurpriseRemovalFdo ==
  /\ mgr.at = "idle"
  /\ bus.missing
  /\ bus.node \in {"started", "stopPending", "stopped", "removePending"}
  /\ \A p \in Pdos : dev[p].node \notin {"started", "stopPending", "stopped",
                                         "removePending"}
  /\ fdo' = SetNew(fdo, "SurpriseRemovePending")
  /\ pdo' = [p \in Pdos |->
               IF p \in Listed
               THEN [pdo[p] EXCEPT !.parent = FALSE, !.reportedMissing = TRUE]
               ELSE pdo[p]]
  /\ list' = <<>>
  /\ BusTo("surprise")
  /\ UNCHANGED <<numPdos, ready, rlock, leaks, event, serviceVars, mgr, dev,
                 stray>>

(* Mutant: the list is not looked at if the bus was surprise removed. *)
RemoveFdoSurprised ==
  LET Kept == {p \in Listed : pdo[p].now = "SurpriseRemovePending"}
      Destroyed == IF fdo.now = "SurpriseRemovePending" THEN {} ELSE Listed \ Kept
  IN  /\ mgr.at = "idle"
      /\ \/ bus.node \in {"removePending", "surprise"}
         \/ bus.node = "added" /\ bus.missing
      /\ handle = "closed"
      /\ \A p \in Pdos : dev[p].node \in {"unknown", "removed", "gone"}
      /\ \A p \in Pdos : dev[p].node = "removed" =>
                            ~ dev[p].missing /\ ~ bus.missing
      /\ fdo' = SetNew(fdo, "Deleted")
      /\ pdo' = [p \in Pdos |-> IF p \in Destroyed THEN Freed(pdo[p]) ELSE pdo[p]]
      /\ event' = [p \in Pdos |-> event[p] \/ p \in Destroyed]
      /\ list' = SelectSeq(list, LAMBDA p : p \notin Destroyed)
      /\ numPdos' = numPdos - Cardinality(Destroyed)
      /\ rlock' = rlock + 1
      /\ mgr' = [NoRemoval EXCEPT !.at = "fdoRelease"]
      /\ UNCHANGED <<ready, leaks, serviceVars, bus, dev, stray>>

(* REMOVE_DEVICE of the FDO, when its children are removed and the handle  *)
(* is closed.  Under the mutex the remaining disks are unlinked and, but   *)
(* for those surprise removed, destroyed.  The remove lock comes after.    *)
RemoveFdo ==
  LET Kept == {p \in Listed : pdo[p].now = "SurpriseRemovePending"}
      Destroyed == Listed \ Kept
  IN  /\ mgr.at = "idle"
      /\ \/ bus.node \in {"removePending", "surprise"}
         \/ bus.node = "added" /\ bus.missing
      /\ handle = "closed"
      /\ \A p \in Pdos : dev[p].node \in {"unknown", "removed", "gone"}
      /\ \A p \in Pdos : dev[p].node = "removed" =>
                            ~ dev[p].missing /\ ~ bus.missing
      /\ fdo' = SetNew(fdo, "Deleted")
      /\ pdo' = [p \in Pdos |->
                   IF p \in Kept
                   THEN [pdo[p] EXCEPT !.parent = FALSE, !.reportedMissing = TRUE]
                   ELSE IF p \in Destroyed
                   THEN Freed(pdo[p])
                   ELSE pdo[p]]
      /\ event' = [p \in Pdos |-> event[p] \/ p \in Destroyed]
      /\ list' = <<>>
      /\ numPdos' = numPdos - Cardinality(Destroyed)
      /\ rlock' = rlock + 1
      /\ mgr' = [NoRemoval EXCEPT !.at = "fdoRelease"]
      /\ UNCHANGED <<ready, leaks, serviceVars, bus, dev, stray>>

(* IoReleaseRemoveLockAndWait: from here on nobody gets the remove lock. *)
ReleaseFdo ==
  /\ mgr.at = "fdoRelease"
  /\ mgr' = [mgr EXCEPT !.at = "fdoWait"]
  /\ UNCHANGED <<fdoVars, pdoVars, serviceVars, bus, dev, stray>>

(* It ends; IoDeleteDevice. *)
DeleteFdo ==
  /\ mgr.at = "fdoWait"
  /\ rlock = 1
  /\ rlock' = 0
  /\ BusTo("gone")
  /\ mgr' = NoRemoval
  /\ UNCHANGED <<fdo, list, numPdos, ready, leaks, pdoVars, serviceVars, dev,
                 stray>>

(* Mutant: disks left out of the relations are not marked. *)
QueryRelationsUnmarked ==
  LET Reported == {p \in Listed : pdo[p].present}
  IN  /\ mgr.at = "idle"
      /\ bus.node = "started" /\ bus.stale
      /\ dev' = [p \in Pdos |->
                   [dev[p] EXCEPT
                      !.node = IF @ = "unknown" /\ p \in Reported
                               THEN "reported" ELSE @,
                      !.missing = @ \/ /\ dev[p].node \notin {"unknown", "gone"}
                                       /\ p \notin Reported]]
      /\ bus' = [bus EXCEPT !.stale = FALSE]
      /\ UNCHANGED <<fdoVars, pdoVars, serviceVars, mgr, stray>>

(* QUERY_DEVICE_RELATIONS for the bus relations, under the mutex: the      *)
(* present disks are reported, the others are marked ReportedMissing.      *)
(* The new ones get device nodes; what is no longer reported is missing.   *)
QueryRelations ==
  LET Reported == {p \in Listed : pdo[p].present}
  IN  /\ mgr.at = "idle"
      /\ bus.node = "started" /\ bus.stale
      /\ pdo' = [p \in Pdos |->
                   IF p \in Listed \ Reported
                   THEN [pdo[p] EXCEPT !.reportedMissing = TRUE] ELSE pdo[p]]
      /\ dev' = [p \in Pdos |->
                   [dev[p] EXCEPT
                      !.node = IF @ = "unknown" /\ p \in Reported
                               THEN "reported" ELSE @,
                      !.missing = @ \/ /\ dev[p].node \notin {"unknown", "gone"}
                                       /\ p \notin Reported]]
      /\ bus' = [bus EXCEPT !.stale = FALSE]
      /\ UNCHANGED <<fdoVars, event, serviceVars, mgr, stray>>

(* The allocation of the relations fails: the handler returns without      *)
(* releasing the remove lock, and the manager keeps its view.              *)
QueryRelationsFails ==
  /\ mgr.at = "idle"
  /\ bus.node = "started" /\ bus.stale
  /\ leaks < MaxLeaks
  /\ rlock' = rlock + 1 /\ leaks' = leaks + 1
  /\ bus' = [bus EXCEPT !.stale = FALSE]
  /\ UNCHANGED <<fdo, list, numPdos, ready, pdoVars, serviceVars, mgr, dev,
                 stray>>

-----------------------------------------------------------------------------
(* The PnP manager and the PDOs: Bus_PDO_PnP.                              *)

(* The manager may send p an IRP that a disk to be removed does not get. *)
Serving(p) == mgr.at = "idle" /\ ~ dev[p].missing /\ ~ bus.missing

Handled(p, d, node) ==
  /\ pdo' = [pdo EXCEPT ![p] = d]
  /\ dev' = [dev EXCEPT ![p].node = node]
  /\ UNCHANGED <<fdoVars, event, serviceVars, mgr, bus, stray>>

(* START_DEVICE, also of a disk that was disabled. *)
StartPdo(p) ==
  /\ Serving(p)
  /\ bus.node = "started"
  /\ dev[p].node \in {"reported", "stopped", "removed"}
  /\ Handled(p, SetNew(pdo[p], "Started"), "started")

QueryStopPdo(p) ==
  /\ MayStop
  /\ Serving(p)
  /\ dev[p].node = "started"
  /\ Handled(p, SetNew(pdo[p], "StopPending"), "stopPending")

(* Mutant: the previous state is restored whether or not a query came. *)
CancelStopPdoAlways(p) ==
  /\ Serving(p)
  /\ dev[p].node \in {"stopPending", "started"}
  /\ Handled(p, Restore(pdo[p]), "started")

CancelStopPdo(p) ==
  /\ Serving(p)
  /\ dev[p].node \in {"stopPending", "started"}
  /\ Handled(p, Cancel(pdo[p], "StopPending"), "started")

StopPdo(p) ==
  /\ Serving(p)
  /\ dev[p].node = "stopPending"
  /\ Handled(p, SetNew(pdo[p], "Stopped"), "stopped")

(* QUERY_REMOVE: the disk is to be ejected, disabled, or its bus removed. *)
QueryRemovePdo(p) ==
  /\ Serving(p)
  /\ dev[p].node = "started"
  /\ Handled(p, SetNew(pdo[p], "RemovePending"), "removePending")

(* CANCEL_REMOVE: somebody refused, and an ejection is given up. *)
CancelRemovePdo(p) ==
  /\ Serving(p)
  /\ dev[p].node \in {"removePending", "started"}
  /\ pdo' = [pdo EXCEPT ![p] = Cancel(pdo[p], "RemovePending")]
  /\ dev' = [dev EXCEPT ![p].node = "started", ![p].eject = FALSE]
  /\ UNCHANGED <<fdoVars, event, serviceVars, mgr, bus, stray>>

(* SURPRISE_REMOVAL: the disk is missing, its bus vanished, or the disk's  *)
(* driver could not restart it after a stop.                               *)
SurpriseRemovalPdo(p) ==
  /\ mgr.at = "idle"
  /\ \/ /\ dev[p].missing \/ bus.missing
        /\ dev[p].node \in {"started", "stopPending", "stopped", "removePending"}
     \/ dev[p].node = "stopped"
  /\ Handled(p, [SetNew(pdo[p], "SurpriseRemovePending") EXCEPT
                   !.surprised = TRUE], "surprise")

(* EJECT, after the REMOVE_DEVICE of a disk to be ejected; the manager     *)
(* then enumerates the bus again.                                          *)
EjectPdo(p) ==
  /\ mgr.at = "idle"
  /\ dev[p].node = "removed" /\ dev[p].eject
  /\ bus.node = "started" /\ ~ bus.missing
  /\ pdo' = [pdo EXCEPT ![p].present = FALSE]
  /\ dev' = [dev EXCEPT ![p].eject = FALSE]
  /\ bus' = [bus EXCEPT !.stale = TRUE]
  /\ UNCHANGED <<fdoVars, event, serviceVars, mgr, stray>>

(* When the manager sends REMOVE_DEVICE to p. *)
MayRemovePdo(p) ==
  /\ mgr.at = "idle"
  /\ \/ dev[p].node \in {"removePending", "reported"}
     \/ dev[p].node = "surprise" /\ (bus.missing => bus.node = "surprise")
     \/ dev[p].node = "removed" /\ dev[p].missing
     \/ dev[p].node = "removed" /\ bus.node = "surprise"

(* Mutant: a disk that is not present is deleted without having been       *)
(* reported missing.                                                       *)
RemoveAbsentPdo(p) ==
  /\ MayRemovePdo(p)
  /\ IF ~ pdo[p].present \/ pdo[p].reportedMissing
     THEN /\ pdo' = [pdo EXCEPT ![p] = SetNew(pdo[p], "Deleted")]
          /\ mgr' = [at |-> IF pdo[p].parent THEN "unlink" ELSE "destroy",
                     pdo |-> p, fdoData |-> pdo[p].parent]
          /\ UNCHANGED dev
     ELSE /\ pdo' = [pdo EXCEPT ![p] = SetNew(pdo[p], "NotStarted")]
          /\ dev' = [dev EXCEPT ![p].node = "removed"]
          /\ UNCHANGED mgr
  /\ UNCHANGED <<fdoVars, event, serviceVars, bus, stray>>

(* Mutant: the disk is destroyed without being taken off the list. *)
RemoveLinkedPdo(p) ==
  /\ MayRemovePdo(p)
  /\ IF pdo[p].reportedMissing
     THEN /\ pdo' = [pdo EXCEPT ![p] = SetNew(pdo[p], "Deleted")]
          /\ mgr' = [at |-> "destroy", pdo |-> p, fdoData |-> TRUE]
          /\ UNCHANGED dev
     ELSE /\ pdo' = [pdo EXCEPT ![p] = IF pdo[p].present
                                       THEN SetNew(pdo[p], "NotStarted")
                                       ELSE pdo[p]]
          /\ dev' = [dev EXCEPT ![p].node = "removed"]
          /\ UNCHANGED mgr
  /\ UNCHANGED <<fdoVars, event, serviceVars, bus, stray>>

(* REMOVE_DEVICE of a disk that has not been reported missing: it stays,   *)
(* NotStarted if it is present.  Otherwise it is Deleted, taken off the    *)
(* list if it has a parent, and destroyed, in the steps below.             *)
RemovePdo(p) ==
  /\ MayRemovePdo(p)
  /\ IF pdo[p].reportedMissing
     THEN /\ pdo' = [pdo EXCEPT ![p] = SetNew(pdo[p], "Deleted")]
          /\ mgr' = [at |-> IF pdo[p].parent THEN "unlink" ELSE "destroy",
                     pdo |-> p, fdoData |-> pdo[p].parent]
          /\ UNCHANGED dev
     ELSE /\ pdo' = [pdo EXCEPT ![p] = IF pdo[p].present
                                       THEN SetNew(pdo[p], "NotStarted")
                                       ELSE pdo[p]]
          /\ dev' = [dev EXCEPT ![p].node = "removed"]
          /\ UNCHANGED mgr
  /\ UNCHANGED <<fdoVars, event, serviceVars, bus, stray>>

(* p's link is taken off the list. *)
RemoveEntryList(p) ==
  \E k \in DOMAIN list : list[k] = p /\ list' = RemoveAt(list, k)

(* Mutant: the count is not taken down. *)
UnlinkPdoUncounted ==
  /\ mgr.at = "unlink"
  /\ RemoveEntryList(mgr.pdo)
  /\ mgr' = [mgr EXCEPT !.at = "destroy"]
  /\ UNCHANGED <<fdo, numPdos, ready, rlock, leaks, pdoVars, serviceVars, bus,
                 dev, stray>>

(* Mutant: the service is told before the disk is destroyed. *)
UnlinkPdoSignalling ==
  /\ mgr.at = "unlink"
  /\ RemoveEntryList(mgr.pdo)
  /\ numPdos' = numPdos - 1
  /\ event' = [event EXCEPT ![mgr.pdo] = TRUE]
  /\ mgr' = [mgr EXCEPT !.at = "destroy"]
  /\ UNCHANGED <<fdo, ready, rlock, leaks, pdo, serviceVars, bus, dev, stray>>

(* Under the mutex. *)
UnlinkPdo ==
  /\ mgr.at = "unlink"
  /\ RemoveEntryList(mgr.pdo)
  /\ numPdos' = numPdos - 1
  /\ mgr' = [mgr EXCEPT !.at = "destroy"]
  /\ UNCHANGED <<fdo, ready, rlock, leaks, pdoVars, serviceVars, bus, dev, stray>>

(* Bus_DestroyPdo, as far as the requests of the disk are not concerned. *)
DestroyPdo ==
  /\ mgr.at = "destroy"
  /\ pdo' = [pdo EXCEPT ![mgr.pdo] = Freed(@)]
  /\ event' = [event EXCEPT ![mgr.pdo] = TRUE]
  /\ mgr' = [mgr EXCEPT !.at = "count"]
  /\ UNCHANGED <<fdoVars, serviceVars, bus, dev, stray>>

RemoveDone == mgr' = NoRemoval
Gone == [node |-> "gone", missing |-> FALSE, eject |-> FALSE]

(* Mutant: the event is set after every removal. *)
CountPdosAlways ==
  /\ mgr.at = "count"
  /\ mgr' = [mgr EXCEPT !.at = "signal"]
  /\ dev' = [dev EXCEPT ![mgr.pdo] = Gone]
  /\ UNCHANGED <<fdoVars, pdoVars, serviceVars, bus, stray>>

(* NumPDOs is read without the mutex, through fdoData, which has a value   *)
(* only if the disk had a parent.  If not, whatever is there is read, and, *)
(* if that is zero, an event is set in it: the system crashes (a behaviour *)
(* that ends), other memory is hit, or, should it be the FDO after all,    *)
(* nothing happens, as the FDO still counts the disk.                      *)
CountPdos ==
  /\ mgr.at = "count"
  /\ IF mgr.fdoData
     THEN /\ IF numPdos = 0 THEN mgr' = [mgr EXCEPT !.at = "signal"]
                            ELSE RemoveDone
          /\ UNCHANGED stray
     ELSE stray' = TRUE /\ RemoveDone
  /\ dev' = [dev EXCEPT ![mgr.pdo] = Gone]
  /\ UNCHANGED <<fdoVars, pdoVars, serviceVars, bus>>

(* KeSetEvent (CleanupReadyEvent). *)
SignalReady ==
  /\ mgr.at = "signal"
  /\ ready' = TRUE
  /\ RemoveDone
  /\ UNCHANGED <<fdo, list, numPdos, rlock, leaks, pdoVars, serviceVars, bus,
                 dev, stray>>

-----------------------------------------------------------------------------
Ioctl(c) ==
  \/ \E s \in Serials : AddDisk(c, s) \/ RemoveDisk(c, s)
  \/ GetRequest(c)

InIoctl(c) ==
  \/ CheckUnique(c) \/ AddFails(c) \/ Invalidate(c) \/ FindDisk(c) \/ WalkDone(c)
  \/ \E p \in Pdos : InsertPdo(c, p) \/ WalkTo(c, p)

Cleanup == CleanupCheck \/ CleanupReset \/ Bus_RemoveAllDisks \/ CleanupWait

FdoPnp ==
  \/ StartFdo \/ QueryStopFdo \/ CancelStopFdo \/ StopFdo
  \/ QueryRemoveFdo \/ CancelRemoveFdo \/ BusVanishes \/ SurpriseRemovalFdo
  \/ RemoveFdo \/ ReleaseFdo \/ DeleteFdo \/ QueryRelations \/ QueryRelationsFails

PdoPnp(p) ==
  \/ StartPdo(p) \/ QueryStopPdo(p) \/ CancelStopPdo(p) \/ StopPdo(p)
  \/ QueryRemovePdo(p) \/ CancelRemovePdo(p) \/ SurpriseRemovalPdo(p)
  \/ EjectPdo(p) \/ RemovePdo(p)

RemovalStep == UnlinkPdo \/ DestroyPdo \/ CountPdos \/ SignalReady

(* The bus is deleted: the system rests for good. *)
Stopped ==
  /\ bus.node = "gone"
  /\ UNCHANGED vars

Next ==
  \/ \E c \in Callers : Ioctl(c) \/ InIoctl(c)
  \/ OpenHandle \/ CloseHandle \/ Cleanup \/ Close
  \/ FdoPnp \/ RemovalStep
  \/ \E p \in Pdos : PdoPnp(p)
  \/ Stopped

Spec == Init /\ [][Next]_vars

(* Threads inside the driver go on; the manager finishes the IRP it is     *)
(* handling, resolves what it has queried, enumerates the bus when told    *)
(* to, and removes what is missing.  Nothing obliges anybody to start,     *)
(* stop, eject, open or close.  Enumeration needs strong fairness: it is   *)
(* disabled whenever the manager queries the bus or removes a disk.        *)
Fairness ==
  /\ \A c \in Callers : WF_vars(InIoctl(c))
  /\ WF_vars(Cleanup)
  /\ WF_vars(Close)
  /\ WF_vars(RemovalStep)
  /\ WF_vars(CancelStopFdo /\ bus.node = "stopPending")
  /\ WF_vars(CancelRemoveFdo /\ bus.node = "removePending")
  /\ WF_vars(StartFdo)
  /\ SF_vars(QueryRelations)
  /\ \A p \in Pdos :
       /\ WF_vars(SurpriseRemovalPdo(p) /\ dev[p].missing)
       /\ WF_vars(RemovePdo(p) /\ dev[p].missing)

FairSpec == Spec /\ Fairness

-----------------------------------------------------------------------------
(* Properties.                                                             *)

PdoTypes ==
  [object : {"none", "live", "destroyed"}, now : PnpStates, prev : PnpStates,
   present : BOOLEAN, reportedMissing : BOOLEAN, serial : Serials \cup {None},
   parent : BOOLEAN, surprised : BOOLEAN]

DataTypes ==
  /\ fdo \in [now : PnpStates, prev : PnpStates]
  /\ list \in Seq(Pdos)
  /\ ready \in BOOLEAN
  /\ pdo \in [Pdos -> PdoTypes]
  /\ event \in [Pdos -> BOOLEAN]
  /\ handle \in HandlePlaces
  /\ call \in [Callers -> [at : Places, serial : Serials \cup {None},
                           pdo : Pdos \cup {None}]]
  /\ mgr \in [at : RemovePlaces, pdo : Pdos \cup {None}, fdoData : BOOLEAN]
  /\ bus \in [node : BusNodes, missing : BOOLEAN, stale : BOOLEAN]
  /\ dev \in [Pdos -> [node : Nodes, missing : BOOLEAN, eject : BOOLEAN]]
  /\ stray \in BOOLEAN

(* The counters never go below zero (NumPDOs is unsigned). *)
CounterTypes == numPdos \in Nat /\ rlock \in Nat /\ leaks \in Nat

(* Every variable has its type. *)
TypeOK == DataTypes /\ CounterTypes

(* A disk that has lost its parent: see SurpriseRemovalFdo and RemoveFdo. *)
Orphans == {p \in Pdos : pdo[p].object # "none" /\ ~ pdo[p].parent}

(* NumPDOs counts the disks on the list, and for ever those the surprise   *)
(* removal of the bus has taken off it: it never decrements for them.      *)
(* Bus_FDO_Cleanup waits for this count to reach zero.                     *)
CountIsList == numPdos = Len(list) + Cardinality(Orphans)

(* The list has each disk once, and only disks that exist and know their   *)
(* parent: InsertPdo and four other places, in three threads, edit it, and *)
(* everything that walks it follows pointers into the extensions.          *)
ListedAreLive ==
  /\ Len(list) = Cardinality(Listed)
  /\ \A p \in Listed : pdo[p].object = "live" /\ pdo[p].parent

(* The service frees a disk, and the memory it shares with the driver,     *)
(* when RemoveEvent is set: by then the driver must have destroyed it.     *)
EventMeansGone ==
  \A p \in Pdos : event[p] => pdo[p].object = "destroyed" /\ p \notin Listed

(* A RemoveEvent that has been set is not taken back by the KeResetEvent   *)
(* of a RemoveDisk: the worker would wait for ever.                        *)
EventStays == [][\A p \in Pdos : event[p] => event'[p]]_vars

(* A disk is destroyed only when the PnP manager has been told that it is  *)
(* missing, or together with its bus (busenum.h: "We will delete the PDO   *)
(* in IRP_MN_REMOVE only after we have reported [...] that it's missing"). *)
(* Its removal uses an fdoData that was never set (buspdo.c:212) only      *)
(* after the surprise removal of the bus, which clears ParentFdo. *)
DestroyedWhenMissing ==
  [][/\ \A p \in Pdos :
          pdo[p].object = "live" /\ pdo'[p].object = "destroyed" =>
            dev[p].missing \/ bus.missing \/ fdo'.now = "Deleted"
     /\ stray' # stray => fdo.now = "SurpriseRemovePending"]_vars

(* The driver and the PnP manager agree on the states of bus and disks,    *)
(* through queries that are cancelled, cancellations without a query,      *)
(* disabling, ejection and failed restarts.  pnp.c:465 asserts a case.     *)
StateOf(node) ==
  CASE node \in {"added", "unknown", "reported"} -> "NotStarted"
    [] node = "started"       -> "Started"
    [] node = "stopPending"   -> "StopPending"
    [] node = "stopped"       -> "Stopped"
    [] node = "removePending" -> "RemovePending"
    [] node = "surprise"      -> "SurpriseRemovePending"
    [] node = "gone"          -> "Deleted"

StatesAgree ==
  mgr.at = "idle" =>
    /\ fdo.now = StateOf(bus.node)
    /\ \A p \in Pdos :
         pdo[p].object = "live" /\ dev[p].node # "removed" =>
           pdo[p].now = StateOf(dev[p].node)

(* Two disks of the same serial number are never on the list, unless one   *)
(* has been surprise removed (which CheckUnique allows).  The check and    *)
(* the insertion are two acquisitions of the mutex.                        *)
UniqueSerial ==
  \A p, q \in Listed :
    p # q /\ pdo[p].serial = pdo[q].serial =>
      pdo[p].surprised \/ pdo[q].surprised

(* REMOVE_DEVICE of the FDO is in progress, and the FDO Deleted. *)
DeletingFdo == mgr.at \in {"fdoRelease", "fdoWait"}

(* The FDO's remove lock is held once by each IOCTL in progress and by the *)
(* removal, and else once for each return that kept it: of QUERY_RELATIONS *)
(* when its allocation fails (pnp.c:705), of an open that finds the FDO    *)
(* Deleted (busenum.c:396).  So the removal of the bus, which is sent with *)
(* no IOCTL in progress, waits for ever after these and after no other.    *)
FdoRemoveLockBalanced ==
  /\ rlock = Cardinality({c \in Callers : call[c] # User}) + leaks
             + (IF DeletingFdo THEN 1 ELSE 0)
  /\ mgr.at = "fdoWait" => rlock = 1 + leaks

(* When the FDO is deleted, no disk is left that points to it. *)
NoDanglingParent ==
  bus.node = "gone" =>
    \A p \in Pdos : pdo[p].object = "live" => ~ pdo[p].parent

(* Once the handle is closed, every disk of the service is gone, its       *)
(* memory may be freed.  Requires that nothing was being added or removed. *)
CleanupLeavesNone ==
  handle \in {"close", "closed"} => \A p \in Pdos : pdo[p].object # "live"

(* Bus_FDO_Cleanup returns, whatever the manager does with the disks. *)
CleanupReturns == handle = "check" ~> handle = "closed"

(* The safety half of CleanupReturns: as long as CleanupReadyEvent is not  *)
(* set, there are disks to wait for, or the removal of the last one has    *)
(* not looked at NumPDOs yet or is about to set the event: the signal is   *)
(* not given between CleanupCheck and CleanupReset, nor missed.  Requires  *)
(* that nothing was being added or removed.                                *)
CleanupIsAwaited ==
  handle = "wait" /\ ~ ready =>
    \/ numPdos > 0
    \/ mgr.at \in {"destroy", "count", "signal"} /\ mgr.fdoData

(* The safety half of the next two: what the manager does not know yet of  *)
(* the disks on the list, it is asked to find out.  A disk it has not      *)
(* heard of, and one that went without being marked, have the bus          *)
(* relations invalidated, or the thread that added the disk is about to;   *)
(* only the failed allocation of QUERY_RELATIONS loses that.               *)
ChangesAreAnnounced ==
  leaks = 0 =>
    \A p \in Listed :
      /\ pdo[p].present /\ dev[p].node = "unknown" =>
           bus.stale \/ \E c \in Callers : call[c].at = "invalidate"
      /\ ~ pdo[p].present /\ ~ pdo[p].reportedMissing => bus.stale

(* A disk that was added becomes known to the PnP manager. *)
AddedDiskIsEnumerated ==
  \A p \in Pdos :
    (p \in Listed /\ pdo[p].present)
      ~> (dev[p].node # "unknown" \/ ~ pdo[p].present \/ p \notin Listed)

(* A disk that is no longer present is destroyed and its worker told. *)
AbsentDiskIsDestroyed ==
  \A p \in Pdos :
    (pdo[p].object = "live" /\ ~ pdo[p].present) ~> event[p]
=============================================================================
