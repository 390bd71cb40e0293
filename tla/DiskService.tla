---------------------------- MODULE DiskService -----------------------------
(***************************************************************************)
(* The life of a disk in the service (umode/disksrv/disksrv.cpp, disks.h): *)
(* the RPC threads that add and remove disks, the container of             *)
(* CDiskProcessors, their workers, the Run loop, and the way the service   *)
(* is stopped.  RequestPath has the requests in the driver; here they      *)
(* matter as far as threads of the service hold a disk because of them.    *)
(*                                                                         *)
(* The container's m_cs is held by RemoveDisk between the deletion of a    *)
(* disk and the erasure of its entry; AddDisk's insertion is one step      *)
(* under it.  FindDisk, called by Run, does not take it.                   *)
(*                                                                         *)
(* The driver is seen as the service sees it: pdo tells how far the PDO    *)
(* made from a processor is, known whether the PnP manager has enumerated  *)
(* it, busy whether a request of it is with the service.  A PDO that the   *)
(* manager does not know serves nobody, is not ejected, and is never       *)
(* destroyed; of one that it knows PnpLifecycle says when it is.  The bus  *)
(* is not removed while the service has it open.                           *)
(*                                                                         *)
(* A deleted processor whose worker still runs is "wild": it waits on      *)
(* closed handles and freed memory.  The model goes on with the outcomes   *)
(* that touch nobody else: it waits for ever, or its wait fails.           *)
(***************************************************************************)
EXTENDS Integers

CONSTANTS
  Procs,     \* the CDiskProcessors that can be made, each once
  Ids,       \* the disk numbers
  Callers,   \* the RPC threads
  None       \* the NULL of every pointer

ASSUME DiskServiceAssumption == None \notin Procs \cup Ids

VARIABLES
  diskMap,   \* [Ids -> Procs \cup {None}], m_diskMap
  proc,      \* [Procs -> record], see NoProc
  rpc,       \* [Callers -> [at, id, disk]], the AddDisk a thread is in
  run,       \* [at, disk], the thread of ServiceMain
  irp,       \* the GET_REQUEST of Run: "none", "pending", "done"
  req,       \* the processor whose PDO's request Run has
  term,      \* whether TerminationEvent is signalled
  handler,   \* where CtrlHandler is
  status,    \* srv.Status.dwCurrentState
  scm,       \* the state last reported to the SCM
  pdo,       \* [Procs -> PdoStates], the driver's disks
  known,     \* [Procs -> BOOLEAN], the PnP manager has enumerated it
  busy,      \* [Procs -> BOOLEAN], the PDO has a CurrentIrp
  ready      \* whether CleanupReadyEvent is signalled

serviceVars == <<diskMap, proc, rpc>>
runVars == <<run, irp, req>>
scmVars == <<term, handler, status, scm>>
driverVars == <<pdo, known, busy, ready>>
vars == <<serviceVars, runVars, scmVars, driverVars>>

-----------------------------------------------------------------------------
RpcPlaces == {"user", "create", "insert", "register", "driver", "undo", "erase"}
RunPlaces == {"init", "wait", "use", "terminate", "close", "reset", "closing",
              "closed", "report", "stopped"}
WorkerPlaces == {"none", "wait", "work", "erase", "exited", "wild"}
PdoStates == {"none", "present", "missing", "destroyed"}
Reports == {"START_PENDING", "RUNNING", "STOP_PENDING", "STOPPED"}

(* A CDiskProcessor: whether it exists, how often it was deleted, m_diskId, *)
(* where its thread is, m_hEvent, m_hRemoveEvent, and m_req, named by the  *)
(* processor whose PDO made the request. *)
NoProc == [object |-> "none", deletes |-> 0, id |-> None, worker |-> "none",
           ready |-> FALSE, remove |-> FALSE, slot |-> None]
NewProc(i) == [NoProc EXCEPT !.object = "live", !.id = i, !.worker = "wait"]

User == [at |-> "user", id |-> None, disk |-> None]

Live(d) == proc[d].object = "live"
WithId(i) == {d \in Procs : proc[d].id = i}
InDriver(d) == pdo[d] \in {"present", "missing"}

(* RPC calls are accepted from InitRpc to RpcMgmtStopServerListening, the  *)
(* handle of the driver is open from Init to its CloseHandle. *)
Listening == run.at \in {"wait", "use", "terminate"}
HandleOpen == run.at \in {"wait", "use", "terminate", "close"}

(* m_cs is free. *)
Unlocked ==
  /\ \A d \in Procs : proc[d].worker # "erase"
  /\ \A c \in Callers : rpc[c].at # "erase"

(* delete of a processor: what becomes of it, and of its worker unless     *)
(* that is the thread that deletes it. *)
Deleted(r) ==
  [r EXCEPT !.object = "deleted", !.deletes = @ + 1,
            !.worker = IF r.worker \in {"wait", "work"} THEN "wild" ELSE @]

Init ==
  /\ diskMap = [i \in Ids |-> None]
  /\ proc = [d \in Procs |-> NoProc]
  /\ rpc = [c \in Callers |-> User]
  /\ run = [at |-> "init", disk |-> None]
  /\ irp = "none"
  /\ req = None
  /\ term = FALSE
  /\ handler = "idle"
  /\ status = "START_PENDING"
  /\ scm = "START_PENDING"
  /\ pdo = [d \in Procs |-> "none"]
  /\ known = [d \in Procs |-> FALSE]
  /\ busy = [d \in Procs |-> FALSE]
  /\ ready = FALSE

-----------------------------------------------------------------------------
(* RPC threads.                                                            *)

GoTo(c, at) == rpc' = [rpc EXCEPT ![c].at = at]
Return(c) == rpc' = [rpc EXCEPT ![c] = User]

(* A client's AddDisk arrives; FindPlugin. *)
AddDisk(c, i) ==
  /\ Listening
  /\ rpc[c] = User
  /\ rpc' = [rpc EXCEPT ![c] = [at |-> "create", id |-> i, disk |-> None]]
  /\ UNCHANGED <<diskMap, proc, runVars, scmVars, driverVars>>

(* CreateDiskProcessor: a new processor d, its storage and its thread. *)
CreateDiskProcessor(c, d) ==
  /\ rpc[c].at = "create"
  /\ proc[d] = NoProc
  /\ proc' = [proc EXCEPT ![d] = NewProc(rpc[c].id)]
  /\ rpc' = [rpc EXCEPT ![c].at = "insert", ![c].disk = d]
  /\ UNCHANGED <<diskMap, runVars, scmVars, driverVars>>

(* An allocation, an event, the storage or the thread fails. *)
CreateFails(c) ==
  /\ rpc[c].at = "create"
  /\ Return(c)
  /\ UNCHANGED <<diskMap, proc, runVars, scmVars, driverVars>>

(* Mutant: the entry of a disk number that is taken is overwritten. *)
InsertDiskOver(c) ==
  /\ rpc[c].at = "insert"
  /\ Unlocked
  /\ diskMap' = [diskMap EXCEPT ![rpc[c].id] = rpc[c].disk]
  /\ GoTo(c, "register")
  /\ UNCHANGED <<proc, runVars, scmVars, driverVars>>

(* CDiskContainer::AddDisk; a number that is taken makes AddDisk delete    *)
(* the new processor. *)
InsertDisk(c) ==
  /\ rpc[c].at = "insert"
  /\ Unlocked
  /\ IF diskMap[rpc[c].id] = None
     THEN /\ diskMap' = [diskMap EXCEPT ![rpc[c].id] = rpc[c].disk]
          /\ GoTo(c, "register")
          /\ UNCHANGED proc
     ELSE /\ proc' = [proc EXCEPT ![rpc[c].disk] = Deleted(@)]
          /\ Return(c)
          /\ UNCHANGED diskMap
  /\ UNCHANGED <<runVars, scmVars, driverVars>>

(* RegisterWithDriver: the IOCTL, which needs the handle. *)
RegisterWithDriver(c) ==
  /\ rpc[c].at = "register"
  /\ GoTo(c, IF HandleOpen THEN "driver" ELSE "undo")
  /\ UNCHANGED <<diskMap, proc, runVars, scmVars, driverVars>>

(* The driver has no disk of this number, unless on its way out. *)
Accepted(c) ==
  /\ rpc[c].at = "driver"
  /\ \A e \in WithId(rpc[c].id) : pdo[e] # "present"
  /\ pdo' = [pdo EXCEPT ![rpc[c].disk] = "present"]
  /\ Return(c)
  /\ UNCHANGED <<diskMap, proc, runVars, scmVars, known, busy, ready>>

(* Mutant: a refused disk is deleted at once, as one whose number is taken. *)
RefusedDeleting(c) ==
  /\ rpc[c].at = "driver"
  /\ proc' = [proc EXCEPT ![rpc[c].disk] = Deleted(@)]
  /\ GoTo(c, "undo")
  /\ UNCHANGED <<diskMap, runVars, scmVars, driverVars>>

Refused(c) ==
  /\ rpc[c].at = "driver"
  /\ GoTo(c, "undo")
  /\ UNCHANGED <<diskMap, proc, runVars, scmVars, driverVars>>

(* CDiskContainer::RemoveDisk, first half: delete what FindDisk returns.   *)
DeleteFound(i) ==
  IF diskMap[i] = None THEN proc
  ELSE [proc EXCEPT ![diskMap[i]] = Deleted(@)]

(* AddDisk failed: its disk is taken out of the container, in two halves. *)
UndoDelete(c) ==
  /\ rpc[c].at = "undo"
  /\ Unlocked
  /\ proc' = DeleteFound(rpc[c].id)
  /\ GoTo(c, "erase")
  /\ UNCHANGED <<diskMap, runVars, scmVars, driverVars>>

UndoErase(c) ==
  /\ rpc[c].at = "erase"
  /\ diskMap' = [diskMap EXCEPT ![rpc[c].id] = None]
  /\ Return(c)
  /\ UNCHANGED <<proc, runVars, scmVars, driverVars>>

(* Mutant: the client's RemoveDisk deletes the disk at once. *)
RemoveDiskAtOnce(i) ==
  /\ Listening
  /\ Unlocked
  /\ diskMap[i] # None
  /\ proc' = DeleteFound(i)
  /\ diskMap' = [diskMap EXCEPT ![i] = None]
  /\ pdo' = [d \in Procs |-> IF d \in WithId(i) /\ pdo[d] = "present"
                             THEN "missing" ELSE pdo[d]]
  /\ UNCHANGED <<rpc, runVars, scmVars, known, busy, ready>>

(* A client's RemoveDisk: UnregisterWithDriver, and nothing else.  The     *)
(* ejection it asks for is lost on a disk the manager does not know. *)
RemoveDisk(i) ==
  /\ Listening
  /\ \E d \in WithId(i) :
       /\ pdo[d] = "present"
       /\ known[d]
       /\ pdo' = [pdo EXCEPT ![d] = "missing"]
  /\ UNCHANGED <<serviceVars, runVars, scmVars, known, busy, ready>>

-----------------------------------------------------------------------------
(* Run.                                                                    *)

(* ServiceMain: Init, then the first GetRequest. *)
ServiceStarts ==
  /\ run.at = "init"
  /\ run' = [run EXCEPT !.at = "wait"]
  /\ irp' = "pending"
  /\ status' = "RUNNING"
  /\ scm' = "RUNNING"
  /\ UNCHANGED <<serviceVars, req, term, handler, driverVars>>

ServiceFailsToStart ==
  /\ run.at = "init"
  /\ run' = [run EXCEPT !.at = "stopped"]
  /\ status' = "STOPPED"
  /\ scm' = "STOPPED"
  /\ UNCHANGED <<serviceVars, irp, req, term, handler, driverVars>>

(* Mutant: Run does not look whether there is a disk of the number. *)
FindDiskUnchecked ==
  /\ run.at = "wait"
  /\ irp = "done"
  /\ irp' = "none"
  /\ run' = [at |-> "use", disk |-> diskMap[proc[req].id]]
  /\ UNCHANGED <<serviceVars, req, scmVars, driverVars>>

(* GetRequest returns a request and Run looks its disk up. *)
FindDisk ==
  /\ run.at = "wait"
  /\ irp = "done"
  /\ LET d == diskMap[proc[req].id] IN
       IF d = None
       THEN irp' = "pending" /\ req' = None /\ UNCHANGED run
       ELSE irp' = "none" /\ run' = [at |-> "use", disk |-> d] /\ UNCHANGED req
  /\ UNCHANGED <<serviceVars, scmVars, driverVars>>

(* Mutant: the request is given to any disk. *)
ProcessRequestAny ==
  /\ run.at = "use"
  /\ \E d \in Procs :
       proc' = IF Live(d) THEN [proc EXCEPT ![d].slot = req, ![d].ready = TRUE]
                          ELSE proc
  /\ run' = [at |-> "wait", disk |-> None]
  /\ irp' = "pending"
  /\ req' = None
  /\ UNCHANGED <<diskMap, rpc, scmVars, driverVars>>

(* ProcessRequest, which uses the disk found before, and GetRequest again. *)
ProcessRequest ==
  /\ run.at = "use"
  /\ proc' = IF Live(run.disk)
             THEN [proc EXCEPT ![run.disk].slot = req, ![run.disk].ready = TRUE]
             ELSE proc
  /\ run' = [at |-> "wait", disk |-> None]
  /\ irp' = "pending"
  /\ req' = None
  /\ UNCHANGED <<diskMap, rpc, scmVars, driverVars>>

(* GetRequest returns FALSE: TerminationEvent, which counts only if        *)
(* RequestEvent is not signalled too.  The IRP stays in the driver. *)
Terminated ==
  /\ run.at = "wait"
  /\ irp = "pending"
  /\ term
  /\ run' = [run EXCEPT !.at = "terminate"]
  /\ term' = FALSE
  /\ UNCHANGED <<serviceVars, irp, req, handler, status, scm, driverVars>>

(* GetRequest returns FALSE: the driver refused the IRP. *)
GetRequestFails ==
  /\ run.at = "wait"
  /\ irp = "pending"
  /\ run' = [run EXCEPT !.at = "terminate"]
  /\ irp' = "none"
  /\ UNCHANGED <<serviceVars, req, scmVars, driverVars>>

(* Terminate: no more RPC calls; the plug-ins are released. *)
Terminate ==
  /\ run.at = "terminate"
  /\ run' = [run EXCEPT !.at = "close"]
  /\ UNCHANGED <<serviceVars, irp, req, scmVars, driverVars>>

(* CloseHandle(hFile): Bus_FDO_Cleanup cancels the GET_REQUEST IRP and     *)
(* reads NumPDOs; without disks that is all. *)
CloseBus ==
  /\ run.at = "close"
  /\ run' = [run EXCEPT !.at =
               IF \E d \in Procs : InDriver(d) THEN "reset" ELSE "closed"]
  /\ irp' = "none"
  /\ UNCHANGED <<serviceVars, req, scmVars, driverVars>>

(* CleanupReadyEvent is reset, Bus_RemoveAllDisks marks every disk absent. *)
RemoveAllDisks ==
  /\ run.at = "reset"
  /\ run' = [run EXCEPT !.at = "closing"]
  /\ pdo' = [d \in Procs |-> IF pdo[d] = "present" THEN "missing" ELSE pdo[d]]
  /\ ready' = FALSE
  /\ UNCHANGED <<serviceVars, irp, req, scmVars, known, busy>>

(* The cleanup has waited for CleanupReadyEvent. *)
BusClosed ==
  /\ run.at = "closing"
  /\ ready
  /\ run' = [run EXCEPT !.at = "closed"]
  /\ UNCHANGED <<serviceVars, irp, req, scmVars, driverVars>>

(* Back in ServiceMain. *)
SetStopped ==
  /\ run.at = "closed"
  /\ run' = [run EXCEPT !.at = "report"]
  /\ status' = "STOPPED"
  /\ UNCHANGED <<serviceVars, irp, req, term, handler, scm, driverVars>>

(* SetServiceStatus.  The SCM ignores what follows a STOPPED. *)
Report == scm' = IF scm = "STOPPED" THEN scm ELSE status

ReportStopped ==
  /\ run.at = "report"
  /\ run' = [run EXCEPT !.at = "stopped"]
  /\ Report
  /\ UNCHANGED <<serviceVars, irp, req, term, handler, status, driverVars>>

-----------------------------------------------------------------------------
(* CtrlHandler, in the thread of the dispatcher.                           *)

(* SERVICE_CONTROL_STOP, which the SCM sends to a running service. *)
StopService ==
  /\ scm = "RUNNING"
  /\ handler = "idle"
  /\ term' = TRUE
  /\ handler' = "status"
  /\ UNCHANGED <<serviceVars, runVars, status, scm, driverVars>>

SetStopPending ==
  /\ handler = "status"
  /\ status' = "STOP_PENDING"
  /\ handler' = "report"
  /\ UNCHANGED <<serviceVars, runVars, term, scm, driverVars>>

ReportStopPending ==
  /\ handler = "report"
  /\ Report
  /\ handler' = "idle"
  /\ UNCHANGED <<serviceVars, runVars, term, status, driverVars>>

(* SERVICE_CONTROL_INTERROGATE, or an opcode the handler does not know. *)
Interrogate ==
  /\ handler = "idle"
  /\ Report
  /\ UNCHANGED <<serviceVars, runVars, term, handler, status, driverVars>>

-----------------------------------------------------------------------------
(* Workers.                                                                *)

(* m_hEvent wakes the worker, also when RemoveEvent is signalled too. *)
ServeRequest(d) ==
  /\ proc[d].worker = "wait"
  /\ proc[d].ready
  /\ proc' = [proc EXCEPT ![d].ready = FALSE, ![d].worker = "work"]
  /\ UNCHANGED <<diskMap, rpc, runVars, scmVars, driverVars>>

(* SendReply names the disk by its number: the driver takes the reply for  *)
(* whatever disk has that number now, or refuses it. *)
SendReply(d) ==
  /\ proc[d].worker = "work"
  /\ proc' = [proc EXCEPT ![d].worker = "wait",
                          ![d].slot = IF proc[d].ready THEN @ ELSE None]
  /\ LET found == {e \in WithId(proc[proc[d].slot].id) : InDriver(e)} IN
       IF HandleOpen /\ found # {}
       THEN \E e \in found : busy' = [busy EXCEPT ![e] = FALSE]
       ELSE UNCHANGED busy
  /\ UNCHANGED <<diskMap, rpc, runVars, scmVars, pdo, known, ready>>

(* RemoveEvent: RemoveDiskFinal takes the disk of this number out of the   *)
(* container, in two halves, and the worker ends. *)
RemoveDiskFinal(d) ==
  /\ proc[d].worker = "wait"
  /\ ~ proc[d].ready
  /\ proc[d].remove
  /\ Unlocked
  /\ proc' = [DeleteFound(proc[d].id) EXCEPT ![d].worker = "erase"]
  /\ UNCHANGED <<diskMap, rpc, runVars, scmVars, driverVars>>

EraseDisk(d) ==
  /\ proc[d].worker = "erase"
  /\ diskMap' = [diskMap EXCEPT ![proc[d].id] = None]
  /\ proc' = [proc EXCEPT ![d].worker = "exited"]
  /\ UNCHANGED <<rpc, runVars, scmVars, driverVars>>

-----------------------------------------------------------------------------
(* The driver.                                                             *)

(* The PnP manager enumerates the bus and comes to know a new disk. *)
Enumerate(d) ==
  /\ pdo[d] = "present"
  /\ ~ known[d]
  /\ known' = [known EXCEPT ![d] = TRUE]
  /\ UNCHANGED <<serviceVars, runVars, scmVars, pdo, busy, ready>>

(* A disk's IRP completes the GET_REQUEST IRP. *)
DispatchRequest(d) ==
  /\ irp = "pending"
  /\ InDriver(d)
  /\ known[d]
  /\ ~ busy[d]
  /\ irp' = "done"
  /\ req' = d
  /\ busy' = [busy EXCEPT ![d] = TRUE]
  /\ UNCHANGED <<serviceVars, run, scmVars, pdo, known, ready>>

(* Somebody else than the service removes the disk. *)
EjectDisk(d) ==
  /\ pdo[d] = "present"
  /\ known[d]
  /\ pdo' = [pdo EXCEPT ![d] = "missing"]
  /\ UNCHANGED <<serviceVars, runVars, scmVars, known, busy, ready>>

(* The PDO is taken off the list; the last one sets CleanupReadyEvent. *)
RemovePdo(d) ==
  /\ pdo' = [pdo EXCEPT ![d] = "destroyed"]
  /\ ready' = (ready \/ \A e \in Procs \ {d} : ~ InDriver(e))

(* Mutant: RemoveEvent is set when the disk is found to be missing. *)
DestroyPdoEarly(d) ==
  /\ pdo[d] = "missing"
  /\ known[d]
  /\ IF proc[d].remove
     THEN RemovePdo(d) /\ UNCHANGED <<proc, known, busy>>
     ELSE proc' = [proc EXCEPT ![d].remove = TRUE] /\ UNCHANGED driverVars
  /\ UNCHANGED <<diskMap, rpc, runVars, scmVars>>

(* Mutant: nobody is told that the PDO is gone. *)
DestroyPdoSilently(d) ==
  /\ pdo[d] = "missing"
  /\ known[d]
  /\ RemovePdo(d)
  /\ busy' = [busy EXCEPT ![d] = FALSE]
  /\ UNCHANGED <<serviceVars, runVars, scmVars, known>>

(* Mutant: the driver waits for the reply to the disk's request. *)
DestroyPdoWaiting(d) ==
  /\ pdo[d] = "missing"
  /\ known[d]
  /\ ~ busy[d]
  /\ RemovePdo(d)
  /\ proc' = [proc EXCEPT ![d].remove = TRUE]
  /\ UNCHANGED <<diskMap, rpc, runVars, scmVars, known, busy>>

(* Bus_DestroyPdo: IRPs are completed, the PDO is gone, RemoveEvent set. *)
DestroyPdo(d) ==
  /\ pdo[d] = "missing"
  /\ known[d]
  /\ RemovePdo(d)
  /\ busy' = [busy EXCEPT ![d] = FALSE]
  /\ proc' = [proc EXCEPT ![d].remove = TRUE]
  /\ UNCHANGED <<diskMap, rpc, runVars, scmVars, known>>

-----------------------------------------------------------------------------
AddDiskStep(c) ==
  \/ \E d \in Procs : CreateDiskProcessor(c, d)
  \/ CreateFails(c) \/ InsertDisk(c) \/ RegisterWithDriver(c)
  \/ Accepted(c) \/ Refused(c) \/ UndoDelete(c) \/ UndoErase(c)

RunStep ==
  \/ FindDisk \/ ProcessRequest \/ Terminated
  \/ Terminate \/ CloseBus \/ RemoveAllDisks \/ BusClosed
  \/ SetStopped \/ ReportStopped

HandlerStep == SetStopPending \/ ReportStopPending

WorkerStep(d) ==
  ServeRequest(d) \/ SendReply(d) \/ RemoveDiskFinal(d) \/ EraseDisk(d)

Next ==
  \/ \E c \in Callers, i \in Ids : AddDisk(c, i)
  \/ \E c \in Callers : AddDiskStep(c)
  \/ \E i \in Ids : RemoveDisk(i)
  \/ ServiceStarts \/ ServiceFailsToStart
  \/ RunStep \/ GetRequestFails
  \/ StopService \/ HandlerStep \/ Interrogate
  \/ \E d \in Procs :
       \/ WorkerStep(d)
       \/ Enumerate(d) \/ DispatchRequest(d) \/ EjectDisk(d) \/ DestroyPdo(d)

Spec == Init /\ [][Next]_vars

(* Threads that can go on do, Run in the driver's cleanup only once        *)
(* CleanupReadyEvent is set.  A missing disk that the PnP manager knows is *)
(* destroyed (PnpLifecycle, AbsentDiskIsDestroyed); of one that it does    *)
(* not know nothing is assumed.  Nobody has to add, enumerate, remove,     *)
(* request or stop anything. *)
FairSpec ==
  /\ Spec
  /\ \A c \in Callers : WF_vars(AddDiskStep(c))
  /\ WF_vars(RunStep)
  /\ WF_vars(HandlerStep)
  /\ \A d \in Procs : WF_vars(WorkerStep(d)) /\ WF_vars(DestroyPdo(d))

-----------------------------------------------------------------------------
(* Properties.                                                             *)

(* Every variable has its type, and Run has a disk while it uses one. *)
TypeOK ==
  /\ diskMap \in [Ids -> Procs \cup {None}]
  /\ proc \in [Procs -> [object : {"none", "live", "deleted"}, deletes : 0 .. 2,
                         id : Ids \cup {None}, worker : WorkerPlaces,
                         ready : BOOLEAN, remove : BOOLEAN,
                         slot : Procs \cup {None}]]
  /\ rpc \in [Callers -> [at : RpcPlaces, id : Ids \cup {None},
                          disk : Procs \cup {None}]]
  /\ run \in [at : RunPlaces, disk : Procs \cup {None}]
  /\ (run.at = "use") = (run.disk # None)
  /\ irp \in {"none", "pending", "done"}
  /\ req \in Procs \cup {None}
  /\ term \in BOOLEAN
  /\ handler \in {"idle", "status", "report"}
  /\ status \in Reports
  /\ scm \in Reports
  /\ pdo \in [Procs -> PdoStates]
  /\ known \in [Procs -> BOOLEAN]
  /\ busy \in [Procs -> BOOLEAN]
  /\ ready \in BOOLEAN

(* A disk the driver has is alive in the service: its processor exists, is *)
(* found under its number, and its worker is there to take requests and    *)
(* RemoveEvent.  The driver writes into the processor's buffer and sets    *)
(* its event, and trusts the service to keep both. *)
RegisteredIsServed ==
  \A d \in Procs : InDriver(d) =>
    /\ Live(d)
    /\ diskMap[proc[d].id] = d
    /\ proc[d].worker \in {"wait", "work"}

(* No processor is deleted twice, although three places delete one: both   *)
(* failures of AddDisk, and RemoveDiskFinal, which deletes whatever the    *)
(* container has under a number. *)
DeletedOnce == \A d \in Procs : proc[d].deletes <= 1

(* A worker that has been given a request has one of its own disk, or of   *)
(* a disk of the same number that the driver has since destroyed: the      *)
(* number is all that the service knows of whom a request is for. *)
RequestIsForDisk ==
  \A d \in Procs : proc[d].ready \/ proc[d].worker = "work" =>
    \/ proc[d].slot = d
    \/ proc[proc[d].slot].id = proc[d].id /\ pdo[proc[d].slot] = "destroyed"

(* Between FindDisk and ProcessRequest Run holds a pointer no lock         *)
(* protects.  It is the right one and alive as long as the disk whose      *)
(* request Run has is not destroyed; only then may it dangle. *)
RunUsesLiveDisk ==
  run.at = "use" /\ pdo[req] # "destroyed" => run.disk = req /\ Live(req)

(* A disk the driver has destroyed leaves the service: its processor is    *)
(* deleted and its number can be used again, unless the process ends. *)
DestroyedIsFreed ==
  \A d \in Procs :
    pdo[d] = "destroyed" ~>
      \/ ~ Live(d) /\ \A i \in Ids : diskMap[i] # d
      \/ run.at = "stopped"

(* m_cs keeps freed processors out of sight: outside a removal's two       *)
(* halves every entry of the container is alive.  FindDisk, which does not *)
(* take it, may find a freed one, but only then. *)
FreedOnlyUnderLock ==
  Unlocked => \A i \in Ids : diskMap[i] # None => Live(diskMap[i])

(* The driver never works on two AddDisks of one number at a time, because *)
(* the container has let only one through.  PnpLifecycle takes this of the *)
(* service for granted. *)
CallsAreApart ==
  \A c1, c2 \in Callers :
    /\ rpc[c1].at \in {"register", "driver", "undo", "erase"}
    /\ rpc[c2].at \in {"register", "driver", "undo", "erase"}
    /\ rpc[c1].id = rpc[c2].id
    => c1 = c2

(* A disk the driver has destroyed is on its way out or gone: either its   *)
(* worker has RemoveEvent before it and the entry that it will take out,   *)
(* or nothing is left of it.  DestroyedIsFreed says that the way ends. *)
DestroyedIsLeaving ==
  \A d \in Procs : pdo[d] = "destroyed" =>
    \/ /\ proc[d].remove
       /\ proc[d].worker \in {"wait", "work", "erase"}
       /\ diskMap[proc[d].id] = d
    \/ ~ Live(d) /\ \A i \in Ids : diskMap[i] # d

(* Only an AddDisk that fails deletes a processor under its worker: no     *)
(* worker the driver ever knew of runs on freed memory. *)
WildIsUnregistered ==
  \A d \in Procs : proc[d].worker = "wild" => pdo[d] = "none"

(* While the driver counts a request as being with the service, it is: in  *)
(* the IRP, with Run, or in the slot of the worker of the disk that made   *)
(* it.  One slot per disk is enough, although Run writes into it without   *)
(* looking and requests of an earlier disk of the number end up there. *)
RequestIsHeld ==
  HandleOpen => \A d \in Procs : InDriver(d) /\ busy[d] =>
    \/ (irp = "done" \/ run.at = "use") /\ req = d
    \/ proc[d].slot = d /\ (proc[d].ready \/ proc[d].worker = "work")

(* A stop is not lost: as long as CtrlHandler is at it or anybody has been *)
(* told of it, Run has TerminationEvent before it or has left its loop. *)
StopIsRemembered ==
  handler # "idle" \/ "STOP_PENDING" \in {status, scm} =>
    term \/ run.at \notin {"init", "wait", "use"}

(* What keeps the end from the SCM is CtrlHandler's STOP_PENDING over the  *)
(* STOPPED of ServiceMain (StoppedIsReported), and nothing else. *)
StoppedOrOverwritten ==
  run.at = "stopped" => scm = "STOPPED" \/ status = "STOP_PENDING"

(* What can keep the driver's cleanup waiting: the last disk went between  *)
(* its look at NumPDOs and its reset of the event; it marked a disk absent *)
(* that the PnP manager did not know yet; a disk came after it had marked  *)
(* all of them, because a client's AddDisk overlapped it. *)
LastDiskWentBeforeReset == run.at = "reset" /\ \A d \in Procs : ~ InDriver(d)
UnknownDisk == run.at = "closing" /\ \E d \in Procs : pdo[d] = "missing" /\ ~ known[d]
LateDisk == run.at = "closing" /\ \E d \in Procs : pdo[d] = "present"
CleanupDisturbed == LastDiskWentBeforeReset \/ UnknownDisk \/ LateDisk

(* A stop ends, if the disks do not always have the next request ready     *)
(* before Run looks at TerminationEvent, and if the cleanup of the driver  *)
(* meets none of the three circumstances above.  Nothing else holds it up: *)
(* not disks in the middle of a request, being added or being removed. *)
StopEnds ==
  <>[](irp # "done") /\ []~ CleanupDisturbed => (term ~> run.at = "stopped")

(* disksrv.cpp:786-801: when ServiceMain has stopped, the SCM knows.  In   *)
(* the end the service that was told to stop is reported as stopped. *)
StoppedIsReported == run.at = "stopped" /\ handler = "idle" => scm = "STOPPED"

(* The service implements AttachedDisks. *)
Stage(i) ==
  IF \E d \in WithId(i) : pdo[d] = "present" THEN "attached"
  ELSE IF \E d \in WithId(i) : pdo[d] = "missing" THEN "leaving"
  ELSE IF diskMap[i] = None THEN "free"
  ELSE IF pdo[diskMap[i]] = "destroyed" THEN "leaving"
  ELSE "adding"

Abstract == INSTANCE AttachedDisks WITH table <- [i \in Ids |-> Stage(i)]
ImplementsAttachedDisks == Abstract!Spec
=============================================================================
