--------------------------- MODULE DiskServiceProofs ---------------------------
(***************************************************************************)
(* Proofs about DiskService, for any processors, disk numbers and RPC      *)
(* threads: its safety properties and the refinement of AttachedDisks from *)
(* IInv; then, each from an invariant of its own on top of IInv, what the  *)
(* container may have in it, that no request is lost on its way to a       *)
(* worker, and that no stop is.                                            *)
(***************************************************************************)
EXTENDS DiskService, TLAPS

(* How far a processor has come in the service and its PDO in the driver:  *)
(* the driver has a disk only between AddDisk's success and DestroyPdo,    *)
(* and only then may its worker take it out of the container. *)
DiskOK(d) ==
  /\ proc[d].object = "none" => proc[d] = NoProc /\ pdo[d] = "none"
  /\ proc[d].object # "none" => proc[d].id \in Ids
  /\ Live(d) => proc[d].deletes = 0 /\ proc[d].worker \in {"wait", "work"}
  /\ proc[d].object = "deleted" =>
       proc[d].deletes = 1 /\ proc[d].worker \in {"erase", "exited", "wild"}
  /\ InDriver(d) => Live(d) /\ diskMap[proc[d].id] = d
  /\ proc[d].remove <=> pdo[d] = "destroyed"
  /\ pdo[d] = "destroyed" =>
       \/ (Live(d) \/ proc[d].worker = "erase") /\ diskMap[proc[d].id] = d
       \/ proc[d].worker = "exited"
  /\ proc[d].worker = "erase" => pdo[d] = "destroyed"

(* A processor is in the container under its own number. *)
MapOK == \A i \in Ids : diskMap[i] # None => proc[diskMap[i]].id = i

(* AddDisk's disk is not yet the driver's, and it is the one in the        *)
(* container from InsertDisk to the end. *)
Holding == {"insert", "register", "driver", "undo", "erase"}
CallOK(c) ==
  /\ rpc[c].at = "user" => rpc[c] = User
  /\ rpc[c].at # "user" => rpc[c].id \in Ids
  /\ rpc[c].at = "create" => rpc[c].disk = None
  /\ rpc[c].at \in Holding =>
       /\ rpc[c].disk \in Procs
       /\ proc[rpc[c].disk].id = rpc[c].id
       /\ pdo[rpc[c].disk] = "none"
  /\ rpc[c].at \in {"insert", "register", "driver", "undo"} => Live(rpc[c].disk)
  /\ rpc[c].at \in {"register", "driver", "undo", "erase"} =>
       diskMap[rpc[c].id] = rpc[c].disk

(* No two threads add the same processor. *)
Apart ==
  \A c1, c2 \in Callers :
    rpc[c1].disk # None /\ rpc[c1].disk = rpc[c2].disk => c1 = c2

(* Whose request d may have been given. *)
MayHave(d, r) == r = d \/ (proc[r].id = proc[d].id /\ pdo[r] = "destroyed")

SlotOK(d) ==
  /\ proc[d].ready \/ proc[d].worker = "work" => proc[d].slot # None
  /\ proc[d].slot # None => MayHave(d, proc[d].slot)

(* The request Run has is one the driver has made. *)
RunOK ==
  /\ run.at = "use" => irp = "none" /\ MayHave(run.disk, req)
  /\ irp = "done" \/ run.at = "use" => req # None /\ pdo[req] # "none"

IInv ==
  /\ TypeOK
  /\ \A d \in Procs : DiskOK(d) /\ SlotOK(d)
  /\ \A c \in Callers : CallOK(c)
  /\ MapOK /\ Apart /\ RunOK

-----------------------------------------------------------------------------
ProcTypes ==
  [object : {"none", "live", "deleted"}, deletes : 0 .. 2, id : Ids \cup {None},
   worker : WorkerPlaces, ready : BOOLEAN, remove : BOOLEAN, slot : Procs \cup {None}]
RpcTypes == [at : RpcPlaces, id : Ids \cup {None}, disk : Procs \cup {None}]
RunTypes == [at : RunPlaces, disk : Procs \cup {None}]

(* The types in three groups, by what a step may leave alone. *)
ServiceTypes ==
  /\ diskMap \in [Ids -> Procs \cup {None}]
  /\ proc \in [Procs -> ProcTypes]
  /\ rpc \in [Callers -> RpcTypes]

DriverTypes ==
  /\ pdo \in [Procs -> PdoStates]
  /\ known \in [Procs -> BOOLEAN]
  /\ busy \in [Procs -> BOOLEAN]
  /\ ready \in BOOLEAN

RunAndScmTypes ==
  /\ run \in RunTypes
  /\ (run.at = "use") = (run.disk # None)
  /\ irp \in {"none", "pending", "done"}
  /\ req \in Procs \cup {None}
  /\ term \in BOOLEAN
  /\ handler \in {"idle", "status", "report"}
  /\ status \in Reports
  /\ scm \in Reports

LEMMA TypeParts == TypeOK <=> ServiceTypes /\ DriverTypes /\ RunAndScmTypes
BY DEF TypeOK, ServiceTypes, DriverTypes, RunAndScmTypes, ProcTypes, RpcTypes, RunTypes

DisksOK == \A d \in Procs : DiskOK(d)
SlotsOK == \A d \in Procs : SlotOK(d)
CallsOK == (\A c \in Callers : CallOK(c)) /\ Apart

LEMMA IInvParts ==
  IInv <=> /\ ServiceTypes /\ DriverTypes /\ RunAndScmTypes
           /\ DisksOK /\ SlotsOK /\ CallsOK /\ MapOK /\ RunOK
BY TypeParts DEF IInv, DisksOK, SlotsOK, CallsOK

LEMMA NextIInv ==
  ASSUME ServiceTypes', DriverTypes', RunAndScmTypes',
         DisksOK', SlotsOK', CallsOK', MapOK', RunOK'
  PROVE  IInv'
<1>1. TypeOK'
  BY DEF TypeOK, ServiceTypes, DriverTypes, RunAndScmTypes, ProcTypes, RpcTypes, RunTypes
<1> QED
  BY <1>1 DEF IInv, DisksOK, SlotsOK, CallsOK

LEMMA InitIInv == Init => IInv
<1> SUFFICES ASSUME Init PROVE IInv
  OBVIOUS
<1> USE DiskServiceAssumption
<1>1. NoProc \in ProcTypes /\ User \in RpcTypes
  BY DEF NoProc, ProcTypes, WorkerPlaces, User, RpcTypes, RpcPlaces
<1>2. ServiceTypes /\ DriverTypes
  BY <1>1 DEF Init, ServiceTypes, DriverTypes, PdoStates
<1>3. RunAndScmTypes
  BY DEF Init, RunAndScmTypes, RunTypes, RunPlaces, Reports
<1>4. DisksOK
  BY DEF Init, DisksOK, DiskOK, NoProc, Live, InDriver
<1>5. SlotsOK
  BY DEF Init, SlotsOK, SlotOK, NoProc
<1>6. CallsOK
  BY DEF Init, CallsOK, CallOK, Apart, User, Holding
<1>7. MapOK /\ RunOK
  BY DEF Init, MapOK, RunOK
<1> QED
  BY <1>2, <1>3, <1>4, <1>5, <1>6, <1>7, IInvParts

-----------------------------------------------------------------------------
(* What a step leaves as it is. *)

LEMMA SameDisks ==
  ASSUME IInv, UNCHANGED <<diskMap, proc, pdo>>
  PROVE  DisksOK' /\ SlotsOK' /\ MapOK'
BY DEF IInv, DisksOK, DiskOK, SlotsOK, SlotOK, MapOK, MayHave, Live, InDriver

LEMMA SameCalls ==
  ASSUME IInv, UNCHANGED <<diskMap, proc, pdo, rpc>>
  PROVE  CallsOK'
BY DEF IInv, CallsOK, CallOK, Apart, Live

LEMMA SameRun ==
  ASSUME IInv, UNCHANGED <<proc, pdo, run, irp, req>>
  PROVE  RunOK'
BY DEF IInv, RunOK, MayHave

-----------------------------------------------------------------------------
(* CtrlHandler and the SCM. *)
LEMMA ScmStep ==
  ASSUME IInv, StopService \/ HandlerStep \/ Interrogate
  PROVE  IInv'
<1>0. /\ UNCHANGED <<serviceVars, driverVars, runVars>>
      /\ UNCHANGED <<diskMap, proc, rpc, pdo, known, busy, ready, run, irp, req>>
  BY DEF StopService, HandlerStep, SetStopPending, ReportStopPending, Interrogate,
     serviceVars, driverVars, runVars
<1>1. ServiceTypes' /\ DriverTypes'
  BY <1>0, IInvParts DEF ServiceTypes, DriverTypes
<1>2. RunAndScmTypes
  BY IInvParts
<1>3. RunAndScmTypes'
  BY <1>0, <1>2 DEF RunAndScmTypes, StopService, HandlerStep, SetStopPending,
     ReportStopPending, Interrogate, Report, Reports
<1> QED
  BY <1>0, <1>1, <1>3, SameDisks, SameCalls, SameRun, NextIInv

(* The thread of ServiceMain, as long as it hands no request over. *)
LEMMA MainStep ==
  ASSUME IInv,
         \/ ServiceStarts \/ ServiceFailsToStart \/ Terminated \/ GetRequestFails
         \/ Terminate \/ CloseBus \/ BusClosed \/ SetStopped \/ ReportStopped
  PROVE  IInv'
<1>0. UNCHANGED <<diskMap, proc, rpc, pdo, known, busy, ready>>
  BY DEF ServiceStarts, ServiceFailsToStart, Terminated, GetRequestFails, Terminate,
     CloseBus, BusClosed, SetStopped, ReportStopped, serviceVars, driverVars
<1>1. ServiceTypes' /\ DriverTypes'
  BY <1>0, IInvParts DEF ServiceTypes, DriverTypes
<1>2. RunAndScmTypes /\ RunOK
  BY IInvParts
<1>3. /\ run.at # "use" /\ run'.at \in RunPlaces \ {"use"} /\ run'.disk = run.disk
      /\ run' \in RunTypes
      /\ req' = req /\ irp' \in {"none", "pending", irp}
  BY <1>2 DEF RunAndScmTypes, RunTypes, RunPlaces, ServiceStarts, ServiceFailsToStart,
     Terminated, GetRequestFails, Terminate, CloseBus, BusClosed, SetStopped, ReportStopped
<1>4. /\ term' \in BOOLEAN /\ handler' \in {"idle", "status", "report"}
      /\ status' \in Reports /\ scm' \in Reports
  BY <1>2 DEF RunAndScmTypes, ServiceStarts, ServiceFailsToStart,
     Terminated, GetRequestFails, Terminate, CloseBus, BusClosed, SetStopped, ReportStopped,
     Report, Reports, scmVars
<1>5. RunAndScmTypes'
  BY <1>2, <1>3, <1>4 DEF RunAndScmTypes
<1>6. RunOK'
  BY <1>0, <1>2, <1>3 DEF RunOK
<1> QED
  BY <1>0, <1>1, <1>5, <1>6, SameDisks, SameCalls, NextIInv

(* Run's lookup, and the driver's answer to GET_REQUEST. *)
LEMMA FindDiskStep ==
  ASSUME IInv, FindDisk
  PROVE  IInv'
<1> DEFINE d == diskMap[proc[req].id]
<1>0. UNCHANGED <<diskMap, proc, rpc, pdo, known, busy, ready, term, handler, status, scm>>
  BY DEF FindDisk, serviceVars, driverVars, scmVars
<1>1. ServiceTypes' /\ DriverTypes'
  BY <1>0, IInvParts DEF ServiceTypes, DriverTypes
<1>2. RunAndScmTypes /\ RunOK /\ DisksOK /\ MapOK /\ ServiceTypes /\ DriverTypes
  BY IInvParts
<1>3. run.at = "wait" /\ irp = "done" /\ req \in Procs /\ pdo[req] # "none"
  BY <1>2 DEF FindDisk, RunOK, RunAndScmTypes
<1>4. proc[req].id \in Ids
  BY <1>2, <1>3 DEF DisksOK, DiskOK
<1>5. d \in Procs \cup {None}
  BY <1>2, <1>4 DEF ServiceTypes
<1>6. CASE d = None
  <2>1. irp' = "pending" /\ req' = None /\ run' = run
    BY <1>6 DEF FindDisk
  <2>2. RunAndScmTypes'
    BY <1>0, <1>2, <2>1 DEF RunAndScmTypes
  <2>3. RunOK'
    BY <1>3, <2>1 DEF RunOK
  <2> QED
    BY <1>0, <1>1, <2>2, <2>3, SameDisks, SameCalls, NextIInv
<1>7. CASE d # None
  <2>1. irp' = "none" /\ req' = req /\ run' = [at |-> "use", disk |-> d]
    BY <1>7 DEF FindDisk
  <2>2. run' \in RunTypes /\ run'.at = "use" /\ run'.disk = d
    BY <1>5, <2>1 DEF RunTypes, RunPlaces
  <2>3. RunAndScmTypes'
    BY <1>0, <1>2, <1>7, <2>1, <2>2 DEF RunAndScmTypes
  <2>4. proc[d].id = proc[req].id
    BY <1>2, <1>4, <1>7 DEF MapOK
  <2>5. pdo[req] # "destroyed" => d = req
    <3>1. pdo[req] # "destroyed" => InDriver(req)
      BY <1>2, <1>3 DEF DriverTypes, PdoStates, InDriver
    <3> QED
      BY <1>2, <1>3, <3>1 DEF DisksOK, DiskOK
  <2>6. RunOK'
    BY <1>0, <1>3, <2>1, <2>2, <2>4, <2>5, DiskServiceAssumption DEF RunOK, MayHave
  <2> QED
    BY <1>0, <1>1, <2>3, <2>6, SameDisks, SameCalls, NextIInv
<1> QED
  BY <1>6, <1>7

LEMMA DispatchRequestStep ==
  ASSUME IInv, NEW d \in Procs, DispatchRequest(d)
  PROVE  IInv'
<1>0. UNCHANGED <<diskMap, proc, rpc, run, pdo, known, ready, term, handler, status, scm>>
  BY DEF DispatchRequest, serviceVars, scmVars
<1>1. RunAndScmTypes /\ RunOK /\ ServiceTypes /\ DriverTypes
  BY IInvParts
<1>2. ServiceTypes' /\ DriverTypes'
  BY <1>0, <1>1 DEF ServiceTypes, DriverTypes, DispatchRequest
<1>3. irp = "pending" /\ irp' = "done" /\ req' = d /\ pdo[d] # "none"
  BY DEF DispatchRequest, InDriver
<1>4. RunAndScmTypes'
  BY <1>0, <1>1, <1>3 DEF RunAndScmTypes
<1>5. RunOK'
  BY <1>0, <1>1, <1>3, DiskServiceAssumption DEF RunOK
<1> QED
  BY <1>0, <1>2, <1>4, <1>5, SameDisks, SameCalls, NextIInv

-----------------------------------------------------------------------------
(* A step changes of the processors only d's, and of d nothing but what it *)
(* does with requests. *)
LEMMA WorkStep ==
  ASSUME IInv, NEW d \in Procs, Live(d), proc' \in [Procs -> ProcTypes],
         UNCHANGED <<diskMap, rpc, pdo>>,
         \A e \in Procs \ {d} : proc'[e] = proc[e],
         proc'[d].object = proc[d].object, proc'[d].id = proc[d].id,
         proc'[d].deletes = proc[d].deletes, proc'[d].remove = proc[d].remove,
         proc'[d].worker \in {"wait", "work"},
         SlotOK(d)'
  PROVE  ServiceTypes' /\ DisksOK' /\ SlotsOK' /\ MapOK' /\ CallsOK'
<1>0. ServiceTypes /\ DisksOK /\ SlotsOK /\ MapOK /\ CallsOK
  BY IInvParts
<1>1. \A e \in Procs : /\ proc'[e].object = proc[e].object
                       /\ proc'[e].id = proc[e].id
                       /\ e # d => proc'[e] = proc[e]
  OBVIOUS
<1>2. ServiceTypes'
  BY <1>0 DEF ServiceTypes
<1>3. ASSUME NEW e \in Procs PROVE DiskOK(e)'
  <2>1. DiskOK(e)
    BY <1>0 DEF DisksOK
  <2>2. CASE e = d
    BY <2>1, <2>2 DEF DiskOK, Live, InDriver
  <2>3. CASE e # d
    BY <1>1, <2>1, <2>3 DEF DiskOK, Live, InDriver
  <2> QED
    BY <2>2, <2>3
<1>4. ASSUME NEW e \in Procs PROVE SlotOK(e)'
  <2>1. SlotOK(e) /\ proc[e].slot \in Procs \cup {None}
    BY <1>0 DEF SlotsOK, ServiceTypes, ProcTypes
  <2> QED
    BY <1>1, <2>1 DEF SlotOK, MayHave
<1>5. MapOK'
  BY <1>0, <1>1 DEF MapOK, ServiceTypes
<1>6. Apart'
  BY <1>0 DEF CallsOK, Apart
<1>7. ASSUME NEW c \in Callers PROVE CallOK(c)'
  <2>1. CallOK(c) /\ rpc'[c] = rpc[c]
    BY <1>0 DEF CallsOK
  <2>2. CASE rpc[c].at \in Holding
    <3>1. rpc[c].disk \in Procs
      BY <2>1, <2>2 DEF CallOK
    <3> QED
      BY <1>1, <2>1, <3>1 DEF CallOK, Live
  <2>3. CASE rpc[c].at \notin Holding
    BY <2>1, <2>3 DEF CallOK, Holding
  <2> QED
    BY <2>2, <2>3
<1> QED
  BY <1>2, <1>3, <1>4, <1>5, <1>6, <1>7 DEF DisksOK, SlotsOK, CallsOK

LEMMA ProcessRequestStep ==
  ASSUME IInv, ProcessRequest
  PROVE  IInv'
<1>0. UNCHANGED <<diskMap, rpc, pdo, known, busy, ready, term, handler, status, scm>>
  BY DEF ProcessRequest, driverVars, scmVars
<1>1. RunAndScmTypes /\ RunOK /\ ServiceTypes /\ DriverTypes /\ DisksOK
  BY IInvParts
<1>2. PICK d \in Procs : d = run.disk /\ req \in Procs /\ MayHave(d, req)
  BY <1>1 DEF ProcessRequest, RunOK, RunAndScmTypes, RunTypes
<1>3. /\ run' = [at |-> "wait", disk |-> None] /\ irp' = "pending" /\ req' = None
  BY DEF ProcessRequest
<1>4. RunAndScmTypes'
  BY <1>0, <1>1, <1>3 DEF RunAndScmTypes, RunTypes, RunPlaces
<1>5. RunOK'
  BY <1>3 DEF RunOK
<1>6. DriverTypes'
  BY <1>0, <1>1 DEF DriverTypes
<1>7. CASE Live(d)
  <2>1. proc' = [proc EXCEPT ![d].slot = req, ![d].ready = TRUE]
    BY <1>2, <1>7 DEF ProcessRequest
  <2>2. proc[d] \in ProcTypes
    BY <1>1, <1>2 DEF ServiceTypes
  <2>3. /\ proc' \in [Procs -> ProcTypes]
        /\ \A e \in Procs \ {d} : proc'[e] = proc[e]
        /\ proc'[d] = [proc[d] EXCEPT !.slot = req, !.ready = TRUE]
    BY <1>1, <1>2, <2>1, <2>2 DEF ServiceTypes, ProcTypes
  <2>4. /\ proc'[d].object = proc[d].object /\ proc'[d].id = proc[d].id
        /\ proc'[d].deletes = proc[d].deletes /\ proc'[d].remove = proc[d].remove
        /\ proc'[d].worker = proc[d].worker /\ proc'[d].slot = req
    BY <2>2, <2>3 DEF ProcTypes
  <2>5. proc[d].worker \in {"wait", "work"}
    BY <1>1, <1>2, <1>7 DEF DisksOK, DiskOK
  <2>6. proc'[req].id = proc[req].id
    BY <1>2, <2>3, <2>4
  <2>7. SlotOK(d)'
    BY <1>0, <1>2, <2>4, <2>6, DiskServiceAssumption DEF SlotOK, MayHave
  <2>8. ServiceTypes' /\ DisksOK' /\ SlotsOK' /\ MapOK' /\ CallsOK'
    BY <1>0, <1>2, <1>7, <2>3, <2>4, <2>5, <2>7, WorkStep
  <2> QED
    BY <1>4, <1>5, <1>6, <2>8, NextIInv
<1>8. CASE ~ Live(d)
  <2>1. proc' = proc
    BY <1>2, <1>8 DEF ProcessRequest
  <2>2. ServiceTypes'
    BY <1>0, <1>1, <2>1 DEF ServiceTypes
  <2> QED
    BY <1>0, <1>4, <1>5, <1>6, <2>1, <2>2, SameDisks, SameCalls, NextIInv
<1> QED
  BY <1>7, <1>8

LEMMA ServeRequestStep ==
  ASSUME IInv, NEW d \in Procs, ServeRequest(d)
  PROVE  IInv'
<1>0. UNCHANGED <<diskMap, rpc, pdo, known, busy, ready, run, irp, req, term, handler, status, scm>>
  BY DEF ServeRequest, runVars, scmVars, driverVars
<1>1. RunAndScmTypes /\ RunOK /\ ServiceTypes /\ DriverTypes /\ DisksOK /\ SlotsOK
  BY IInvParts
<1>2. proc[d] \in ProcTypes /\ DiskOK(d) /\ SlotOK(d)
  BY <1>1 DEF ServiceTypes, DisksOK, SlotsOK
<1>3. Live(d)
  BY <1>2 DEF ServeRequest, DiskOK, ProcTypes, NoProc, Live
<1>4. /\ proc' \in [Procs -> ProcTypes]
      /\ \A e \in Procs \ {d} : proc'[e] = proc[e]
      /\ proc'[d] = [proc[d] EXCEPT !.ready = FALSE, !.worker = "work"]
  BY <1>1, <1>2 DEF ServeRequest, ServiceTypes, ProcTypes, WorkerPlaces
<1>5. /\ proc'[d].object = proc[d].object /\ proc'[d].id = proc[d].id
      /\ proc'[d].deletes = proc[d].deletes /\ proc'[d].remove = proc[d].remove
      /\ proc'[d].worker = "work" /\ proc'[d].slot = proc[d].slot
  BY <1>2, <1>4 DEF ProcTypes
<1>6. \A e \in Procs : proc'[e].id = proc[e].id
  BY <1>4, <1>5
<1>7. proc[d].slot # None /\ proc[d].slot \in Procs
  BY <1>2 DEF ServeRequest, SlotOK, ProcTypes
<1>8. SlotOK(d)'
  BY <1>0, <1>2, <1>5, <1>6, <1>7 DEF SlotOK, MayHave
<1>9. ServiceTypes' /\ DisksOK' /\ SlotsOK' /\ MapOK' /\ CallsOK'
  BY <1>0, <1>3, <1>4, <1>5, <1>8, WorkStep
<1>10. DriverTypes' /\ RunAndScmTypes'
  BY <1>0, <1>1 DEF DriverTypes, RunAndScmTypes
<1>11. RunOK'
  BY <1>0, <1>1, <1>6 DEF RunOK, MayHave, RunAndScmTypes, RunTypes
<1> QED
  BY <1>9, <1>10, <1>11, NextIInv

LEMMA SendReplyStep ==
  ASSUME IInv, NEW d \in Procs, SendReply(d)
  PROVE  IInv'
<1>0. UNCHANGED <<diskMap, rpc, pdo, run, irp, req, term, handler, status, scm>>
  BY DEF SendReply, runVars, scmVars
<1>1. RunAndScmTypes /\ RunOK /\ ServiceTypes /\ DriverTypes /\ DisksOK /\ SlotsOK
  BY IInvParts
<1>2. proc[d] \in ProcTypes /\ DiskOK(d) /\ SlotOK(d)
  BY <1>1 DEF ServiceTypes, DisksOK, SlotsOK
<1>3. Live(d)
  BY <1>2 DEF SendReply, DiskOK, ProcTypes, NoProc, Live
<1>4. PICK s \in {proc[d].slot, None} :
        /\ proc[d].ready => s = proc[d].slot
        /\ proc' = [proc EXCEPT ![d].worker = "wait", ![d].slot = s]
  BY <1>1 DEF SendReply
<1>5. /\ proc' \in [Procs -> ProcTypes]
      /\ \A e \in Procs \ {d} : proc'[e] = proc[e]
      /\ proc'[d] = [proc[d] EXCEPT !.worker = "wait", !.slot = s]
  BY <1>1, <1>2, <1>4 DEF ServiceTypes, ProcTypes, WorkerPlaces
<1>6. /\ proc'[d].object = proc[d].object /\ proc'[d].id = proc[d].id
      /\ proc'[d].deletes = proc[d].deletes /\ proc'[d].remove = proc[d].remove
      /\ proc'[d].worker = "wait" /\ proc'[d].slot = s /\ proc'[d].ready = proc[d].ready
  BY <1>2, <1>5 DEF ProcTypes
<1>7. \A e \in Procs : proc'[e].id = proc[e].id
  BY <1>5, <1>6
<1>8. SlotOK(d)'
  <2>1. proc[d].slot \in Procs \cup {None}
    BY <1>2 DEF ProcTypes
  <2>2. proc'[d].ready => proc'[d].slot # None
    BY <1>2, <1>4, <1>6 DEF SlotOK
  <2>3. ASSUME proc'[d].slot # None PROVE MayHave(d, proc[d].slot)'
    <3>1. proc'[d].slot = proc[d].slot /\ proc[d].slot \in Procs
      BY <1>4, <1>6, <2>1, <2>3
    <3>2. MayHave(d, proc[d].slot)
      BY <1>2, <2>3, <3>1 DEF SlotOK
    <3> QED
      BY <1>0, <1>7, <3>1, <3>2 DEF MayHave
  <2> QED
    BY <1>6, <2>2, <2>3 DEF SlotOK, MayHave
<1>9. ServiceTypes' /\ DisksOK' /\ SlotsOK' /\ MapOK' /\ CallsOK'
  BY <1>0, <1>3, <1>5, <1>6, <1>8, WorkStep
<1>10. DriverTypes' /\ RunAndScmTypes'
  BY <1>0, <1>1 DEF DriverTypes, RunAndScmTypes, SendReply
<1>11. RunOK'
  BY <1>0, <1>1, <1>7 DEF RunOK, MayHave, RunAndScmTypes, RunTypes
<1> QED
  BY <1>9, <1>10, <1>11, NextIInv

-----------------------------------------------------------------------------
(* A thread goes on in AddDisk, and neither disks nor container change. *)
LEMMA CallStep ==
  ASSUME IInv, NEW c \in Callers, NEW r \in RpcTypes, rpc' = [rpc EXCEPT ![c] = r],
         UNCHANGED <<diskMap, proc, pdo, known, busy, ready, run, irp, req, term, handler, status, scm>>,
         r.disk \in {None, rpc[c].disk}, CallOK(c)'
  PROVE  IInv'
<1>1. /\ RunAndScmTypes /\ RunOK /\ ServiceTypes /\ DriverTypes /\ CallsOK
  BY IInvParts
<1>2. ServiceTypes' /\ DriverTypes' /\ RunAndScmTypes'
  BY <1>1 DEF ServiceTypes, DriverTypes, RunAndScmTypes
<1>3. rpc'[c] = r /\ \A e \in Callers \ {c} : rpc'[e] = rpc[e]
  BY <1>1 DEF ServiceTypes
<1>4. Apart'
  BY <1>1, <1>3 DEF CallsOK, Apart
<1>5. ASSUME NEW e \in Callers PROVE CallOK(e)'
  <2>1. CASE e = c
    BY <2>1
  <2>2. CASE e # c
    BY <1>1, <1>3, <2>2 DEF CallsOK, CallOK, Live
  <2> QED
    BY <2>1, <2>2
<1>6. CallsOK'
  BY <1>4, <1>5 DEF CallsOK
<1> QED
  BY <1>2, <1>6, SameDisks, SameRun, NextIInv

LEMMA RpcStep ==
  ASSUME IInv, NEW c \in Callers,
         \/ \E i \in Ids : AddDisk(c, i)
         \/ CreateFails(c) \/ RegisterWithDriver(c) \/ Refused(c)
  PROVE  IInv'
<1> USE DiskServiceAssumption
<1>0. UNCHANGED <<diskMap, proc, pdo, known, busy, ready, run, irp, req, term, handler, status, scm>>
  BY DEF AddDisk, CreateFails, RegisterWithDriver, Refused, runVars, scmVars, driverVars
<1>1. ServiceTypes /\ CallsOK
  BY IInvParts
<1>2. rpc[c] \in RpcTypes /\ CallOK(c)
  BY <1>1 DEF ServiceTypes, CallsOK
<1>3. ASSUME NEW i \in Ids, AddDisk(c, i) PROVE IInv'
  <2> DEFINE r == [at |-> "create", id |-> i, disk |-> None]
  <2>1. rpc' = [rpc EXCEPT ![c] = r] /\ rpc'[c] = r /\ r \in RpcTypes
    BY <1>1, <1>3 DEF AddDisk, RpcTypes, RpcPlaces, ServiceTypes
  <2>2. CallOK(c)'
    BY <2>1 DEF CallOK, Holding
  <2> QED
    BY <1>0, <2>1, <2>2, CallStep
<1>4. CASE CreateFails(c)
  <2>1. rpc' = [rpc EXCEPT ![c] = User] /\ rpc'[c] = User /\ User \in RpcTypes
    BY <1>1, <1>4 DEF CreateFails, Return, User, RpcTypes, RpcPlaces, ServiceTypes
  <2>2. CallOK(c)' /\ User.disk = None
    BY <2>1 DEF CallOK, Holding, User
  <2> QED
    BY <1>0, <2>1, <2>2, CallStep
<1>5. ASSUME NEW at \in {"driver", "undo"}, rpc[c].at \in {"register", "driver"},
             rpc' = [rpc EXCEPT ![c].at = at]
      PROVE  IInv'
  <2> DEFINE r == [rpc[c] EXCEPT !.at = at]
  <2>1. /\ rpc' = [rpc EXCEPT ![c] = r] /\ rpc'[c] = r /\ r \in RpcTypes
        /\ r.at = at /\ r.id = rpc[c].id /\ r.disk = rpc[c].disk
    BY <1>1, <1>2, <1>5 DEF ServiceTypes, RpcTypes, RpcPlaces
  <2>2. CallOK(c)'
    BY <1>0, <1>2, <1>5, <2>1 DEF CallOK, Holding, Live
  <2> QED
    BY <1>0, <2>1, <2>2, CallStep
<1>6. CASE RegisterWithDriver(c) \/ Refused(c)
  BY <1>5, <1>6 DEF RegisterWithDriver, Refused, GoTo
<1> QED
  BY <1>3, <1>4, <1>6

-----------------------------------------------------------------------------
(* The steps that change what there is: of the processors, the PDOs and    *)
(* the container only d's. *)
Touches(d) ==
  /\ \A e \in Procs \ {d} : proc'[e] = proc[e] /\ pdo'[e] = pdo[e]
  /\ proc[d].id # None => proc'[d].id = proc[d].id
  /\ proc'[d].slot = proc[d].slot /\ proc'[d].ready = proc[d].ready
  /\ proc'[d].worker = "work" => proc[d].worker = "work"
  /\ pdo[d] # "none" => pdo'[d] # "none"
  /\ pdo[d] = "destroyed" => pdo'[d] = "destroyed"
  /\ \A i \in Ids :
       \/ diskMap'[i] = diskMap[i]
       \/ diskMap[i] \in {None, d} /\ diskMap'[i] = None
       \/ diskMap[i] = None /\ diskMap'[i] = d /\ proc'[d].id = i

(* What the threads hold other than d is not touched. *)
LEMMA OtherCall ==
  ASSUME IInv, NEW d \in Procs, Touches(d), NEW c \in Callers,
         rpc'[c] = rpc[c], rpc[c].disk # d
  PROVE  CallOK(c)'
<1>0. CallOK(c) /\ rpc[c] \in RpcTypes
  BY IInvParts DEF CallsOK, ServiceTypes
<1>1. CASE rpc[c].at \in Holding
  <2>1. rpc[c].disk \in Procs \ {d} /\ rpc[c].id \in Ids /\ rpc[c].disk # None
    BY <1>0, <1>1, DiskServiceAssumption DEF CallOK, Holding
  <2>2. proc'[rpc[c].disk] = proc[rpc[c].disk] /\ pdo'[rpc[c].disk] = pdo[rpc[c].disk]
    BY <2>1 DEF Touches
  <2>3. diskMap[rpc[c].id] = rpc[c].disk => diskMap'[rpc[c].id] = rpc[c].disk
    BY <2>1 DEF Touches
  <2> QED
    BY <1>0, <2>1, <2>2, <2>3 DEF CallOK, Live
<1>2. CASE rpc[c].at \notin Holding
  BY <1>0, <1>2 DEF CallOK, Holding
<1> QED
  BY <1>1, <1>2

LEMMA TouchesIds ==
  ASSUME IInv, NEW d \in Procs, Touches(d), NEW e \in Procs, NEW f \in Procs,
         MayHave(e, f)
  PROVE  MayHave(e, f)'
<1>1. CASE e = f
  BY <1>1 DEF MayHave
<1>2. CASE e # f
  <2>1. pdo[f] = "destroyed" /\ proc[f].id = proc[e].id
    BY <1>2 DEF MayHave
  <2>2. DiskOK(f)
    BY IInvParts DEF DisksOK
  <2>3. proc[f].id # None
    BY <2>1, <2>2, DiskServiceAssumption DEF DiskOK
  <2>4. proc'[e].id = proc[e].id /\ proc'[f].id = proc[f].id
    BY <2>1, <2>3 DEF Touches
  <2>5. pdo'[f] = "destroyed"
    BY <2>1 DEF Touches
  <2> QED
    BY <2>1, <2>4, <2>5 DEF MayHave
<1> QED
  BY <1>1, <1>2

LEMMA TouchStep ==
  ASSUME IInv, NEW d \in Procs, Touches(d), ServiceTypes', DriverTypes', CallsOK',
         DiskOK(d)', UNCHANGED <<run, irp, req, term, handler, status, scm>>
  PROVE  IInv'
<1>0. ServiceTypes /\ RunAndScmTypes /\ DisksOK /\ SlotsOK /\ MapOK /\ RunOK
  BY IInvParts
<1>1. RunAndScmTypes'
  BY <1>0 DEF RunAndScmTypes
<1>2. ASSUME NEW e \in Procs PROVE DiskOK(e)'
  <2>1. CASE e = d
    BY <2>1
  <2>2. CASE e # d
    <3>1. DiskOK(e) /\ proc'[e] = proc[e] /\ pdo'[e] = pdo[e]
      BY <1>0, <2>2 DEF DisksOK, Touches
    <3>2. ASSUME proc[e].id \in Ids, diskMap[proc[e].id] = e
          PROVE  diskMap'[proc[e].id] = e
      BY <2>2, <3>2, DiskServiceAssumption DEF Touches
    <3>3. proc[e].object = "none" \/ proc[e].id \in Ids
      BY <3>1 DEF DiskOK
    <3>4. proc[e].object = "none" => pdo[e] = "none" /\ proc[e].worker = "none"
      BY <3>1 DEF DiskOK, NoProc
    <3> QED
      BY <3>1, <3>2, <3>3, <3>4 DEF DiskOK, Live, InDriver
  <2> QED
    BY <2>1, <2>2
<1>3. ASSUME NEW e \in Procs PROVE SlotOK(e)'
  <2>1. /\ proc'[e].slot = proc[e].slot /\ proc'[e].ready = proc[e].ready
        /\ proc'[e].worker = "work" => proc[e].worker = "work"
    BY DEF Touches
  <2>2. SlotOK(e) /\ proc[e].slot \in Procs \cup {None}
    BY <1>0 DEF SlotsOK, ServiceTypes, ProcTypes
  <2>3. ASSUME proc'[e].slot # None PROVE MayHave(e, proc[e].slot)'
    <3>1. PICK f \in Procs : f = proc[e].slot /\ f = proc'[e].slot /\ MayHave(e, f)
      BY <2>1, <2>2, <2>3 DEF SlotOK
    <3>2. MayHave(e, f)'
      BY <3>1, TouchesIds
    <3> QED
      BY <3>1, <3>2 DEF MayHave
  <2> QED
    BY <2>1, <2>2, <2>3 DEF SlotOK, MayHave
<1>4. ASSUME NEW i \in Ids, diskMap'[i] # None PROVE proc'[diskMap'[i]].id = i
  <2>1. (diskMap'[i] = d /\ proc'[d].id = i) \/ diskMap'[i] = diskMap[i]
    BY <1>4 DEF Touches
  <2>2. CASE diskMap'[i] = diskMap[i]
    <3>1. diskMap[i] \in Procs /\ proc[diskMap[i]].id = i /\ i # None
      BY <1>0, <1>4, <2>2, DiskServiceAssumption DEF ServiceTypes, MapOK
    <3> QED
      BY <2>2, <3>1 DEF Touches
  <2> QED
    BY <2>1, <2>2
<1>5. RunOK'
  <2>1. CASE irp = "done" \/ run.at = "use"
    <3>1. req \in Procs /\ pdo[req] # "none"
      BY <1>0, <2>1 DEF RunOK, RunAndScmTypes
    <3>2. pdo'[req] # "none"
      BY <3>1 DEF Touches
    <3>3. ASSUME run.at = "use" PROVE MayHave(run.disk, req)'
      <4>1. PICK e \in Procs, f \in Procs : e = run.disk /\ f = req /\ MayHave(e, f)
        BY <1>0, <3>1, <3>3 DEF RunOK, RunAndScmTypes, RunTypes
      <4>2. MayHave(e, f)'
        BY <4>1, TouchesIds
      <4> QED
        BY <4>1, <4>2 DEF MayHave
    <3> QED
      BY <1>0, <3>1, <3>2, <3>3 DEF RunOK
  <2>2. CASE ~ (irp = "done" \/ run.at = "use")
    BY <2>2 DEF RunOK
  <2> QED
    BY <2>1, <2>2
<1> QED
  BY <1>1, <1>2, <1>3, <1>4, <1>5, NextIInv DEF DisksOK, SlotsOK, MapOK

(* No thread is adding a disk the driver has or had. *)
LEMMA NotHeld ==
  ASSUME IInv, NEW d \in Procs, pdo[d] # "none" \/ proc[d].object = "none",
         NEW c \in Callers
  PROVE  rpc[c].disk # d
<1>0. CallOK(c) /\ rpc[c] \in RpcTypes /\ DiskOK(d)
  BY IInvParts DEF CallsOK, ServiceTypes, DisksOK
<1>1. CASE rpc[c].at \in Holding
  BY <1>0, <1>1, DiskServiceAssumption DEF CallOK, Holding, DiskOK, NoProc
<1>2. CASE rpc[c].at \notin Holding
  <2>1. rpc[c].at \in {"user", "create"}
    BY <1>0, <1>2 DEF RpcTypes, RpcPlaces, Holding
  <2> QED
    BY <1>0, <2>1, DiskServiceAssumption DEF CallOK, User
<1> QED
  BY <1>1, <1>2

(* The thread c goes on with d, which it alone has. *)
LEMMA OneCall ==
  ASSUME IInv, NEW d \in Procs, Touches(d), NEW c \in Callers, NEW r \in RpcTypes,
         rpc' = [rpc EXCEPT ![c] = r], r.disk \in {None, d}, CallOK(c)',
         \A e \in Callers \ {c} : rpc[e].disk # d
  PROVE  CallsOK'
<1>1. rpc'[c] = r /\ \A e \in Callers \ {c} : rpc'[e] = rpc[e]
  BY IInvParts DEF ServiceTypes
<1>2. \A e \in Callers : CallOK(e)'
  BY <1>1, OtherCall
<1>3. Apart'
  BY <1>1, IInvParts DEF CallsOK, Apart
<1> QED
  BY <1>2, <1>3 DEF CallsOK

-----------------------------------------------------------------------------
(* delete of a processor. *)
LEMMA DeletedFields ==
  ASSUME NEW r \in ProcTypes, r.deletes \in {0, 1}
  PROVE  /\ Deleted(r) \in ProcTypes
         /\ Deleted(r).object = "deleted" /\ Deleted(r).deletes = r.deletes + 1
         /\ Deleted(r).id = r.id /\ Deleted(r).slot = r.slot
         /\ Deleted(r).ready = r.ready /\ Deleted(r).remove = r.remove
         /\ Deleted(r).worker = IF r.worker \in {"wait", "work"} THEN "wild" ELSE r.worker
<1>1. PICK w \in WorkerPlaces :
        w = IF r.worker \in {"wait", "work"} THEN "wild" ELSE r.worker
  BY DEF ProcTypes, WorkerPlaces
<1>2. PICK n \in 0 .. 2 : n = r.deletes + 1
  OBVIOUS
<1>3. Deleted(r) = [r EXCEPT !.object = "deleted", !.deletes = n, !.worker = w]
  BY <1>1, <1>2 DEF Deleted
<1>4. Deleted(r) \in ProcTypes
  BY <1>3 DEF ProcTypes
<1> QED
  BY <1>1, <1>2, <1>3, <1>4 DEF ProcTypes

LEMMA ReturnedCall ==
  ASSUME rpc \in [Callers -> RpcTypes], NEW c \in Callers, Return(c)
  PROVE  rpc' = [rpc EXCEPT ![c] = User] /\ User \in RpcTypes /\ User.disk = None
         /\ CallOK(c)'
BY DEF Return, User, RpcTypes, RpcPlaces, CallOK, Holding

LEMMA GoneTo ==
  ASSUME rpc \in [Callers -> RpcTypes], NEW c \in Callers, NEW at \in RpcPlaces,
         GoTo(c, at)
  PROVE  \E r \in RpcTypes : /\ rpc' = [rpc EXCEPT ![c] = r] /\ rpc'[c] = r
                             /\ r.at = at /\ r.id = rpc[c].id /\ r.disk = rpc[c].disk
<1> DEFINE r == [rpc[c] EXCEPT !.at = at]
<1>1. /\ r \in RpcTypes /\ r.at = at /\ r.id = rpc[c].id /\ r.disk = rpc[c].disk
  BY DEF RpcTypes
<1>2. rpc' = [rpc EXCEPT ![c] = r] /\ rpc'[c] = r
  BY DEF GoTo
<1> QED
  BY <1>1, <1>2

LEMMA CreateStep ==
  ASSUME IInv, NEW c \in Callers, NEW d \in Procs, CreateDiskProcessor(c, d)
  PROVE  IInv'
<1> USE DiskServiceAssumption
<1>0. UNCHANGED <<diskMap, pdo, known, busy, ready, run, irp, req, term, handler, status, scm>>
  BY DEF CreateDiskProcessor, runVars, scmVars, driverVars
<1>1. /\ ServiceTypes /\ DriverTypes /\ DiskOK(d) /\ CallOK(c) /\ rpc[c] \in RpcTypes
  BY IInvParts DEF DisksOK, CallsOK, ServiceTypes
<1>2. /\ rpc[c].at = "create" /\ rpc[c].id \in Ids
      /\ proc[d] = NoProc /\ proc[d].object = "none" /\ proc[d].id = None
      /\ pdo[d] = "none"
  BY <1>1 DEF CreateDiskProcessor, CallOK, DiskOK, NoProc
<1> DEFINE i == rpc[c].id
           new == NewProc(i)
<1>3. /\ new \in ProcTypes /\ new.object = "live" /\ new.deletes = 0 /\ new.id = i
      /\ new.worker = "wait" /\ new.ready = FALSE /\ new.remove = FALSE
      /\ new.slot = None
  <2>1. /\ NoProc \in ProcTypes /\ NoProc.deletes = 0 /\ NoProc.ready = FALSE
        /\ NoProc.remove = FALSE /\ NoProc.slot = None
    BY DEF NoProc, ProcTypes, WorkerPlaces
  <2>2. new = [NoProc EXCEPT !.object = "live", !.id = i, !.worker = "wait"]
    BY DEF NewProc
  <2> HIDE DEF new
  <2> QED
    BY <1>2, <2>1, <2>2 DEF ProcTypes, WorkerPlaces
<1>4. proc' = [proc EXCEPT ![d] = new]
  BY DEF CreateDiskProcessor
<1> HIDE DEF new
<1>5. /\ proc' \in [Procs -> ProcTypes] /\ proc'[d] = new
      /\ \A e \in Procs \ {d} : proc'[e] = proc[e]
  BY <1>1, <1>3, <1>4 DEF ServiceTypes
<1>6. Touches(d)
  <2>1. proc[d].slot = None /\ proc[d].ready = FALSE
    BY <1>2 DEF NoProc
  <2> QED
    BY <1>0, <1>2, <1>3, <1>5, <2>1 DEF Touches
<1>7. PICK r \in RpcTypes : /\ rpc' = [rpc EXCEPT ![c] = r] /\ rpc'[c] = r
                            /\ r.at = "insert" /\ r.id = i /\ r.disk = d
  <2> DEFINE r == [rpc[c] EXCEPT !.at = "insert", !.disk = d]
  <2>1. r \in RpcTypes /\ r.at = "insert" /\ r.id = i /\ r.disk = d
    BY <1>1 DEF RpcTypes, RpcPlaces
  <2>2. rpc' = [rpc EXCEPT ![c] = r] /\ rpc'[c] = r
    BY <1>1 DEF CreateDiskProcessor, ServiceTypes
  <2> QED
    BY <2>1, <2>2
<1>8. DiskOK(d)'
  BY <1>0, <1>2, <1>3, <1>5 DEF DiskOK, Live, InDriver
<1>9. CallOK(c)'
  BY <1>0, <1>2, <1>3, <1>5, <1>7 DEF CallOK, Holding, Live
<1>10. CallsOK'
  BY <1>2, <1>6, <1>7, <1>9, NotHeld, OneCall
<1>11. ServiceTypes' /\ DriverTypes'
  BY <1>0, <1>1, <1>5, <1>7 DEF ServiceTypes, DriverTypes
<1> QED
  BY <1>0, <1>6, <1>8, <1>10, <1>11, TouchStep

(* The processor a thread of AddDisk holds. *)
LEMMA HeldDisk ==
  ASSUME IInv, NEW c \in Callers, rpc[c].at \in Holding
  PROVE  \E d \in Procs :
           /\ d = rpc[c].disk /\ proc[d] \in ProcTypes /\ pdo[d] = "none"
           /\ proc[d].id = rpc[c].id /\ rpc[c].id \in Ids
           /\ ~ proc[d].remove /\ proc[d].worker # "erase"
           /\ \A e \in Callers \ {c} : rpc[e].disk # d
           /\ rpc[c].at # "erase" => /\ Live(d) /\ proc[d].deletes = 0
                                     /\ proc[d].worker \in {"wait", "work"}
<1>1. CallOK(c) /\ Apart /\ ServiceTypes
  BY IInvParts DEF CallsOK
<1>2. PICK d \in Procs : d = rpc[c].disk
  BY <1>1 DEF CallOK
<1>3. DiskOK(d) /\ proc[d] \in ProcTypes
  BY IInvParts DEF DisksOK, ServiceTypes
<1>4. pdo[d] = "none" /\ proc[d].id = rpc[c].id /\ rpc[c].id \in Ids
  BY <1>1, <1>2 DEF CallOK, Holding
<1>5. \A e \in Callers \ {c} : rpc[e].disk # d
  BY <1>1, <1>2, DiskServiceAssumption DEF Apart
<1>6. rpc[c].at # "erase" => Live(d)
  BY <1>1, <1>2 DEF CallOK, Holding
<1>7. ~ proc[d].remove /\ proc[d].worker # "erase"
  BY <1>3, <1>4 DEF DiskOK
<1>8. rpc[c].at # "erase" => proc[d].deletes = 0 /\ proc[d].worker \in {"wait", "work"}
  BY <1>3, <1>6 DEF DiskOK
<1> QED
  BY <1>2, <1>3, <1>4, <1>5, <1>6, <1>7, <1>8

(* Deleting d, and nothing else. *)
LEMMA DeleteOne ==
  ASSUME IInv, NEW d \in Procs, proc[d].deletes = 0, pdo[d] = "none",
         proc[d].worker \in {"wait", "work"}, ~ proc[d].remove, proc[d].id \in Ids,
         UNCHANGED <<diskMap, pdo>>, proc' = [proc EXCEPT ![d] = Deleted(@)]
  PROVE  Touches(d) /\ DiskOK(d)' /\ proc' \in [Procs -> ProcTypes]
         /\ proc'[d].id = proc[d].id
<1>0. proc \in [Procs -> ProcTypes] /\ proc[d] \in ProcTypes
  BY IInvParts DEF ServiceTypes
<1>1. /\ proc' \in [Procs -> ProcTypes] /\ proc'[d] = Deleted(proc[d])
      /\ \A e \in Procs \ {d} : proc'[e] = proc[e]
  BY <1>0, DeletedFields
<1>2. /\ proc'[d].object = "deleted" /\ proc'[d].deletes = 1
      /\ proc'[d].id = proc[d].id /\ proc'[d].slot = proc[d].slot
      /\ proc'[d].ready = proc[d].ready /\ proc'[d].remove = proc[d].remove
      /\ proc'[d].worker = "wild"
  BY <1>0, <1>1, DeletedFields
<1>3. Touches(d)
  BY <1>1, <1>2 DEF Touches
<1>4. DiskOK(d)'
  BY <1>2 DEF DiskOK, Live, InDriver
<1> QED
  BY <1>1, <1>2, <1>3, <1>4

LEMMA InsertStep ==
  ASSUME IInv, NEW c \in Callers, InsertDisk(c)
  PROVE  IInv'
<1>0. UNCHANGED <<pdo, known, busy, ready, run, irp, req, term, handler, status, scm>>
  BY DEF InsertDisk, runVars, scmVars, driverVars
<1>1. /\ ServiceTypes /\ DriverTypes
  BY IInvParts
<1>2. rpc[c].at = "insert" /\ rpc[c].at \in Holding
  BY DEF InsertDisk, Holding
<1>3. PICK d \in Procs :
        /\ d = rpc[c].disk /\ proc[d] \in ProcTypes /\ pdo[d] = "none"
        /\ proc[d].id = rpc[c].id /\ rpc[c].id \in Ids
        /\ ~ proc[d].remove /\ Live(d) /\ proc[d].deletes = 0
        /\ proc[d].worker \in {"wait", "work"}
        /\ \A e \in Callers \ {c} : rpc[e].disk # d
  BY <1>2, HeldDisk
<1>4. DriverTypes'
  BY <1>0, <1>1 DEF DriverTypes
<1>5. CASE diskMap[rpc[c].id] = None
  <2>1. /\ diskMap' = [diskMap EXCEPT ![rpc[c].id] = d] /\ proc' = proc
        /\ GoTo(c, "register")
    BY <1>3, <1>5 DEF InsertDisk
  <2>2. /\ diskMap' \in [Ids -> Procs \cup {None}] /\ diskMap'[rpc[c].id] = d
        /\ \A i \in Ids \ {rpc[c].id} : diskMap'[i] = diskMap[i]
    BY <1>1, <1>3, <2>1 DEF ServiceTypes
  <2>3. Touches(d)
    BY <1>0, <1>3, <1>5, <2>1, <2>2 DEF Touches
  <2>4. PICK r \in RpcTypes :
          /\ rpc' = [rpc EXCEPT ![c] = r] /\ rpc'[c] = r
          /\ r.at = "register" /\ r.id = rpc[c].id /\ r.disk = d
    BY <1>1, <1>3, <2>1, GoneTo DEF ServiceTypes, RpcPlaces
  <2>5. DiskOK(d)'
    BY <1>0, <1>3, <2>1, <2>2 DEF DiskOK, Live, InDriver
  <2>6. CallOK(c)'
    BY <1>0, <1>3, <2>1, <2>2, <2>4 DEF CallOK, Holding, Live
  <2>7. CallsOK'
    BY <1>3, <2>3, <2>4, <2>6, OneCall
  <2>8. ServiceTypes'
    BY <1>1, <2>1, <2>2, <2>4 DEF ServiceTypes
  <2> QED
    BY <1>0, <1>4, <2>3, <2>5, <2>7, <2>8, TouchStep
<1>6. CASE diskMap[rpc[c].id] # None
  <2>1. /\ diskMap' = diskMap /\ Return(c)
        /\ proc' = [proc EXCEPT ![d] = Deleted(@)]
    BY <1>3, <1>6 DEF InsertDisk
  <2>2. Touches(d) /\ DiskOK(d)' /\ proc' \in [Procs -> ProcTypes]
    BY <1>0, <1>3, <2>1, DeleteOne
  <2>3. /\ rpc' = [rpc EXCEPT ![c] = User] /\ User \in RpcTypes /\ User.disk = None
        /\ CallOK(c)'
    BY <1>1, <2>1, ReturnedCall DEF ServiceTypes
  <2>4. CallsOK'
    BY <1>3, <2>2, <2>3, OneCall
  <2>5. ServiceTypes'
    BY <1>1, <2>1, <2>2, <2>3 DEF ServiceTypes
  <2> QED
    BY <1>0, <1>4, <2>2, <2>4, <2>5, TouchStep
<1> QED
  BY <1>5, <1>6

LEMMA AcceptedStep ==
  ASSUME IInv, NEW c \in Callers, Accepted(c)
  PROVE  IInv'
<1>0. UNCHANGED <<diskMap, proc, known, busy, ready, run, irp, req, term, handler, status,
                  scm>>
  BY DEF Accepted, runVars, scmVars
<1>1. ServiceTypes /\ DriverTypes /\ CallOK(c)
  BY IInvParts DEF CallsOK
<1>2. rpc[c].at = "driver" /\ rpc[c].at \in Holding
  BY DEF Accepted, Holding
<1>3. PICK d \in Procs :
        /\ d = rpc[c].disk /\ proc[d] \in ProcTypes /\ pdo[d] = "none"
        /\ proc[d].id = rpc[c].id /\ rpc[c].id \in Ids
        /\ ~ proc[d].remove /\ Live(d) /\ proc[d].deletes = 0
        /\ proc[d].worker \in {"wait", "work"}
        /\ \A e \in Callers \ {c} : rpc[e].disk # d
  BY <1>2, HeldDisk
<1>4. diskMap[proc[d].id] = d
  BY <1>1, <1>2, <1>3 DEF CallOK
<1>5. /\ pdo' \in [Procs -> PdoStates] /\ pdo'[d] = "present"
      /\ \A e \in Procs \ {d} : pdo'[e] = pdo[e]
  BY <1>1, <1>3 DEF Accepted, DriverTypes, PdoStates
<1>6. Touches(d)
  BY <1>0, <1>3, <1>5 DEF Touches
<1>7. /\ rpc' = [rpc EXCEPT ![c] = User] /\ User \in RpcTypes /\ User.disk = None
      /\ CallOK(c)'
  BY <1>1, ReturnedCall DEF Accepted, ServiceTypes
<1>8. CallsOK'
  BY <1>3, <1>6, <1>7, OneCall
<1>9. DiskOK(d)'
  BY <1>0, <1>3, <1>4, <1>5 DEF DiskOK, Live, InDriver
<1>10. ServiceTypes' /\ DriverTypes'
  BY <1>0, <1>1, <1>5, <1>7 DEF ServiceTypes, DriverTypes
<1> QED
  BY <1>0, <1>6, <1>8, <1>9, <1>10, TouchStep

LEMMA UndoDeleteStep ==
  ASSUME IInv, NEW c \in Callers, UndoDelete(c)
  PROVE  IInv'
<1>0. UNCHANGED <<diskMap, pdo, known, busy, ready, run, irp, req, term, handler, status, scm>>
  BY DEF UndoDelete, runVars, scmVars, driverVars
<1>1. ServiceTypes /\ DriverTypes /\ CallOK(c)
  BY IInvParts DEF CallsOK
<1>2. rpc[c].at = "undo" /\ rpc[c].at \in Holding
  BY DEF UndoDelete, Holding
<1>3. PICK d \in Procs :
        /\ d = rpc[c].disk /\ proc[d] \in ProcTypes /\ pdo[d] = "none"
        /\ proc[d].id = rpc[c].id /\ rpc[c].id \in Ids
        /\ ~ proc[d].remove /\ Live(d) /\ proc[d].deletes = 0
        /\ proc[d].worker \in {"wait", "work"}
        /\ \A e \in Callers \ {c} : rpc[e].disk # d
  BY <1>2, HeldDisk
<1>4. diskMap[rpc[c].id] = d /\ d # None
  BY <1>1, <1>2, <1>3, DiskServiceAssumption DEF CallOK
<1>5. proc' = [proc EXCEPT ![d] = Deleted(@)] /\ GoTo(c, "erase")
  BY <1>4 DEF UndoDelete, DeleteFound
<1>6. /\ Touches(d) /\ DiskOK(d)' /\ proc' \in [Procs -> ProcTypes]
      /\ proc'[d].id = proc[d].id
  BY <1>0, <1>3, <1>5, DeleteOne
<1>7. PICK r \in RpcTypes :
        /\ rpc' = [rpc EXCEPT ![c] = r] /\ rpc'[c] = r
        /\ r.at = "erase" /\ r.id = rpc[c].id /\ r.disk = d
  BY <1>1, <1>3, <1>5, GoneTo DEF ServiceTypes, RpcPlaces
<1>8. CallOK(c)'
  BY <1>0, <1>3, <1>4, <1>6, <1>7 DEF CallOK, Holding, Live
<1>9. CallsOK'
  BY <1>3, <1>6, <1>7, <1>8, OneCall
<1>10. ServiceTypes' /\ DriverTypes'
  BY <1>0, <1>1, <1>6, <1>7 DEF ServiceTypes, DriverTypes
<1> QED
  BY <1>0, <1>6, <1>9, <1>10, TouchStep

LEMMA UndoEraseStep ==
  ASSUME IInv, NEW c \in Callers, UndoErase(c)
  PROVE  IInv'
<1>0. UNCHANGED <<proc, pdo, known, busy, ready, run, irp, req, term, handler, status, scm>>
  BY DEF UndoErase, runVars, scmVars, driverVars
<1>1. ServiceTypes /\ DriverTypes /\ CallOK(c) /\ DisksOK
  BY IInvParts DEF CallsOK
<1>2. rpc[c].at = "erase" /\ rpc[c].at \in Holding
  BY DEF UndoErase, Holding
<1>3. PICK d \in Procs :
        /\ d = rpc[c].disk /\ pdo[d] = "none" /\ rpc[c].id \in Ids
        /\ \A e \in Callers \ {c} : rpc[e].disk # d
  BY <1>2, HeldDisk
<1>4. diskMap[rpc[c].id] = d
  BY <1>1, <1>2, <1>3 DEF CallOK
<1>5. /\ diskMap' \in [Ids -> Procs \cup {None}] /\ diskMap'[rpc[c].id] = None
      /\ \A i \in Ids \ {rpc[c].id} : diskMap'[i] = diskMap[i]
  BY <1>1, <1>3 DEF UndoErase, ServiceTypes
<1>6. Touches(d)
  BY <1>0, <1>4, <1>5 DEF Touches
<1>7. /\ rpc' = [rpc EXCEPT ![c] = User] /\ User \in RpcTypes /\ User.disk = None
      /\ CallOK(c)'
  BY <1>1, ReturnedCall DEF UndoErase, ServiceTypes
<1>8. CallsOK'
  BY <1>3, <1>6, <1>7, OneCall
<1>9. DiskOK(d)'
  BY <1>0, <1>1, <1>3 DEF DisksOK, DiskOK, Live, InDriver
<1>10. ServiceTypes' /\ DriverTypes'
  BY <1>0, <1>1, <1>5, <1>7 DEF ServiceTypes, DriverTypes
<1> QED
  BY <1>0, <1>6, <1>8, <1>9, <1>10, TouchStep

(* The worker's disk is alive and in the container when RemoveEvent comes, *)
(* so that it is its own disk that RemoveDiskFinal finds under its number. *)
LEMMA RemoveDiskFinalStep ==
  ASSUME IInv, NEW d \in Procs, RemoveDiskFinal(d)
  PROVE  IInv'
<1>0. UNCHANGED <<diskMap, rpc, pdo, known, busy, ready, run, irp, req, term, handler, status, scm>>
  BY DEF RemoveDiskFinal, runVars, scmVars, driverVars
<1>1. ServiceTypes /\ DriverTypes /\ DiskOK(d) /\ proc[d] \in ProcTypes
  BY IInvParts DEF DisksOK, ServiceTypes
<1>2. proc[d].worker = "wait" /\ ~ proc[d].ready /\ pdo[d] = "destroyed"
  BY <1>1 DEF RemoveDiskFinal, DiskOK
<1>3. /\ Live(d) /\ proc[d].deletes = 0 /\ diskMap[proc[d].id] = d
      /\ proc[d].id \in Ids
  BY <1>1, <1>2 DEF DiskOK, Live, NoProc, ProcTypes
<1>4. proc' = [proc EXCEPT ![d] = [Deleted(proc[d]) EXCEPT !.worker = "erase"]]
  <2>1. DeleteFound(proc[d].id) = [proc EXCEPT ![d] = Deleted(@)]
    BY <1>3, DiskServiceAssumption DEF DeleteFound
  <2> QED
    BY <1>1, <2>1 DEF RemoveDiskFinal, ServiceTypes
<1> DEFINE r == [Deleted(proc[d]) EXCEPT !.worker = "erase"]
<1>5. /\ r \in ProcTypes /\ r.object = "deleted" /\ r.deletes = 1
      /\ r.id = proc[d].id /\ r.slot = proc[d].slot /\ r.ready = proc[d].ready
      /\ r.remove = proc[d].remove /\ r.worker = "erase"
  BY <1>1, <1>3, DeletedFields DEF ProcTypes, WorkerPlaces
<1>6. /\ proc' \in [Procs -> ProcTypes] /\ proc'[d] = r
      /\ \A e \in Procs \ {d} : proc'[e] = proc[e]
  BY <1>1, <1>4, <1>5 DEF ServiceTypes
<1> HIDE DEF r
<1>7. Touches(d)
  BY <1>0, <1>5, <1>6 DEF Touches
<1>8. DiskOK(d)'
  BY <1>0, <1>1, <1>2, <1>3, <1>5, <1>6 DEF DiskOK, Live, InDriver
<1>9. CallsOK'
  BY <1>0, <1>2, <1>7, NotHeld, OtherCall, IInvParts DEF CallsOK, Apart
<1>10. ServiceTypes' /\ DriverTypes'
  BY <1>0, <1>1, <1>6 DEF ServiceTypes, DriverTypes
<1> QED
  BY <1>0, <1>7, <1>8, <1>9, <1>10, TouchStep

LEMMA EraseDiskStep ==
  ASSUME IInv, NEW d \in Procs, EraseDisk(d)
  PROVE  IInv'
<1>0. UNCHANGED <<rpc, pdo, known, busy, ready, run, irp, req, term, handler, status, scm>>
  BY DEF EraseDisk, runVars, scmVars, driverVars
<1>1. ServiceTypes /\ DriverTypes /\ DiskOK(d) /\ proc[d] \in ProcTypes
  BY IInvParts DEF DisksOK, ServiceTypes
<1>2. /\ proc[d].worker = "erase" /\ pdo[d] = "destroyed"
      /\ proc[d].object = "deleted" /\ proc[d].id \in Ids /\ diskMap[proc[d].id] = d
  BY <1>1 DEF EraseDisk, DiskOK, Live, NoProc, ProcTypes
<1>3. /\ proc' \in [Procs -> ProcTypes]
      /\ proc'[d] = [proc[d] EXCEPT !.worker = "exited"]
      /\ \A e \in Procs \ {d} : proc'[e] = proc[e]
  BY <1>1 DEF EraseDisk, ServiceTypes, ProcTypes, WorkerPlaces
<1>4. /\ proc'[d].object = "deleted" /\ proc'[d].deletes = proc[d].deletes
      /\ proc'[d].id = proc[d].id /\ proc'[d].slot = proc[d].slot
      /\ proc'[d].ready = proc[d].ready /\ proc'[d].remove = proc[d].remove
      /\ proc'[d].worker = "exited"
  BY <1>1, <1>2, <1>3 DEF ProcTypes
<1>5. /\ diskMap' \in [Ids -> Procs \cup {None}] /\ diskMap'[proc[d].id] = None
      /\ \A i \in Ids \ {proc[d].id} : diskMap'[i] = diskMap[i]
  BY <1>1, <1>2 DEF EraseDisk, ServiceTypes
<1>6. Touches(d)
  BY <1>0, <1>2, <1>3, <1>4, <1>5 DEF Touches
<1>7. DiskOK(d)'
  BY <1>0, <1>1, <1>2, <1>4 DEF DiskOK, Live, InDriver
<1>8. CallsOK'
  BY <1>0, <1>2, <1>6, NotHeld, OtherCall, IInvParts DEF CallsOK, Apart
<1>9. ServiceTypes' /\ DriverTypes'
  BY <1>0, <1>1, <1>3, <1>5 DEF ServiceTypes, DriverTypes
<1> QED
  BY <1>0, <1>6, <1>7, <1>8, <1>9, TouchStep

-----------------------------------------------------------------------------
(* The driver. *)

LEMMA EnumerateStep ==
  ASSUME IInv, NEW d \in Procs, Enumerate(d)
  PROVE  IInv'
<1>1. UNCHANGED <<diskMap, proc, rpc, pdo, busy, ready, run, irp, req, term, handler, status,
                  scm>>
  BY DEF Enumerate, serviceVars, runVars, scmVars
<1>2. ServiceTypes' /\ RunAndScmTypes'
  BY <1>1, IInvParts DEF ServiceTypes, RunAndScmTypes
<1>3. DriverTypes'
  BY <1>1, IInvParts DEF DriverTypes, Enumerate
<1> QED
  BY <1>1, <1>2, <1>3, SameDisks, SameCalls, SameRun, NextIInv

LEMMA MissingStep ==
  ASSUME IInv, NEW d \in Procs, EjectDisk(d) \/ \E i \in Ids : RemoveDisk(i),
         pdo[d] = "present", pdo' = [pdo EXCEPT ![d] = "missing"]
  PROVE  IInv'
<1>0. UNCHANGED <<diskMap, proc, rpc, known, busy, ready, run, irp, req, term, handler,
                  status, scm>>
  BY DEF EjectDisk, RemoveDisk, serviceVars, runVars, scmVars
<1>1. ServiceTypes /\ DriverTypes /\ DiskOK(d)
  BY IInvParts DEF DisksOK
<1>2. /\ pdo' \in [Procs -> PdoStates] /\ pdo'[d] = "missing"
      /\ \A e \in Procs \ {d} : pdo'[e] = pdo[e]
  BY <1>1 DEF DriverTypes, PdoStates
<1>3. Touches(d)
  BY <1>0, <1>2 DEF Touches
<1>4. DiskOK(d)'
  BY <1>0, <1>1, <1>2 DEF DiskOK, Live, InDriver
<1>5. CallsOK'
  BY <1>0, <1>3, NotHeld, OtherCall, IInvParts DEF CallsOK, Apart
<1>6. ServiceTypes' /\ DriverTypes'
  BY <1>0, <1>1, <1>2 DEF ServiceTypes, DriverTypes
<1> QED
  BY <1>0, <1>3, <1>4, <1>5, <1>6, TouchStep

LEMMA DestroyPdoStep ==
  ASSUME IInv, NEW d \in Procs, DestroyPdo(d)
  PROVE  IInv'
<1>0. UNCHANGED <<diskMap, rpc, known, run, irp, req, term, handler, status, scm>>
  BY DEF DestroyPdo, runVars, scmVars
<1>1. ServiceTypes /\ DriverTypes /\ DiskOK(d) /\ proc[d] \in ProcTypes
  BY IInvParts DEF DisksOK, ServiceTypes
<1>2. pdo[d] = "missing" /\ Live(d) /\ diskMap[proc[d].id] = d
  BY <1>1 DEF DestroyPdo, DiskOK, InDriver
<1>3. /\ pdo' \in [Procs -> PdoStates] /\ pdo'[d] = "destroyed"
      /\ busy' \in [Procs -> BOOLEAN] /\ ready' \in BOOLEAN
      /\ \A e \in Procs \ {d} : pdo'[e] = pdo[e]
  BY <1>1 DEF DestroyPdo, RemovePdo, DriverTypes, PdoStates
<1>4. /\ proc' \in [Procs -> ProcTypes]
      /\ proc'[d] = [proc[d] EXCEPT !.remove = TRUE]
      /\ \A e \in Procs \ {d} : proc'[e] = proc[e]
  BY <1>1 DEF DestroyPdo, ServiceTypes, ProcTypes
<1>5. /\ proc'[d].object = proc[d].object /\ proc'[d].deletes = proc[d].deletes
      /\ proc'[d].id = proc[d].id /\ proc'[d].slot = proc[d].slot
      /\ proc'[d].ready = proc[d].ready /\ proc'[d].remove
      /\ proc'[d].worker = proc[d].worker
  BY <1>1, <1>4 DEF ProcTypes
<1>6. Touches(d)
  BY <1>0, <1>2, <1>3, <1>4, <1>5 DEF Touches
<1>7. DiskOK(d)'
  BY <1>0, <1>1, <1>2, <1>3, <1>5 DEF DiskOK, Live, InDriver
<1>8. CallsOK'
  BY <1>0, <1>2, <1>6, NotHeld, OtherCall, IInvParts DEF CallsOK, Apart
<1>9. ServiceTypes' /\ DriverTypes'
  BY <1>0, <1>1, <1>3, <1>4 DEF ServiceTypes, DriverTypes
<1> QED
  BY <1>0, <1>6, <1>7, <1>8, <1>9, TouchStep

LEMMA RemoveAllDisksStep ==
  ASSUME IInv, RemoveAllDisks
  PROVE  IInv'
<1>0. UNCHANGED <<diskMap, proc, rpc, irp, req, known, busy, term, handler, status, scm>>
  BY DEF RemoveAllDisks, serviceVars, scmVars
<1>1. IInv /\ ServiceTypes /\ DriverTypes /\ RunAndScmTypes /\ CallsOK /\ MapOK
      /\ DisksOK /\ SlotsOK
  BY IInvParts
<1>2. /\ pdo' \in [Procs -> PdoStates]
      /\ \A d \in Procs : /\ pdo'[d] = "none" <=> pdo[d] = "none"
                          /\ pdo'[d] = "destroyed" <=> pdo[d] = "destroyed"
                          /\ InDriver(d)' <=> InDriver(d)
  BY <1>1 DEF RemoveAllDisks, DriverTypes, PdoStates, InDriver
<1>3. ServiceTypes' /\ DriverTypes'
  BY <1>0, <1>1, <1>2 DEF ServiceTypes, DriverTypes, RemoveAllDisks
<1>4. run.at = "reset" /\ run'.at = "closing" /\ run'.disk = run.disk /\ run' \in RunTypes
  BY <1>1 DEF RemoveAllDisks, RunAndScmTypes, RunTypes, RunPlaces
<1>5. RunAndScmTypes' /\ RunOK'
  BY <1>0, <1>1, <1>2, <1>4, IInvParts DEF RunAndScmTypes, RunOK
<1>6. DisksOK'
  BY <1>0, <1>1, <1>2 DEF DisksOK, DiskOK, Live
<1>7. SlotsOK'
  <2> SUFFICES ASSUME NEW d \in Procs PROVE SlotOK(d)'
    BY DEF SlotsOK
  <2>1. SlotOK(d) /\ proc[d].slot \in Procs \cup {None}
    BY <1>1 DEF SlotsOK, ServiceTypes, ProcTypes
  <2> QED
    BY <1>0, <1>2, <2>1 DEF SlotOK, MayHave
<1>8. MapOK'
  BY <1>0, <1>1 DEF MapOK
<1>9. CallsOK'
  BY <1>0, <1>1, <1>2 DEF CallsOK, CallOK, Apart, Live, Holding
<1> QED
  BY <1>3, <1>5, <1>6, <1>7, <1>8, <1>9, NextIInv

-----------------------------------------------------------------------------
LEMMA NextStep == IInv /\ [Next]_vars => IInv'
<1> SUFFICES ASSUME IInv, [Next]_vars PROVE IInv'
  OBVIOUS
<1>1. CASE UNCHANGED vars
  <2>1. UNCHANGED <<diskMap, proc, rpc, run, irp, req, term, handler, status, scm,
                    pdo, known, busy, ready>>
    BY <1>1 DEF vars, serviceVars, runVars, scmVars, driverVars
  <2>2. ServiceTypes' /\ DriverTypes' /\ RunAndScmTypes'
    BY <2>1, IInvParts DEF ServiceTypes, DriverTypes, RunAndScmTypes
  <2> QED
    BY <2>1, <2>2, SameDisks, SameCalls, SameRun, NextIInv
<1>2. ASSUME NEW c \in Callers,
             AddDiskStep(c) \/ \E i \in Ids : AddDisk(c, i)
      PROVE  IInv'
  BY <1>2, CreateStep, InsertStep, AcceptedStep, UndoDeleteStep, UndoEraseStep, RpcStep
     DEF AddDiskStep
<1>3. ASSUME NEW i \in Ids, RemoveDisk(i) PROVE IInv'
  <2>1. PICK d \in Procs : pdo[d] = "present" /\ pdo' = [pdo EXCEPT ![d] = "missing"]
    BY <1>3 DEF RemoveDisk, WithId
  <2> QED
    BY <1>3, <2>1, MissingStep
<1>4. CASE RunStep \/ GetRequestFails \/ ServiceStarts \/ ServiceFailsToStart
  BY <1>4, MainStep, FindDiskStep, ProcessRequestStep, RemoveAllDisksStep DEF RunStep
<1>5. ASSUME NEW d \in Procs,
             \/ WorkerStep(d) \/ Enumerate(d)
             \/ DispatchRequest(d) \/ EjectDisk(d) \/ DestroyPdo(d)
      PROVE  IInv'
  <2>1. CASE EjectDisk(d)
    <3>1. pdo[d] = "present" /\ pdo' = [pdo EXCEPT ![d] = "missing"]
      BY <2>1 DEF EjectDisk
    <3> QED
      BY <2>1, <3>1, MissingStep
  <2> QED
    BY <1>5, <2>1, ServeRequestStep, SendReplyStep, RemoveDiskFinalStep, EraseDiskStep,
       EnumerateStep, DispatchRequestStep, DestroyPdoStep DEF WorkerStep
<1> QED
  BY <1>1, <1>2, <1>3, <1>4, <1>5, ScmStep DEF Next

LEMMA Invariant == Spec => []IInv
BY InitIInv, NextStep, PTL DEF Spec

-----------------------------------------------------------------------------
(* Every variable has its type, and Run has a disk exactly while it uses   *)
(* one. *)
THEOREM TypeCorrect == Spec => []TypeOK
BY Invariant, PTL DEF IInv

(* The driver's disks are alive in the service, however AddDisks of the    *)
(* same number, failures, removals and the end of the service interleave.  *)
THEOREM RegisteredCorrect == Spec => []RegisteredIsServed
<1>1. IInv => RegisteredIsServed
  BY DEF IInv, DiskOK, RegisteredIsServed
<1> QED
  BY <1>1, Invariant, PTL

(* No processor is deleted twice: what RemoveDiskFinal and a failed AddDisk *)
(* find under the disk's number is their own disk, not deleted yet. *)
THEOREM DeletedCorrect == Spec => []DeletedOnce
<1>1. IInv => DeletedOnce
  <2> SUFFICES ASSUME IInv, NEW d \in Procs PROVE proc[d].deletes <= 1
    BY DEF DeletedOnce
  <2>1. DiskOK(d) /\ proc[d] \in ProcTypes
    BY IInvParts DEF DisksOK, ServiceTypes
  <2> QED
    BY <2>1 DEF DiskOK, Live, NoProc, ProcTypes
<1> QED
  BY <1>1, Invariant, PTL

(* A worker's request is its own disk's, or that of a destroyed disk of    *)
(* the same number. *)
THEOREM RequestCorrect == Spec => []RequestIsForDisk
<1>1. IInv => RequestIsForDisk
  BY DEF IInv, SlotOK, MayHave, RequestIsForDisk
<1> QED
  BY <1>1, Invariant, PTL

(* The pointer Run holds without a lock is alive as long as the disk whose *)
(* request it has is not destroyed. *)
THEOREM RunCorrect == Spec => []RunUsesLiveDisk
<1>1. IInv => RunUsesLiveDisk
  <2> SUFFICES ASSUME IInv, run.at = "use", pdo[req] # "destroyed"
               PROVE  run.disk = req /\ Live(req)
    BY DEF RunUsesLiveDisk
  <2>1. run.disk = req /\ pdo[req] # "none" /\ req \in Procs
    BY IInvParts DEF RunOK, MayHave, RunAndScmTypes
  <2>2. InDriver(req)
    BY <2>1, IInvParts DEF DriverTypes, PdoStates, InDriver
  <2> QED
    BY <2>1, <2>2, IInvParts DEF DisksOK, DiskOK
<1> QED
  BY <1>1, Invariant, PTL

-----------------------------------------------------------------------------
(* The disk numbers.  Only these steps concern the container or the PDOs.  *)
LEMMA MapSteps ==
  ASSUME [Next]_vars
  PROVE  \/ UNCHANGED <<diskMap, pdo>>
         \/ \E c \in Callers : InsertDisk(c) \/ Accepted(c) \/ UndoErase(c)
         \/ \E i \in Ids : RemoveDisk(i)
         \/ RemoveAllDisks
         \/ \E d \in Procs : EraseDisk(d) \/ EjectDisk(d) \/ DestroyPdo(d)
<1> USE DEF serviceVars, runVars, scmVars, driverVars
<1> DEFINE Untouched == UNCHANGED <<diskMap, pdo>>
<1>1. ASSUME NEW c \in Callers,
             \/ \E i \in Ids : AddDisk(c, i)
             \/ \E d \in Procs : CreateDiskProcessor(c, d)
             \/ CreateFails(c) \/ RegisterWithDriver(c) \/ Refused(c) \/ UndoDelete(c)
      PROVE  Untouched
  BY <1>1 DEF AddDisk, CreateDiskProcessor, CreateFails, RegisterWithDriver, Refused,
     UndoDelete
<1>2. ASSUME \/ ServiceStarts \/ ServiceFailsToStart \/ FindDisk \/ ProcessRequest
             \/ Terminated \/ GetRequestFails \/ Terminate \/ CloseBus \/ BusClosed
             \/ SetStopped \/ ReportStopped
      PROVE  Untouched
  BY <1>2 DEF ServiceStarts, ServiceFailsToStart, FindDisk, ProcessRequest, Terminated,
     GetRequestFails, Terminate, CloseBus, BusClosed, SetStopped, ReportStopped
<1>3. ASSUME StopService \/ HandlerStep \/ Interrogate
      PROVE  Untouched
  BY <1>3 DEF StopService, HandlerStep, SetStopPending, ReportStopPending, Interrogate
<1>4. ASSUME NEW d \in Procs,
             \/ ServeRequest(d) \/ SendReply(d) \/ RemoveDiskFinal(d)
             \/ Enumerate(d) \/ DispatchRequest(d)
      PROVE  Untouched
  BY <1>4 DEF ServeRequest, SendReply, RemoveDiskFinal, Enumerate, DispatchRequest
<1>5. ASSUME UNCHANGED vars
      PROVE  Untouched
  BY <1>5 DEF vars
<1> HIDE DEF Untouched
<1>6. \/ Untouched
      \/ \E c \in Callers : InsertDisk(c) \/ Accepted(c) \/ UndoErase(c)
      \/ \E i \in Ids : RemoveDisk(i)
      \/ RemoveAllDisks
      \/ \E d \in Procs : EraseDisk(d) \/ EjectDisk(d) \/ DestroyPdo(d)
  BY <1>1, <1>2, <1>3, <1>4, <1>5 DEF Next, AddDiskStep, RunStep, WorkerStep
<1> QED
  BY <1>6 DEF Untouched

(* The disk the container has under a number decides its stage. *)
StageOf(i) ==
  IF diskMap[i] = None THEN "free"
  ELSE IF pdo[diskMap[i]] = "present" THEN "attached"
  ELSE IF pdo[diskMap[i]] = "none" THEN "adding" ELSE "leaving"

LEMMA StageByMap == IInv => \A i \in Ids : Stage(i) = StageOf(i)
<1> SUFFICES ASSUME IInv, NEW i \in Ids PROVE Stage(i) = StageOf(i)
  OBVIOUS
<1>1. ServiceTypes /\ DriverTypes /\ DisksOK /\ MapOK
  BY IInvParts
<1>2. \A d \in WithId(i) : InDriver(d) => diskMap[i] = d
  BY <1>1 DEF DisksOK, DiskOK, WithId
<1>3. diskMap[i] # None =>
        diskMap[i] \in WithId(i) /\ pdo[diskMap[i]] \in PdoStates
  BY <1>1 DEF MapOK, WithId, ServiceTypes, DriverTypes
<1>4. \A d \in WithId(i) : d \in Procs /\ d # None
  BY DiskServiceAssumption DEF WithId
<1> QED
  BY <1>2, <1>3, <1>4 DEF Stage, StageOf, InDriver, PdoStates

LEMMA StageByMapNext == (IInv => \A i \in Ids : Stage(i) = StageOf(i))'
<1>1. IInv => \A i \in Ids : Stage(i) = StageOf(i)
  BY StageByMap
<1> QED
  BY <1>1, PTL

LEMMA StageStep ==
  ASSUME IInv, IInv', [Next]_vars
  PROVE  [Abstract!Next]_([i \in Ids |-> Stage(i)])
<1> DEFINE table == [i \in Ids |-> Stage(i)]
           tableNext == [i \in Ids |-> Stage(i)']
<1> USE DiskServiceAssumption
<1>0. /\ diskMap \in [Ids -> Procs \cup {None}] /\ pdo \in [Procs -> PdoStates]
      /\ proc \in [Procs -> ProcTypes]
      /\ rpc \in [Callers -> RpcTypes]
      /\ DisksOK /\ CallsOK /\ MapOK
  BY IInvParts DEF ServiceTypes, DriverTypes
<1>1. table = [i \in Ids |-> StageOf(i)] /\ tableNext = [i \in Ids |-> StageOf(i)']
  <2>1. \A i \in Ids : Stage(i) = StageOf(i)
    BY StageByMap
  <2>2. \A i \in Ids : Stage(i)' = StageOf(i)'
    BY StageByMapNext
  <2> QED
    BY <2>1, <2>2
<1>2. CASE \A i \in Ids : StageOf(i)' = StageOf(i)
  <2>1. tableNext = table
    BY <1>1, <1>2
  <2> QED
    BY <2>1
<1>3. ASSUME NEW i \in Ids, \A j \in Ids \ {i} : StageOf(j)' = StageOf(j),
             \/ StageOf(i) = "free" /\ StageOf(i)' = "adding"
             \/ StageOf(i) = "adding" /\ StageOf(i)' = "attached"
             \/ StageOf(i) = "adding" /\ StageOf(i)' = "free"
             \/ StageOf(i) = "attached" /\ StageOf(i)' = "leaving"
             \/ StageOf(i) = "leaving" /\ StageOf(i)' = "free"
      PROVE  [Abstract!Next]_table
  <2>1. table[i] = StageOf(i) /\ tableNext = [table EXCEPT ![i] = StageOf(i)']
    BY <1>1, <1>3
  <2> HIDE DEF StageOf
  <2> QED
    BY <1>3, <2>1
    DEF Abstract!Next, Abstract!Move, Abstract!Reserve, Abstract!Attach, Abstract!GiveUp,
        Abstract!Detach, Abstract!Release
<1>4. CASE UNCHANGED <<diskMap, pdo>>
  BY <1>2, <1>4 DEF StageOf
<1>5. ASSUME NEW c \in Callers, InsertDisk(c)
      PROVE  [Abstract!Next]_table
  <2>1. /\ rpc[c].at = "insert" /\ pdo' = pdo
        /\ \/ diskMap' = diskMap
           \/ /\ diskMap[rpc[c].id] = None
              /\ diskMap' = [diskMap EXCEPT ![rpc[c].id] = rpc[c].disk]
    BY <1>5 DEF InsertDisk, driverVars
  <2>2. PICK i \in Ids, d \in Procs :
          i = rpc[c].id /\ d = rpc[c].disk /\ pdo[d] = "none"
    BY <1>0, <2>1 DEF CallsOK, CallOK, Holding
  <2>3. CASE diskMap' = [diskMap EXCEPT ![i] = d] /\ diskMap[i] = None
    <3>1. /\ StageOf(i) = "free" /\ StageOf(i)' = "adding"
          /\ \A j \in Ids \ {i} : StageOf(j)' = StageOf(j)
      BY <1>0, <2>1, <2>2, <2>3 DEF StageOf
    <3> QED
      BY <1>3, <3>1
  <2> QED
    BY <1>4, <2>1, <2>2, <2>3
<1>6. ASSUME NEW c \in Callers, Accepted(c)
      PROVE  [Abstract!Next]_table
  <2>1. /\ rpc[c].at = "driver" /\ diskMap' = diskMap
        /\ pdo' = [pdo EXCEPT ![rpc[c].disk] = "present"]
    BY <1>6 DEF Accepted
  <2>2. PICK i \in Ids, d \in Procs :
          /\ i = rpc[c].id /\ d = rpc[c].disk /\ pdo[d] = "none"
          /\ diskMap[i] = d /\ proc[d].id = i
    BY <1>0, <2>1 DEF CallsOK, CallOK, Holding
  <2>3. \A j \in Ids \ {i} : diskMap[j] # d
    BY <1>0, <2>2 DEF MapOK
  <2>4. /\ StageOf(i) = "adding" /\ StageOf(i)' = "attached"
        /\ \A j \in Ids \ {i} : StageOf(j)' = StageOf(j)
    BY <1>0, <2>1, <2>2, <2>3 DEF StageOf
  <2> QED
    BY <1>3, <2>4
<1>7. ASSUME NEW c \in Callers, UndoErase(c)
      PROVE  [Abstract!Next]_table
  <2>1. /\ rpc[c].at = "erase" /\ pdo' = pdo
        /\ diskMap' = [diskMap EXCEPT ![rpc[c].id] = None]
    BY <1>7 DEF UndoErase, driverVars
  <2>2. PICK i \in Ids, d \in Procs :
          i = rpc[c].id /\ d = rpc[c].disk /\ pdo[d] = "none" /\ diskMap[i] = d
    BY <1>0, <2>1 DEF CallsOK, CallOK, Holding
  <2>3. /\ StageOf(i) = "adding" /\ StageOf(i)' = "free"
        /\ \A j \in Ids \ {i} : StageOf(j)' = StageOf(j)
    BY <1>0, <2>1, <2>2 DEF StageOf
  <2> QED
    BY <1>3, <2>3
<1>8. ASSUME NEW d \in Procs, pdo[d] = "present", diskMap' = diskMap,
             pdo' = [pdo EXCEPT ![d] = "missing"]
      PROVE  [Abstract!Next]_table
  <2>1. PICK i \in Ids : i = proc[d].id /\ diskMap[i] = d
    BY <1>0, <1>8 DEF DisksOK, DiskOK, InDriver
  <2>2. \A j \in Ids \ {i} : diskMap[j] # d
    BY <1>0, <2>1 DEF MapOK
  <2>3. /\ StageOf(i) = "attached" /\ StageOf(i)' = "leaving"
        /\ \A j \in Ids \ {i} : StageOf(j)' = StageOf(j)
    BY <1>0, <1>8, <2>1, <2>2 DEF StageOf
  <2> QED
    BY <1>3, <2>3
<1>9. ASSUME NEW i \in Ids, RemoveDisk(i)
      PROVE  [Abstract!Next]_table
  BY <1>8, <1>9 DEF RemoveDisk, serviceVars, WithId
<1>10. ASSUME NEW d \in Procs, EjectDisk(d)
       PROVE  [Abstract!Next]_table
  BY <1>8, <1>10 DEF EjectDisk, serviceVars
<1>11. ASSUME NEW d \in Procs, DestroyPdo(d)
       PROVE  [Abstract!Next]_table
  <2>1. /\ pdo[d] = "missing" /\ pdo' = [pdo EXCEPT ![d] = "destroyed"]
        /\ diskMap' = diskMap
    BY <1>11 DEF DestroyPdo, RemovePdo
  <2>2. \A i \in Ids : StageOf(i)' = StageOf(i)
    BY <1>0, <2>1 DEF StageOf
  <2> QED
    BY <1>2, <2>2
<1>12. ASSUME NEW d \in Procs, EraseDisk(d)
       PROVE  [Abstract!Next]_table
  <2>1. /\ proc[d].worker = "erase" /\ pdo' = pdo
        /\ diskMap' = [diskMap EXCEPT ![proc[d].id] = None]
    BY <1>12 DEF EraseDisk, driverVars
  <2>2. PICK i \in Ids : i = proc[d].id /\ diskMap[i] = d /\ pdo[d] = "destroyed"
    BY <1>0, <2>1 DEF DisksOK, DiskOK, NoProc
  <2>3. /\ StageOf(i) = "leaving" /\ StageOf(i)' = "free"
        /\ \A j \in Ids \ {i} : StageOf(j)' = StageOf(j)
    BY <1>0, <2>1, <2>2 DEF StageOf
  <2> QED
    BY <1>3, <2>3
<1>13. CASE RemoveAllDisks
  <2>1. /\ pdo' = [d \in Procs |-> IF pdo[d] = "present" THEN "missing" ELSE pdo[d]]
        /\ diskMap' = diskMap
    BY <1>13 DEF RemoveAllDisks, serviceVars
  <2>2. \A i \in Ids :
          StageOf(i)' = IF StageOf(i) = "attached" THEN "leaving" ELSE StageOf(i)
    BY <1>0, <2>1 DEF StageOf
  <2>3. tableNext = [i \in Ids |-> IF table[i] = "attached" THEN "leaving" ELSE table[i]]
    <3> HIDE DEF StageOf
    <3> QED
      BY <1>1, <2>2
  <2> QED
    BY <2>3 DEF Abstract!Next, Abstract!DetachAll
<1> HIDE DEF table
<1> QED
  BY <1>4, <1>5, <1>6, <1>7, <1>9, <1>10, <1>11, <1>12, <1>13, MapSteps DEF table

(* The service keeps the promises of AttachedDisks: a number is reserved   *)
(* before the driver sees it and free again only when its disk has left    *)
(* the driver and the container, whatever fails and whoever removes it.    *)
THEOREM NumbersCorrect == Spec => ImplementsAttachedDisks
<1>1. Init => Abstract!Init
  BY DiskServiceAssumption DEF Init, Abstract!Init, Stage, WithId
<1>2. IInv /\ IInv' /\ [Next]_vars => [Abstract!Next]_([i \in Ids |-> Stage(i)])
  BY StageStep
<1> QED
  BY <1>1, <1>2, Invariant, PTL DEF Spec, ImplementsAttachedDisks, Abstract!Spec

-----------------------------------------------------------------------------
(* What follows from the invariant without another one.                    *)

(* At most one AddDisk of a number is past the container, and so in the    *)
(* driver. *)
THEOREM CallsCorrect == Spec => []CallsAreApart
<1>1. IInv => CallsAreApart
  <2> SUFFICES ASSUME IInv, NEW c1 \in Callers, NEW c2 \in Callers,
                      rpc[c1].at \in {"register", "driver", "undo", "erase"},
                      rpc[c2].at \in {"register", "driver", "undo", "erase"},
                      rpc[c1].id = rpc[c2].id
               PROVE  c1 = c2
    BY DEF CallsAreApart
  <2>1. /\ rpc[c1].disk = diskMap[rpc[c1].id] /\ rpc[c2].disk = rpc[c1].disk
        /\ rpc[c1].disk \in Procs /\ Apart
    BY IInvParts DEF CallsOK, CallOK, Holding
  <2> QED
    BY <2>1, DiskServiceAssumption DEF Apart
<1> QED
  BY <1>1, Invariant, PTL

(* No worker of a disk the driver knows or knew runs on freed memory: the  *)
(* undefined behaviour of the service is confined to AddDisks that fail.   *)
THEOREM WildCorrect == Spec => []WildIsUnregistered
<1>1. IInv => WildIsUnregistered
  <2> SUFFICES ASSUME IInv, NEW d \in Procs, proc[d].worker = "wild"
               PROVE  pdo[d] = "none"
    BY DEF WildIsUnregistered
  <2>1. DiskOK(d) /\ pdo[d] \in PdoStates
    BY IInvParts DEF DisksOK, DriverTypes
  <2> QED
    BY <2>1 DEF DiskOK, InDriver, PdoStates
<1> QED
  BY <1>1, Invariant, PTL

-----------------------------------------------------------------------------
(* The container and the freed processors.  A freed one is in it only      *)
(* while the thread that freed it is about to take it out; a processor not *)
(* inserted yet is not in it. *)
Erasing(d) ==
  \/ proc[d].worker = "erase"
  \/ \E c \in Callers : rpc[c].at = "erase" /\ rpc[c].disk = d

EntriesOK ==
  \A i \in Ids : diskMap[i] # None => Live(diskMap[i]) \/ Erasing(diskMap[i])

NotYetIn ==
  \A c \in Callers : rpc[c].at = "insert" => \A i \in Ids : diskMap[i] # rpc[c].disk

LEMMA SameEntries ==
  ASSUME IInv, EntriesOK, diskMap' = diskMap,
         \A d \in Procs : Live(d) => Live(d)',
         \A d \in Procs : proc[d].worker = "erase" => proc'[d].worker = "erase",
         \A c \in Callers : rpc[c].at = "erase" => rpc'[c] = rpc[c]
  PROVE  EntriesOK'
<1> SUFFICES ASSUME NEW i \in Ids, diskMap'[i] # None
             PROVE  (Live(diskMap[i]) \/ Erasing(diskMap[i]))'
  BY DEF EntriesOK
<1>1. PICK d \in Procs : d = diskMap[i] /\ d = diskMap'[i]
  BY IInvParts DEF ServiceTypes
<1>2. Live(d) \/ Erasing(d)
  BY <1>1 DEF EntriesOK
<1>3. Erasing(d) => Erasing(d)'
  BY DEF Erasing
<1> QED
  BY <1>1, <1>2, <1>3 DEF Live, Erasing

LEMMA SameNotYet ==
  ASSUME NotYetIn, diskMap' = diskMap,
         \A c \in Callers : rpc'[c].at = "insert" => rpc'[c] = rpc[c]
  PROVE  NotYetIn'
BY DEF NotYetIn

(* The steps that neither make or free a processor nor touch the           *)
(* container. *)
LEMMA QuietEntries ==
  ASSUME IInv, EntriesOK, NotYetIn,
         \/ UNCHANGED vars
         \/ \E c \in Callers :
              \/ \E i \in Ids : AddDisk(c, i)
              \/ CreateFails(c) \/ RegisterWithDriver(c) \/ Accepted(c) \/ Refused(c)
         \/ \E i \in Ids : RemoveDisk(i)
         \/ ServiceStarts \/ ServiceFailsToStart \/ RunStep \/ GetRequestFails
         \/ StopService \/ HandlerStep \/ Interrogate
         \/ \E d \in Procs : \/ ServeRequest(d) \/ SendReply(d) \/ Enumerate(d)
                             \/ DispatchRequest(d) \/ EjectDisk(d) \/ DestroyPdo(d)
  PROVE  EntriesOK' /\ NotYetIn'
<1> USE DEF serviceVars, runVars, scmVars, driverVars
<1>0. ServiceTypes /\ IInv
  BY IInvParts
<1>1. CASE UNCHANGED <<diskMap, proc, rpc>>
  BY <1>0, <1>1, SameEntries, SameNotYet DEF Live
<1>2. ASSUME NEW c \in Callers,
             \/ \E i \in Ids : AddDisk(c, i)
             \/ CreateFails(c) \/ RegisterWithDriver(c) \/ Accepted(c) \/ Refused(c)
      PROVE  EntriesOK' /\ NotYetIn'
  <2>1. UNCHANGED <<diskMap, proc>>
    BY <1>2 DEF AddDisk, CreateFails, RegisterWithDriver, Accepted, Refused
  <2>2. /\ rpc[c].at # "erase" /\ rpc'[c].at # "insert"
        /\ \A e \in Callers \ {c} : rpc'[e] = rpc[e]
    BY <1>0, <1>2 DEF AddDisk, CreateFails, RegisterWithDriver, Accepted, Refused, Return,
       GoTo, User, ServiceTypes, RpcTypes
  <2> QED
    BY <1>0, <2>1, <2>2, SameEntries, SameNotYet DEF Live
<1>3. ASSUME NEW d \in Procs,
             \/ ServeRequest(d) \/ SendReply(d) \/ DestroyPdo(d)
             \/ ProcessRequest /\ d = run.disk
      PROVE  EntriesOK' /\ NotYetIn'
  <2>1. UNCHANGED <<diskMap, rpc>>
    BY <1>3 DEF ServeRequest, SendReply, DestroyPdo, ProcessRequest
  <2>2. \A e \in Procs : /\ proc'[e].object = proc[e].object
                         /\ proc[e].worker = "erase" => proc'[e].worker = "erase"
    <3>1. proc \in [Procs -> ProcTypes] /\ proc[d] \in ProcTypes
      BY <1>0 DEF ServiceTypes
    <3>2. CASE ServeRequest(d)
      BY <3>1, <3>2 DEF ServeRequest, ProcTypes
    <3>3. CASE SendReply(d)
      BY <3>1, <3>3 DEF SendReply, ProcTypes
    <3>4. CASE DestroyPdo(d)
      BY <3>1, <3>4 DEF DestroyPdo, ProcTypes
    <3>5. CASE ProcessRequest /\ d = run.disk
      BY <3>1, <3>5 DEF ProcessRequest, ProcTypes
    <3> QED
      BY <1>3, <3>2, <3>3, <3>4, <3>5
  <2> QED
    BY <1>0, <2>1, <2>2, SameEntries, SameNotYet DEF Live
<1>4. CASE ProcessRequest
  <2>1. run.disk \in Procs
    BY <1>4, IInvParts DEF ProcessRequest, RunAndScmTypes, RunTypes
  <2> QED
    BY <1>3, <1>4, <2>1
<1>5. CASE UNCHANGED vars
  BY <1>1, <1>5 DEF vars
<1>6. CASE \E i \in Ids : RemoveDisk(i)
  BY <1>1, <1>6 DEF RemoveDisk
<1>7. CASE \/ ServiceStarts \/ ServiceFailsToStart \/ FindDisk \/ Terminated
           \/ Terminate \/ CloseBus \/ RemoveAllDisks \/ BusClosed \/ SetStopped
           \/ ReportStopped \/ GetRequestFails
  BY <1>1, <1>7 DEF ServiceStarts, ServiceFailsToStart, FindDisk, Terminated, Terminate,
     CloseBus, RemoveAllDisks, BusClosed, SetStopped, ReportStopped, GetRequestFails
<1>8. CASE StopService \/ HandlerStep \/ Interrogate
  BY <1>1, <1>8 DEF StopService, HandlerStep, SetStopPending, ReportStopPending, Interrogate
<1>9. CASE \E d \in Procs : Enumerate(d) \/ DispatchRequest(d) \/ EjectDisk(d)
  BY <1>1, <1>9 DEF Enumerate, DispatchRequest, EjectDisk
<1> QED
  BY <1>2, <1>3, <1>4, <1>5, <1>6, <1>7, <1>8, <1>9 DEF RunStep

(* AddDisk's steps on the container. *)
LEMMA CallEntries ==
  ASSUME IInv, EntriesOK, NotYetIn, NEW c \in Callers,
         \/ \E d \in Procs : CreateDiskProcessor(c, d)
         \/ InsertDisk(c) \/ UndoDelete(c) \/ UndoErase(c)
  PROVE  EntriesOK' /\ NotYetIn'
<1> USE DiskServiceAssumption
<1>0. ServiceTypes /\ MapOK /\ CallOK(c) /\ rpc[c] \in RpcTypes /\ DisksOK /\ Apart
  BY IInvParts DEF CallsOK, ServiceTypes
<1>1. ASSUME NEW d \in Procs, CreateDiskProcessor(c, d)
      PROVE  EntriesOK' /\ NotYetIn'
  <2>1. /\ diskMap' = diskMap /\ rpc[c].at = "create" /\ proc[d] = NoProc
        /\ rpc' = [rpc EXCEPT ![c].at = "insert", ![c].disk = d]
        /\ proc' = [proc EXCEPT ![d] = NewProc(rpc[c].id)]
    BY <1>1 DEF CreateDiskProcessor
  <2>2. ~ Live(d) /\ proc[d].worker # "erase" /\ proc[d].id = None
    BY <2>1 DEF Live, NoProc
  <2>3. /\ rpc'[c].disk = d
        /\ \A e \in Callers \ {c} : rpc'[e] = rpc[e]
        /\ \A e \in Procs \ {d} : proc'[e] = proc[e]
    BY <1>0, <2>1 DEF ServiceTypes, RpcTypes
  <2>4. EntriesOK'
    BY <2>1, <2>2, <2>3, SameEntries DEF Live
  <2>5. \A i \in Ids : diskMap[i] # d
    BY <1>0, <2>2 DEF MapOK
  <2>6. NotYetIn'
    <3> SUFFICES ASSUME NEW e \in Callers, rpc'[e].at = "insert", NEW i \in Ids
                 PROVE  diskMap[i] # rpc'[e].disk
      BY <2>1 DEF NotYetIn
    <3>1. CASE e = c
      BY <2>3, <2>5, <3>1
    <3>2. CASE e # c
      BY <2>3, <3>2 DEF NotYetIn
    <3> QED
      BY <3>1, <3>2
  <2> QED
    BY <2>4, <2>6
<1>2. ASSUME InsertDisk(c), diskMap[rpc[c].id] = None
      PROVE  EntriesOK' /\ NotYetIn'
  <2>1. rpc[c].at = "insert" /\ rpc[c].at \in Holding
    BY <1>2 DEF InsertDisk, Holding
  <2>2. PICK d \in Procs : /\ d = rpc[c].disk /\ rpc[c].id \in Ids /\ Live(d)
                           /\ \A e \in Callers \ {c} : rpc[e].disk # d
    BY <2>1, HeldDisk
  <2>3. /\ diskMap' = [diskMap EXCEPT ![rpc[c].id] = d] /\ proc' = proc
        /\ GoTo(c, "register")
    BY <1>2, <2>2 DEF InsertDisk
  <2>4. /\ diskMap'[rpc[c].id] = d
        /\ \A i \in Ids \ {rpc[c].id} : diskMap'[i] = diskMap[i]
        /\ rpc'[c].at = "register"
        /\ \A e \in Callers \ {c} : rpc'[e] = rpc[e]
    BY <1>0, <2>2, <2>3 DEF ServiceTypes, GoTo, RpcTypes
  <2>5. \A e \in Procs : Live(e)' <=> Live(e)
    BY <2>3 DEF Live
  <2>6. \A e \in Procs : Erasing(e) => Erasing(e)'
    BY <2>1, <2>3, <2>4 DEF Erasing
  <2>7. ASSUME NEW i \in Ids, diskMap'[i] # None
        PROVE  (Live(diskMap[i]) \/ Erasing(diskMap[i]))'
    <3>1. PICK e \in Procs : e = diskMap'[i] /\ (Live(e) \/ Erasing(e))
      BY <1>0, <2>2, <2>4, <2>7 DEF EntriesOK, ServiceTypes
    <3> QED
      BY <2>5, <2>6, <3>1 DEF Live, Erasing
  <2>8. NotYetIn'
    BY <2>2, <2>4 DEF NotYetIn
  <2> QED
    BY <2>7, <2>8 DEF EntriesOK
<1>3. ASSUME InsertDisk(c), diskMap[rpc[c].id] # None
      PROVE  EntriesOK' /\ NotYetIn'
  <2>1. rpc[c].at = "insert" /\ rpc[c].at \in Holding
    BY <1>3 DEF InsertDisk, Holding
  <2>2. PICK d \in Procs : d = rpc[c].disk
    BY <2>1, HeldDisk
  <2>3. /\ diskMap' = diskMap /\ Return(c) /\ proc' = [proc EXCEPT ![d] = Deleted(@)]
    BY <1>3, <2>2 DEF InsertDisk
  <2>4. /\ rpc'[c].at = "user"
        /\ \A e \in Callers \ {c} : rpc'[e] = rpc[e]
        /\ \A e \in Procs \ {d} : proc'[e] = proc[e]
    BY <1>0, <2>3 DEF ServiceTypes, Return, User
  <2>5. \A i \in Ids : diskMap[i] # d
    BY <2>1, <2>2 DEF NotYetIn
  <2>6. ASSUME NEW i \in Ids, diskMap'[i] # None
        PROVE  (Live(diskMap[i]) \/ Erasing(diskMap[i]))'
    <3>1. PICK e \in Procs \ {d} : /\ e = diskMap[i] /\ e = diskMap'[i]
                                   /\ Live(e) \/ Erasing(e)
      BY <1>0, <2>3, <2>5, <2>6 DEF EntriesOK, ServiceTypes
    <3> QED
      BY <2>1, <2>4, <3>1 DEF Live, Erasing
  <2>7. NotYetIn'
    BY <2>3, <2>4 DEF NotYetIn
  <2> QED
    BY <2>6, <2>7 DEF EntriesOK
<1>4. CASE UndoDelete(c)
  <2>1. rpc[c].at = "undo" /\ rpc[c].at \in Holding /\ diskMap' = diskMap
    BY <1>4 DEF UndoDelete, Holding
  <2>2. PICK d \in Procs : d = rpc[c].disk
    BY <2>1, HeldDisk
  <2>3. diskMap[rpc[c].id] = d
    BY <1>0, <2>1, <2>2 DEF CallOK
  <2>4. proc' = [proc EXCEPT ![d] = Deleted(@)] /\ GoTo(c, "erase")
    BY <1>4, <2>3 DEF UndoDelete, DeleteFound
  <2>5. /\ rpc'[c].at = "erase" /\ rpc'[c].disk = d
        /\ \A e \in Callers \ {c} : rpc'[e] = rpc[e]
        /\ \A e \in Procs \ {d} : proc'[e] = proc[e]
    BY <1>0, <2>2, <2>4 DEF ServiceTypes, GoTo, RpcTypes
  <2>6. ASSUME NEW i \in Ids, diskMap'[i] # None
        PROVE  (Live(diskMap[i]) \/ Erasing(diskMap[i]))'
    <3>1. PICK e \in Procs : /\ e = diskMap[i] /\ e = diskMap'[i]
                             /\ Live(e) \/ Erasing(e)
      BY <1>0, <2>1, <2>6 DEF EntriesOK, ServiceTypes
    <3> QED
      BY <2>1, <2>5, <3>1 DEF Live, Erasing
  <2>7. NotYetIn'
    BY <2>1, <2>5, SameNotYet
  <2> QED
    BY <2>6, <2>7 DEF EntriesOK
<1>5. CASE UndoErase(c)
  <2>1. rpc[c].at = "erase" /\ rpc[c].at \in Holding /\ proc' = proc /\ Return(c)
    BY <1>5 DEF UndoErase, Holding
  <2>2. PICK d \in Procs : d = rpc[c].disk /\ proc[d].id = rpc[c].id /\ rpc[c].id \in Ids
    BY <2>1, HeldDisk
  <2>3. /\ diskMap'[rpc[c].id] = None
        /\ \A i \in Ids \ {rpc[c].id} : diskMap'[i] = diskMap[i]
        /\ rpc'[c].at = "user"
        /\ \A e \in Callers \ {c} : rpc'[e] = rpc[e]
    BY <1>0, <1>5, <2>1, <2>2 DEF UndoErase, ServiceTypes, Return, User
  <2>4. ASSUME NEW i \in Ids, diskMap'[i] # None
        PROVE  (Live(diskMap[i]) \/ Erasing(diskMap[i]))'
    <3>1. PICK e \in Procs : /\ e = diskMap[i] /\ e = diskMap'[i] /\ proc[e].id = i
                             /\ Live(e) \/ Erasing(e)
      BY <1>0, <2>3, <2>4 DEF EntriesOK, ServiceTypes, MapOK
    <3>2. e # d
      BY <2>2, <2>3, <2>4, <3>1
    <3> QED
      BY <2>1, <2>2, <2>3, <3>1, <3>2 DEF Live, Erasing
  <2>5. NotYetIn'
    <3> SUFFICES ASSUME NEW e \in Callers, rpc'[e].at = "insert", NEW i \in Ids
                 PROVE  diskMap'[i] # rpc'[e].disk
      BY DEF NotYetIn
    <3>1. rpc'[e] = rpc[e] /\ rpc[e].disk # None
      BY <2>3, IInvParts DEF CallsOK, CallOK, Holding
    <3> QED
      BY <2>3, <3>1 DEF NotYetIn
  <2> QED
    BY <2>4, <2>5 DEF EntriesOK
<1> QED
  BY <1>1, <1>2, <1>3, <1>4, <1>5

(* RemoveDiskFinal's two halves. *)
LEMMA RemovalEntries ==
  ASSUME IInv, EntriesOK, NotYetIn, NEW d \in Procs, RemoveDiskFinal(d) \/ EraseDisk(d)
  PROVE  EntriesOK' /\ NotYetIn'
<1> USE DiskServiceAssumption
<1>0. ServiceTypes /\ MapOK /\ DiskOK(d) /\ proc[d] \in ProcTypes
  BY IInvParts DEF DisksOK, ServiceTypes
<1>1. rpc' = rpc
  BY DEF RemoveDiskFinal, EraseDisk
<1>2. proc[d].id \in Ids /\ diskMap[proc[d].id] = d
  BY <1>0 DEF RemoveDiskFinal, EraseDisk, DiskOK, Live, NoProc, ProcTypes
<1>3. CASE RemoveDiskFinal(d)
  <2>1. DeleteFound(proc[d].id) = [proc EXCEPT ![d] = Deleted(@)]
    BY <1>2 DEF DeleteFound
  <2>2. /\ diskMap' = diskMap
        /\ proc' = [proc EXCEPT ![d] = [Deleted(@) EXCEPT !.worker = "erase"]]
    BY <1>0, <1>3, <2>1 DEF RemoveDiskFinal, ServiceTypes
  <2>3. PICK r \in ProcTypes : r = Deleted(proc[d])
    <3>1. proc[d].deletes \in {0, 1}
      BY <1>0 DEF DiskOK, Live, NoProc, ProcTypes
    <3> QED
      BY <1>0, <3>1, DeletedFields
  <2>4. proc'[d].worker = "erase" /\ \A e \in Procs \ {d} : proc'[e] = proc[e]
    BY <1>0, <2>2, <2>3 DEF ServiceTypes, ProcTypes
  <2>5. ASSUME NEW i \in Ids, diskMap'[i] # None
        PROVE  (Live(diskMap[i]) \/ Erasing(diskMap[i]))'
    <3>1. PICK e \in Procs : /\ e = diskMap[i] /\ e = diskMap'[i]
                             /\ Live(e) \/ Erasing(e)
      BY <1>0, <2>2, <2>5 DEF EntriesOK, ServiceTypes
    <3> QED
      BY <1>1, <2>4, <3>1 DEF Live, Erasing
  <2> QED
    BY <1>1, <2>2, <2>5, SameNotYet DEF EntriesOK
<1>4. CASE EraseDisk(d)
  <2>1. /\ diskMap'[proc[d].id] = None
        /\ \A i \in Ids \ {proc[d].id} : diskMap'[i] = diskMap[i]
        /\ \A e \in Procs \ {d} : proc'[e] = proc[e]
    BY <1>0, <1>2, <1>4 DEF EraseDisk, ServiceTypes
  <2>2. ASSUME NEW i \in Ids, diskMap'[i] # None
        PROVE  (Live(diskMap[i]) \/ Erasing(diskMap[i]))'
    <3>1. PICK e \in Procs : /\ e = diskMap[i] /\ e = diskMap'[i] /\ proc[e].id = i
                             /\ Live(e) \/ Erasing(e)
      BY <1>0, <2>1, <2>2 DEF EntriesOK, ServiceTypes, MapOK
    <3>2. e # d
      BY <1>2, <2>1, <2>2, <3>1
    <3> QED
      BY <1>1, <2>1, <3>1, <3>2 DEF Live, Erasing
  <2>3. NotYetIn'
    <3> SUFFICES ASSUME NEW c \in Callers, rpc[c].at = "insert", NEW i \in Ids
                 PROVE  diskMap'[i] # rpc[c].disk
      BY <1>1 DEF NotYetIn
    <3>1. rpc[c].disk # None
      BY IInvParts DEF CallsOK, CallOK, Holding
    <3> QED
      BY <2>1, <3>1 DEF NotYetIn
  <2> QED
    BY <2>2, <2>3 DEF EntriesOK
<1> QED
  BY <1>3, <1>4

LEMMA EntriesInvariant == Spec => [](EntriesOK /\ NotYetIn)
<1>1. Init => EntriesOK /\ NotYetIn
  BY DEF Init, EntriesOK, NotYetIn, User
<1>2. IInv /\ EntriesOK /\ NotYetIn /\ [Next]_vars => (EntriesOK /\ NotYetIn)'
  <2> SUFFICES ASSUME IInv, EntriesOK, NotYetIn, [Next]_vars
               PROVE  EntriesOK' /\ NotYetIn'
    OBVIOUS
  <2>1. ASSUME NEW c \in Callers,
               AddDiskStep(c) \/ \E i \in Ids : AddDisk(c, i)
        PROVE  EntriesOK' /\ NotYetIn'
    BY <2>1, QuietEntries, CallEntries DEF AddDiskStep
  <2>2. ASSUME NEW d \in Procs,
               \/ WorkerStep(d) \/ Enumerate(d)
               \/ DispatchRequest(d) \/ EjectDisk(d) \/ DestroyPdo(d)
        PROVE  EntriesOK' /\ NotYetIn'
    BY <2>2, QuietEntries, RemovalEntries DEF WorkerStep
  <2> QED
    BY <2>1, <2>2, QuietEntries DEF Next
<1> QED
  BY <1>1, <1>2, Invariant, PTL DEF Spec

(* With m_cs free the container has only live processors: FindDisk, which  *)
(* does not take it, can find a freed one only during a removal. *)
THEOREM ContainerCorrect == Spec => []FreedOnlyUnderLock
<1>1. IInv /\ EntriesOK => FreedOnlyUnderLock
  <2> SUFFICES ASSUME IInv, EntriesOK, Unlocked, NEW i \in Ids, diskMap[i] # None
               PROVE  Live(diskMap[i])
    BY DEF FreedOnlyUnderLock
  <2>1. diskMap[i] \in Procs
    BY IInvParts DEF ServiceTypes
  <2> QED
    BY <2>1 DEF EntriesOK, Erasing, Unlocked
<1> QED
  BY <1>1, Invariant, EntriesInvariant, PTL

(* What the driver has destroyed is leaving the service or gone from it:   *)
(* no destroyed disk stays alive without RemoveEvent, and none stays in    *)
(* the container once its worker has ended. *)
THEOREM DestroyedCorrect == Spec => []DestroyedIsLeaving
<1>1. IInv /\ EntriesOK => DestroyedIsLeaving
  <2> SUFFICES ASSUME IInv, EntriesOK, NEW d \in Procs, pdo[d] = "destroyed"
               PROVE  \/ /\ proc[d].remove
                         /\ proc[d].worker \in {"wait", "work", "erase"}
                         /\ diskMap[proc[d].id] = d
                      \/ ~ Live(d) /\ \A i \in Ids : diskMap[i] # d
    BY DEF DestroyedIsLeaving
  <2>1. DiskOK(d) /\ proc[d] \in ProcTypes
    BY IInvParts DEF DisksOK, ServiceTypes
  <2>2. CASE proc[d].worker = "exited"
    <3>1. ~ Live(d)
      BY <2>1, <2>2 DEF DiskOK
    <3>2. ~ Erasing(d)
      <4> SUFFICES ASSUME NEW c \in Callers, rpc[c].at = "erase", rpc[c].disk = d
                   PROVE  FALSE
        BY <2>2 DEF Erasing
      <4> QED
        BY NotHeld
    <3> QED
      BY <3>1, <3>2, DiskServiceAssumption DEF EntriesOK
  <2>3. CASE proc[d].worker # "exited"
    BY <2>1, <2>3 DEF DiskOK
  <2> QED
    BY <2>2, <2>3
<1> QED
  BY <1>1, Invariant, EntriesInvariant, PTL

-----------------------------------------------------------------------------
(* Requests.  The driver has at most one disk of a number, so that a       *)
(* request Run has of another disk is a destroyed one's, and the one that  *)
(* has the number now has not had a request since. *)
InHand(d) == (irp = "done" \/ run.at = "use") /\ req = d
InSlot(d) == proc[d].slot = d /\ (proc[d].ready \/ proc[d].worker = "work")

HeldOK ==
  /\ run.at = "init" => /\ irp = "none" /\ \A d \in Procs : pdo[d] = "none"
                        /\ \A c \in Callers : rpc[c].at = "user"
  /\ \A d \in Procs : pdo[d] = "none" => ~ busy[d]
  /\ irp = "done" \/ run.at = "use" =>
       \A d \in Procs : InDriver(d) /\ proc[d].id = proc[req].id /\ d # req => ~ busy[d]
  /\ HandleOpen => \A d \in Procs : InDriver(d) /\ busy[d] => InHand(d) \/ InSlot(d)

LEMMA OneInDriver ==
  ASSUME IInv, NEW d \in Procs, NEW e \in Procs, InDriver(d), InDriver(e),
         proc[d].id = proc[e].id
  PROVE  d = e
BY IInvParts DEF DisksOK, DiskOK

(* A step that neither gives the service a request nor takes one from it.  *)
LEMMA SameHeld ==
  ASSUME IInv, HeldOK,
         run'.at = "init" => /\ run.at = "init" /\ irp' = irp
                             /\ \A d \in Procs : pdo'[d] = pdo[d]
                             /\ \A c \in Callers : rpc'[c].at = rpc[c].at,
         irp' = "done" \/ run'.at = "use" =>
           (irp = "done" \/ run.at = "use") /\ req' = req,
         HandleOpen' =>
           /\ HandleOpen \/ \A d \in Procs : pdo[d] = "none"
           /\ \A d \in Procs : InHand(d) /\ InDriver(d) => InHand(d)',
         \A d \in Procs : busy'[d] => busy[d],
         \A d \in Procs : pdo'[d] = "none" => pdo[d] = "none",
         \A d \in Procs : InDriver(d)' => InDriver(d) \/ pdo[d] = "none",
         \A d \in Procs : pdo[d] # "none" => proc'[d].id = proc[d].id,
         \A d \in Procs : InDriver(d) /\ busy[d] /\ InSlot(d) => InSlot(d)'
  PROVE  HeldOK'
<1>1. \A d \in Procs : InDriver(d)' /\ busy'[d] => InDriver(d) /\ busy[d] /\ pdo[d] # "none"
  BY DEF HeldOK, InDriver
<1>2. run'.at = "init" => /\ irp' = "none" /\ \A d \in Procs : pdo'[d] = "none"
                          /\ \A c \in Callers : rpc'[c].at = "user"
  BY DEF HeldOK
<1>3. \A d \in Procs : pdo'[d] = "none" => ~ busy'[d]
  BY DEF HeldOK
<1>4. ASSUME irp' = "done" \/ run'.at = "use",
             NEW d \in Procs, InDriver(d)', proc'[d].id = proc'[req'].id, d # req'
      PROVE  ~ busy'[d]
  <2> SUFFICES ASSUME busy'[d] PROVE FALSE
    OBVIOUS
  <2>1. req' = req /\ req \in Procs /\ pdo[req] # "none"
    BY <1>4, IInvParts DEF RunOK, RunAndScmTypes
  <2>2. proc[d].id = proc[req].id
    BY <1>1, <1>4, <2>1
  <2> QED
    BY <1>1, <1>4, <2>1, <2>2 DEF HeldOK
<1>5. ASSUME HandleOpen', NEW d \in Procs, InDriver(d)', busy'[d]
      PROVE  InHand(d)' \/ InSlot(d)'
  <2>1. InDriver(d) /\ busy[d] /\ HandleOpen
    BY <1>1, <1>5
  <2>2. InHand(d) \/ InSlot(d)
    BY <2>1 DEF HeldOK
  <2> QED
    BY <1>5, <2>1, <2>2
<1> QED
  BY <1>2, <1>3, <1>4, <1>5 DEF HeldOK

(* What the RPC threads and the driver do, but for DispatchRequest. *)
LEMMA OutsideHeld ==
  ASSUME IInv, HeldOK,
         \/ \E c \in Callers : AddDiskStep(c) \/ \E i \in Ids : AddDisk(c, i)
         \/ \E i \in Ids : RemoveDisk(i)
         \/ StopService \/ HandlerStep \/ Interrogate
         \/ \E d \in Procs : Enumerate(d) \/ EjectDisk(d) \/ DestroyPdo(d)
         \/ UNCHANGED vars
  PROVE  HeldOK'
<1> USE DEF serviceVars, runVars, scmVars, driverVars
<1>0. /\ ServiceTypes /\ DriverTypes /\ IInv /\ HeldOK
      /\ \A d \in Procs : proc[d] \in ProcTypes /\ DiskOK(d)
      /\ \A c \in Callers : rpc[c] \in RpcTypes
  BY IInvParts DEF ServiceTypes, DisksOK
<1>1. UNCHANGED <<run, irp, req>>
  BY DEF AddDiskStep, AddDisk, CreateDiskProcessor, CreateFails, InsertDisk,
     RegisterWithDriver, Accepted, Refused, UndoDelete, UndoErase, RemoveDisk,
     StopService, HandlerStep, SetStopPending, ReportStopPending, Interrogate,
     Enumerate, EjectDisk, DestroyPdo, vars
<1>2. HandleOpen' <=> HandleOpen
  BY <1>1 DEF HandleOpen
<1>3. \A d \in Procs : InHand(d)' <=> InHand(d)
  BY <1>1 DEF InHand
<1>4. ASSUME NEW c \in Callers, rpc[c].at # "user",
             \A d \in Procs : \/ proc'[d] = proc[d]
                              \/ pdo[d] = "none",
             busy' = busy,
             \A d \in Procs : \/ pdo'[d] = pdo[d]
                              \/ pdo[d] = "none" /\ pdo'[d] = "present"
      PROVE  HeldOK'
  <2>1. run.at # "init"
    BY <1>4 DEF HeldOK
  <2>2. \A d \in Procs : InDriver(d)' => InDriver(d) \/ pdo[d] = "none"
    BY <1>4 DEF InDriver
  <2>3. \A d \in Procs : InDriver(d) /\ InSlot(d) => InSlot(d)'
    BY <1>4 DEF InDriver, InSlot
  <2> QED
    BY <1>0, <1>1, <1>2, <1>3, <1>4, <2>1, <2>2, <2>3, SameHeld
<1>5. ASSUME NEW c \in Callers, AddDiskStep(c) PROVE HeldOK'
  <2>1. rpc[c].at # "user"
    BY <1>5 DEF AddDiskStep, CreateDiskProcessor, CreateFails, InsertDisk,
       RegisterWithDriver, Accepted, Refused, UndoDelete, UndoErase
  <2>2. busy' = busy
    BY <1>5 DEF AddDiskStep, CreateDiskProcessor, CreateFails, InsertDisk,
       RegisterWithDriver, Accepted, Refused, UndoDelete, UndoErase
  <2>3. CASE CreateFails(c) \/ RegisterWithDriver(c) \/ Refused(c) \/ UndoErase(c)
    <3>1. proc' = proc /\ pdo' = pdo
      BY <2>3 DEF CreateFails, RegisterWithDriver, Refused, UndoErase
    <3> QED
      BY <1>4, <2>1, <2>2, <3>1
  <2>4. ASSUME NEW d \in Procs, CreateDiskProcessor(c, d) PROVE HeldOK'
    <3>1. /\ pdo' = pdo /\ pdo[d] = "none"
          /\ proc' = [proc EXCEPT ![d] = NewProc(rpc[c].id)]
      BY <1>0, <2>4 DEF CreateDiskProcessor, DiskOK, NoProc
    <3> QED
      BY <1>0, <1>4, <2>1, <2>2, <3>1 DEF ServiceTypes
  <2>5. CASE InsertDisk(c) \/ UndoDelete(c)
    <3>1. rpc[c].at \in {"insert", "undo"} /\ rpc[c].at \in Holding /\ pdo' = pdo
      BY <2>5 DEF InsertDisk, UndoDelete, Holding
    <3>2. PICK d \in Procs : d = rpc[c].disk /\ pdo[d] = "none"
      BY <3>1, HeldDisk
    <3>3. rpc[c].at = "undo" => diskMap[rpc[c].id] = d
      BY <3>2, IInvParts DEF CallsOK, CallOK
    <3>4. proc' = proc \/ proc' = [proc EXCEPT ![d] = Deleted(@)]
      BY <2>5, <3>2, <3>3 DEF InsertDisk, UndoDelete, DeleteFound
    <3>5. \A e \in Procs \ {d} : proc'[e] = proc[e]
      BY <1>0, <3>4 DEF ServiceTypes
    <3> QED
      BY <1>4, <2>1, <2>2, <3>1, <3>2, <3>5
  <2>6. CASE Accepted(c)
    <3>1. rpc[c].at = "driver" /\ rpc[c].at \in Holding /\ proc' = proc
      BY <2>6 DEF Accepted, Holding
    <3>2. PICK d \in Procs : d = rpc[c].disk /\ pdo[d] = "none"
      BY <3>1, HeldDisk
    <3>3. pdo' = [pdo EXCEPT ![d] = "present"]
      BY <2>6, <3>2 DEF Accepted
    <3> QED
      BY <1>0, <1>4, <2>1, <2>2, <3>1, <3>2, <3>3 DEF DriverTypes
  <2> QED
    BY <1>5, <2>3, <2>4, <2>5, <2>6 DEF AddDiskStep
<1>6. ASSUME \/ proc' = proc /\ busy' = busy
             \/ \E d \in Procs : DestroyPdo(d),
             \A d \in Procs : pdo[d] = "none" <=> pdo'[d] = "none",
             \A d \in Procs : InDriver(d)' => InDriver(d),
             run.at = "init" =>
               rpc' = rpc /\ \A d \in Procs : pdo'[d] = pdo[d]
      PROVE  HeldOK'
  <2>1. \A d \in Procs : /\ busy'[d] => busy[d] /\ proc'[d].slot = proc[d].slot
                         /\ proc'[d].id = proc[d].id
                         /\ proc'[d].slot = proc[d].slot
                         /\ proc'[d].ready = proc[d].ready
                         /\ proc'[d].worker = proc[d].worker
    BY <1>0, <1>6 DEF DestroyPdo, DriverTypes, ServiceTypes, ProcTypes
  <2>2. \A d \in Procs : InSlot(d)' <=> InSlot(d)
    BY <2>1 DEF InSlot
  <2> QED
    BY <1>0, <1>1, <1>2, <1>3, <1>6, <2>1, <2>2, SameHeld
<1>7. ASSUME NEW c \in Callers, NEW i \in Ids, AddDisk(c, i) PROVE HeldOK'
  <2>1. UNCHANGED <<proc, pdo, busy>> /\ run.at # "init"
    BY <1>7 DEF AddDisk, Listening
  <2> QED
    BY <1>6, <2>1 DEF InDriver
<1>8. ASSUME NEW d \in Procs, pdo[d] \in {"present", "missing"},
             pdo' = [pdo EXCEPT ![d] = "missing"]
                \/ pdo' = [pdo EXCEPT ![d] = "destroyed"]
      PROVE  /\ \A e \in Procs : pdo[e] = "none" <=> pdo'[e] = "none"
             /\ \A e \in Procs : InDriver(e)' => InDriver(e)
             /\ run.at # "init"
  BY <1>0, <1>8 DEF DriverTypes, InDriver, HeldOK
<1>9. CASE \E i \in Ids : RemoveDisk(i)
  BY <1>6, <1>8, <1>9 DEF RemoveDisk, WithId
<1>10. CASE \E d \in Procs : EjectDisk(d)
  BY <1>6, <1>8, <1>10 DEF EjectDisk
<1>11. CASE \E d \in Procs : DestroyPdo(d)
  <2>1. PICK d \in Procs : pdo[d] = "missing" /\ pdo' = [pdo EXCEPT ![d] = "destroyed"]
    BY <1>11 DEF DestroyPdo, RemovePdo
  <2> QED
    BY <1>6, <1>8, <1>11, <2>1
<1>12. CASE \/ StopService \/ HandlerStep \/ Interrogate \/ UNCHANGED vars
             \/ \E d \in Procs : Enumerate(d)
  <2>1. UNCHANGED <<proc, pdo, busy, rpc>>
    BY <1>12 DEF StopService, HandlerStep, SetStopPending, ReportStopPending,
       Interrogate, vars, Enumerate
  <2> QED
    BY <1>6, <2>1 DEF InDriver
<1> QED
  BY <1>5, <1>7, <1>9, <1>10, <1>11, <1>12

(* A request comes: the driver has no other disk of the number, and the    *)
(* one it is of had no request with the service. *)
LEMMA DispatchHeld ==
  ASSUME IInv, HeldOK, NEW d \in Procs, DispatchRequest(d)
  PROVE  HeldOK'
<1>0. DriverTypes /\ RunAndScmTypes /\ RunOK
  BY IInvParts
<1>1. /\ irp = "pending" /\ irp' = "done" /\ req' = d /\ InDriver(d)
      /\ UNCHANGED <<proc, rpc, run, pdo>>
  BY DEF DispatchRequest, serviceVars
<1>2. busy'[d] /\ \A e \in Procs \ {d} : busy'[e] = busy[e]
  BY <1>0 DEF DispatchRequest, DriverTypes
<1>3. run.at # "init" /\ run.at # "use"
  BY <1>0, <1>1 DEF HeldOK, RunOK
<1>4. \A e \in Procs : InDriver(e)' <=> InDriver(e)
  BY <1>1 DEF InDriver
<1>5. ASSUME NEW e \in Procs, InDriver(e), proc[e].id = proc[d].id PROVE e = d
  BY <1>1, <1>5, OneInDriver
<1>6. \A e \in Procs : pdo[e] = "none" => ~ busy'[e]
  BY <1>1, <1>2 DEF HeldOK, InDriver
<1>7. ASSUME HandleOpen', NEW e \in Procs, InDriver(e)', busy'[e]
      PROVE  InHand(e)' \/ InSlot(e)'
  <2>1. CASE e = d
    BY <1>1, <2>1 DEF InHand
  <2>2. CASE e # d
    <3>1. HandleOpen /\ InDriver(e) /\ busy[e]
      BY <1>1, <1>2, <1>4, <1>7, <2>2 DEF HandleOpen
    <3>2. ~ InHand(e)
      BY <1>1, <1>3 DEF InHand
    <3> QED
      BY <1>1, <3>1, <3>2 DEF HeldOK, InSlot
  <2> QED
    BY <2>1, <2>2
<1> QED
  BY <1>1, <1>3, <1>4, <1>5, <1>6, <1>7 DEF HeldOK

(* A reply: it ends the request of whatever disk has the number now. *)
LEMMA ReplyHeld ==
  ASSUME IInv, HeldOK, NEW d \in Procs, SendReply(d)
  PROVE  HeldOK'
<1>0. /\ ServiceTypes /\ DriverTypes /\ DiskOK(d) /\ SlotOK(d)
      /\ proc[d] \in ProcTypes
  BY IInvParts DEF DisksOK, SlotsOK, ServiceTypes
<1>1. UNCHANGED <<rpc, run, irp, req, pdo>> /\ proc[d].worker = "work"
  BY DEF SendReply, runVars
<1>2. /\ \A e \in Procs \ {d} : proc'[e] = proc[e]
      /\ proc'[d].id = proc[d].id
  BY <1>0 DEF SendReply, ServiceTypes, ProcTypes
<1>3. \A e \in Procs : busy'[e] => busy[e]
  BY <1>0 DEF SendReply, DriverTypes
<1>4. ASSUME HandleOpen, InDriver(d) PROVE ~ busy'[d]
  <2>1. proc[d].slot \in Procs /\ proc[proc[d].slot].id = proc[d].id
    BY <1>0, <1>1 DEF SlotOK, MayHave, ProcTypes
  <2>2. {e \in WithId(proc[proc[d].slot].id) : InDriver(e)} = {d}
    BY <1>4, <2>1, OneInDriver DEF WithId
  <2> QED
    BY <1>0, <1>4, <2>2 DEF SendReply, DriverTypes
<1>5. \A e \in Procs : InDriver(e)' <=> InDriver(e)
  BY <1>1 DEF InDriver
<1>6. /\ HandleOpen' <=> HandleOpen
      /\ \A e \in Procs : InHand(e)' <=> InHand(e)
      /\ \A e \in Procs \ {d} : InSlot(e)' <=> InSlot(e)
  BY <1>1, <1>2 DEF HandleOpen, InHand, InSlot
<1>7. \A e \in Procs : proc'[e].id = proc[e].id
  BY <1>2
<1>8. /\ run'.at = "init" => /\ irp' = "none" /\ \A e \in Procs : pdo'[e] = "none"
                             /\ \A c \in Callers : rpc'[c].at = "user"
      /\ \A e \in Procs : pdo'[e] = "none" => ~ busy'[e]
  BY <1>1, <1>3 DEF HeldOK
<1>9. ASSUME irp' = "done" \/ run'.at = "use",
             NEW e \in Procs, InDriver(e)', proc'[e].id = proc'[req'].id, e # req'
      PROVE  ~ busy'[e]
  <2>1. req \in Procs
    BY <1>1, <1>9, IInvParts DEF RunOK, RunAndScmTypes
  <2> QED
    BY <1>1, <1>3, <1>5, <1>7, <1>9, <2>1 DEF HeldOK
<1>10. ASSUME HandleOpen', NEW e \in Procs, InDriver(e)', busy'[e]
       PROVE  InHand(e)' \/ InSlot(e)'
  <2>1. e # d /\ InDriver(e) /\ busy[e] /\ HandleOpen
    BY <1>3, <1>4, <1>5, <1>6, <1>10
  <2> QED
    BY <1>6, <2>1 DEF HeldOK
<1> QED
  BY <1>8, <1>9, <1>10 DEF HeldOK

(* The worker's other steps. *)
LEMMA WorkerHeld ==
  ASSUME IInv, HeldOK, NEW d \in Procs,
         ServeRequest(d) \/ RemoveDiskFinal(d) \/ EraseDisk(d)
  PROVE  HeldOK'
<1>0. /\ ServiceTypes /\ DiskOK(d) /\ proc[d] \in ProcTypes
  BY IInvParts DEF DisksOK, ServiceTypes
<1>1. UNCHANGED <<rpc, run, irp, req, pdo, known, busy, ready>>
  BY DEF ServeRequest, RemoveDiskFinal, EraseDisk, runVars, driverVars
<1>2. \A e \in Procs : /\ InDriver(e)' <=> InDriver(e)
                       /\ InHand(e)' <=> InHand(e)
  BY <1>1 DEF InDriver, InHand
<1>3. HandleOpen' <=> HandleOpen
  BY <1>1 DEF HandleOpen
<1>4. CASE ServeRequest(d)
  <2>1. /\ \A e \in Procs \ {d} : proc'[e] = proc[e]
        /\ proc'[d].id = proc[d].id /\ proc'[d].slot = proc[d].slot
        /\ proc'[d].worker = "work"
    BY <1>0, <1>4 DEF ServeRequest, ServiceTypes, ProcTypes
  <2>2. \A e \in Procs : InSlot(e) => InSlot(e)'
    BY <2>1 DEF InSlot
  <2> QED
    BY <1>1, <1>2, <1>3, <2>1, <2>2, SameHeld
<1>5. CASE RemoveDiskFinal(d) \/ EraseDisk(d)
  <2>1. pdo[d] = "destroyed" /\ proc[d].id \in Ids
    BY <1>0, <1>5 DEF RemoveDiskFinal, EraseDisk, DiskOK
  <2>2. Touches(d)
    <3>1. proc[d].worker = "wait" => diskMap[proc[d].id] = d /\ proc[d].deletes = 0
      BY <1>0, <2>1 DEF DiskOK, Live, NoProc
    <3>2. CASE RemoveDiskFinal(d)
      <4>1. DeleteFound(proc[d].id) = [proc EXCEPT ![d] = Deleted(@)]
        BY <3>1, <3>2, DiskServiceAssumption DEF RemoveDiskFinal, DeleteFound
      <4>2. /\ diskMap' = diskMap
            /\ proc' = [proc EXCEPT ![d] = [Deleted(@) EXCEPT !.worker = "erase"]]
        BY <1>0, <3>2, <4>1 DEF RemoveDiskFinal, ServiceTypes
      <4>3. PICK r \in ProcTypes : /\ r = Deleted(proc[d]) /\ r.id = proc[d].id
                                   /\ r.slot = proc[d].slot /\ r.ready = proc[d].ready
        BY <1>0, <3>1, <3>2, DeletedFields DEF RemoveDiskFinal
      <4>4. /\ \A e \in Procs \ {d} : proc'[e] = proc[e]
            /\ proc'[d] = [r EXCEPT !.worker = "erase"]
        BY <1>0, <4>2, <4>3 DEF ServiceTypes
      <4> QED
        BY <1>1, <4>2, <4>3, <4>4 DEF Touches, ProcTypes
    <3>3. CASE EraseDisk(d)
      <4>1. diskMap[proc[d].id] = d
        BY <1>0, <2>1, <3>3 DEF EraseDisk, DiskOK, Live
      <4> QED
        BY <1>0, <1>1, <2>1, <3>3, <4>1 DEF Touches, EraseDisk, ServiceTypes, ProcTypes
    <3> QED
      BY <1>5, <3>2, <3>3
  <2>3. \A e \in Procs : proc[e].id # None => proc'[e].id = proc[e].id
    BY <2>2 DEF Touches
  <2>4. \A e \in Procs : pdo[e] # "none" => proc'[e].id = proc[e].id
    BY <2>3, IInvParts, DiskServiceAssumption DEF DisksOK, DiskOK
  <2>5. \A e \in Procs : InDriver(e) /\ InSlot(e) => InSlot(e)'
    BY <2>1, <2>2 DEF Touches, InDriver, InSlot
  <2> QED
    BY <1>1, <1>2, <1>3, <2>4, <2>5, SameHeld
<1> QED
  BY <1>4, <1>5

(* Run: a request whose disk is in the driver is put into the disk's slot, *)
(* and one of an earlier disk into the slot of a disk that is not busy. *)
LEMMA RunHeld ==
  ASSUME IInv, HeldOK,
         ServiceStarts \/ ServiceFailsToStart \/ RunStep \/ GetRequestFails
  PROVE  HeldOK'
<1> USE DEF serviceVars, driverVars
<1>0. /\ ServiceTypes /\ DriverTypes /\ RunAndScmTypes /\ RunOK /\ run \in RunTypes
      /\ \A d \in Procs : proc[d] \in ProcTypes /\ DiskOK(d) /\ pdo[d] \in PdoStates
  BY IInvParts DEF ServiceTypes, DriverTypes, DisksOK, RunAndScmTypes
<1>1. CASE ServiceStarts
  <2>1. /\ \A d \in Procs : pdo[d] = "none"
        /\ run'.at = "wait" /\ irp' = "pending" /\ UNCHANGED <<proc, pdo, known, busy, ready>>
    BY <1>0, <1>1 DEF ServiceStarts, HeldOK, RunTypes
  <2> QED
    BY <2>1 DEF HeldOK, InDriver
<1>2. CASE \/ ServiceFailsToStart \/ Terminated \/ GetRequestFails \/ Terminate
           \/ CloseBus \/ RemoveAllDisks \/ BusClosed \/ SetStopped \/ ReportStopped
  <2>1. /\ UNCHANGED <<proc, busy, req>> /\ run.at # "use"
        /\ run'.at \notin {"init", "use", "wait"}
        /\ irp' = "done" => irp = "done"
    BY <1>0, <1>2 DEF RunTypes, ServiceFailsToStart, Terminated, GetRequestFails,
       Terminate, CloseBus, RemoveAllDisks, BusClosed, SetStopped, ReportStopped
  <2>2. HandleOpen' => /\ HandleOpen
                       /\ irp = "done" => irp' = "done"
    BY <1>0, <1>2 DEF HandleOpen, RunTypes, ServiceFailsToStart, Terminated,
       GetRequestFails, Terminate, CloseBus, RemoveAllDisks, BusClosed, SetStopped,
       ReportStopped
  <2>3. \A d \in Procs : /\ pdo'[d] = "none" <=> pdo[d] = "none"
                         /\ InDriver(d)' <=> InDriver(d)
    BY <1>0, <1>2 DEF ServiceFailsToStart, Terminated, GetRequestFails,
       Terminate, CloseBus, RemoveAllDisks, BusClosed, SetStopped, ReportStopped,
       DriverTypes, PdoStates, InDriver
  <2>4. HandleOpen' => \A d \in Procs : InHand(d) => InHand(d)'
    BY <2>1, <2>2 DEF InHand
  <2>5. \A d \in Procs : InSlot(d)' <=> InSlot(d)
    BY <2>1 DEF InSlot
  <2> QED
    BY <2>1, <2>2, <2>3, <2>4, <2>5, SameHeld
<1>3. CASE FindDisk
  <2> DEFINE d == diskMap[proc[req].id]
  <2>1. /\ irp = "done" /\ req \in Procs /\ pdo[req] # "none" /\ run.at = "wait"
        /\ UNCHANGED <<proc, pdo, known, busy, ready, rpc>>
    BY <1>0, <1>3 DEF FindDisk, RunOK, RunAndScmTypes
  <2>2. \A e \in Procs : (InDriver(e)' <=> InDriver(e)) /\ (InSlot(e)' <=> InSlot(e))
    BY <2>1 DEF InDriver, InSlot
  <2>3. CASE d = None
    <3>1. irp' = "pending" /\ run' = run
      BY <1>3, <2>3 DEF FindDisk
    <3>2. ~ InDriver(req)
      BY <1>0, <2>1, <2>3, DiskServiceAssumption DEF DiskOK
    <3>3. HandleOpen' => HandleOpen /\ \A e \in Procs : ~ (InHand(e) /\ InDriver(e))
      BY <3>1, <3>2 DEF HandleOpen, InHand
    <3> QED
      BY <2>1, <2>2, <3>1, <3>3, SameHeld
  <2>4. CASE d # None
    <3>1. irp' = "none" /\ run'.at = "use" /\ req' = req
      BY <1>3, <2>4 DEF FindDisk
    <3>2. /\ HandleOpen
          /\ \A e \in Procs : InHand(e) => InHand(e)'
      BY <2>1, <3>1 DEF HandleOpen, InHand
    <3> QED
      BY <2>1, <2>2, <3>1, <3>2, SameHeld
  <2> QED
    BY <2>3, <2>4
<1>4. CASE ProcessRequest
  <2>1. /\ run.at = "use" /\ irp = "none" /\ run'.at = "wait" /\ irp' = "pending"
        /\ UNCHANGED <<pdo, known, busy, ready, rpc>> /\ HandleOpen
    BY <1>0, <1>4 DEF ProcessRequest, RunOK, HandleOpen
  <2>2. PICK d \in Procs : d = run.disk /\ req \in Procs /\ MayHave(d, req)
    BY <1>0, <2>1 DEF RunOK, RunAndScmTypes, RunTypes
  <2>3. /\ \A e \in Procs \ {d} : proc'[e] = proc[e]
        /\ Live(d) => /\ proc'[d].slot = req /\ proc'[d].ready
                      /\ proc'[d].id = proc[d].id /\ proc'[d].worker = proc[d].worker
        /\ ~ Live(d) => proc' = proc
    BY <1>0, <1>4, <2>2 DEF ProcessRequest, ServiceTypes, ProcTypes
  <2>4. \A e \in Procs : InDriver(e)' <=> InDriver(e)
    BY <2>1 DEF InDriver
  <2>5. ASSUME NEW e \in Procs, InDriver(e), busy[e] PROVE InSlot(e)'
    <3>1. InHand(e) \/ InSlot(e)
      BY <2>1, <2>5 DEF HeldOK
    <3>2. Live(e)
      BY <1>0, <2>5 DEF DiskOK
    <3>3. CASE e = req
      <4>1. e = d
        BY <2>2, <2>5, <3>3 DEF MayHave, InDriver
      <4> QED
        BY <2>3, <3>2, <3>3, <4>1 DEF InSlot
    <3>4. CASE e # req
      <4>1. InSlot(e)
        BY <3>1, <3>4 DEF InHand
      <4>2. e # d
        <5> SUFFICES ASSUME e = d PROVE FALSE
          OBVIOUS
        <5>1. proc[req].id = proc[e].id
          BY <2>2 DEF MayHave
        <5> QED
          BY <2>1, <2>5, <3>4, <5>1 DEF HeldOK
      <4> QED
        BY <2>3, <4>1, <4>2 DEF InSlot
    <3> QED
      BY <3>3, <3>4
  <2> QED
    BY <2>1, <2>4, <2>5 DEF HeldOK
<1> QED
  BY <1>1, <1>2, <1>3, <1>4 DEF RunStep

LEMMA HeldInvariant == Spec => []HeldOK
<1>1. Init => HeldOK
  BY DEF Init, HeldOK, HandleOpen, User
<1>2. IInv /\ HeldOK /\ [Next]_vars => HeldOK'
  <2> SUFFICES ASSUME IInv, HeldOK, [Next]_vars PROVE HeldOK'
    OBVIOUS
  <2> QED
    BY OutsideHeld, DispatchHeld, ReplyHeld, WorkerHeld, RunHeld DEF Next, WorkerStep
<1> QED
  BY <1>1, <1>2, Invariant, PTL DEF Spec

(* No request is lost between the driver and a worker, with one slot per   *)
(* disk and no look at what is in it: what ProcessRequest overwrites is    *)
(* never the request of a disk the driver has. *)
THEOREM HeldCorrect == Spec => []RequestIsHeld
<1>1. HeldOK => RequestIsHeld
  BY DEF HeldOK, RequestIsHeld, InHand, InSlot
<1> QED
  BY <1>1, HeldInvariant, PTL

-----------------------------------------------------------------------------
(* The end of the service: what CtrlHandler and ServiceMain have told.     *)
StopOK ==
  /\ StopIsRemembered
  /\ run.at = "init" => /\ handler = "idle"
                        /\ status = "START_PENDING" /\ scm = "START_PENDING"
  /\ run.at \in {"report", "stopped"} => status \in {"STOPPED", "STOP_PENDING"}
  /\ StoppedOrOverwritten

LEMMA HandlerStop ==
  ASSUME StopOK, StopService \/ HandlerStep \/ Interrogate
  PROVE  StopOK'
<1>1. run' = run
  BY DEF StopService, HandlerStep, SetStopPending, ReportStopPending, Interrogate, runVars
<1>2. CASE StopService
  BY <1>1, <1>2 DEF StopOK, StopIsRemembered, StoppedOrOverwritten, StopService
<1>3. CASE SetStopPending
  BY <1>1, <1>3 DEF StopOK, StopIsRemembered, StoppedOrOverwritten, SetStopPending
<1>4. CASE ReportStopPending
  BY <1>1, <1>4 DEF StopOK, StopIsRemembered, StoppedOrOverwritten, ReportStopPending,
     Report
<1>5. CASE Interrogate
  BY <1>1, <1>5 DEF StopOK, StopIsRemembered, StoppedOrOverwritten, Interrogate, Report
<1> QED
  BY <1>2, <1>3, <1>4, <1>5 DEF HandlerStep

LEMMA MainStop ==
  ASSUME IInv, StopOK, ServiceStarts \/ ServiceFailsToStart \/ RunStep \/ GetRequestFails
  PROVE  StopOK'
<1> USE DEF scmVars
<1>0. run \in RunTypes
  BY IInvParts DEF RunAndScmTypes
<1>1. CASE ServiceStarts \/ ServiceFailsToStart
  BY <1>0, <1>1 DEF StopOK, StopIsRemembered, StoppedOrOverwritten, ServiceStarts,
     ServiceFailsToStart, RunTypes
<1>2. CASE FindDisk \/ ProcessRequest
  <2>1. /\ UNCHANGED <<term, handler, status, scm>>
        /\ run.at \in {"wait", "use"} /\ run'.at \in {"wait", "use"}
    BY <1>2 DEF FindDisk, ProcessRequest
  <2> QED
    BY <2>1 DEF StopOK, StopIsRemembered, StoppedOrOverwritten
<1>3. CASE \/ Terminated \/ GetRequestFails \/ Terminate
           \/ CloseBus \/ RemoveAllDisks \/ BusClosed
  <2>1. /\ UNCHANGED <<handler, status, scm>>
        /\ run'.at \in {"terminate", "close", "reset", "closing", "closed"}
    BY <1>0, <1>3 DEF Terminated, GetRequestFails, Terminate, CloseBus, RemoveAllDisks,
       BusClosed, RunTypes
  <2> QED
    BY <2>1 DEF StopOK, StopIsRemembered, StoppedOrOverwritten
<1>4. CASE SetStopped
  BY <1>0, <1>4 DEF StopOK, StopIsRemembered, StoppedOrOverwritten, SetStopped, RunTypes
<1>5. CASE ReportStopped
  BY <1>0, <1>5 DEF StopOK, StopIsRemembered, StoppedOrOverwritten, ReportStopped, Report,
     RunTypes
<1> QED
  BY <1>1, <1>2, <1>3, <1>4, <1>5 DEF RunStep

LEMMA StopInvariant == Spec => []StopOK
<1>1. Init => StopOK
  BY DEF Init, StopOK, StopIsRemembered, StoppedOrOverwritten
<1>2. IInv /\ StopOK /\ [Next]_vars => StopOK'
  <2> SUFFICES ASSUME IInv, StopOK, [Next]_vars PROVE StopOK'
    OBVIOUS
  <2>1. CASE UNCHANGED <<run, scmVars>>
    BY <2>1 DEF StopOK, StopIsRemembered, StoppedOrOverwritten, scmVars
  <2>2. ASSUME NEW c \in Callers, AddDiskStep(c) \/ \E i \in Ids : AddDisk(c, i)
        PROVE  StopOK'
    BY <2>1, <2>2 DEF AddDiskStep, AddDisk, CreateDiskProcessor, CreateFails, InsertDisk,
       RegisterWithDriver, Accepted, Refused, UndoDelete, UndoErase, runVars
  <2>3. CASE \E i \in Ids : RemoveDisk(i)
    BY <2>1, <2>3 DEF RemoveDisk, runVars
  <2>4. ASSUME NEW d \in Procs,
               \/ WorkerStep(d) \/ Enumerate(d)
               \/ DispatchRequest(d) \/ EjectDisk(d) \/ DestroyPdo(d)
        PROVE  StopOK'
    BY <2>1, <2>4 DEF WorkerStep, ServeRequest, SendReply, RemoveDiskFinal, EraseDisk,
       Enumerate, DispatchRequest, EjectDisk, DestroyPdo, runVars
  <2>5. CASE UNCHANGED vars
    BY <2>1, <2>5 DEF vars, runVars
  <2> QED
    BY <2>2, <2>3, <2>4, <2>5, HandlerStop, MainStop DEF Next
<1> QED
  BY <1>1, <1>2, Invariant, PTL DEF Spec

(* No stop is lost: TerminationEvent is before Run from CtrlHandler's      *)
(* SetEvent until Run has left its loop, whatever the states reported. *)
THEOREM StopCorrect == Spec => []StopIsRemembered
BY StopInvariant, PTL DEF StopOK

(* A service that has ended is reported so unless CtrlHandler has written  *)
(* STOP_PENDING over STOPPED: the order that the run stuck shows is the    *)
(* only one in which the SCM never hears of the end. *)
THEOREM StoppedCorrect == Spec => []StoppedOrOverwritten
BY StopInvariant, PTL DEF StopOK
=============================================================================
