------------------------- MODULE PnpLifecycleProofs -------------------------
(***************************************************************************)
(* Proofs about PnpLifecycle, for any disks, serial numbers and threads,   *)
(* any IOCTLs, circumstances of the close and bound of failures.           *)
(*                                                                         *)
(* The invariant is built in layers:                                       *)
(*   DataTypes  every variable but the counters has its type;              *)
(*   StructOK   which disks exist, which are on the list, which one is     *)
(*              being removed, and what the PnP manager knows of them;     *)
(*   EventOK, CountOK, LockOK  the RemoveEvents, NumPDOs and the remove    *)
(*              lock of the FDO, each on top of the first two.             *)
(* That the counters are natural numbers follows from the last two.        *)
(***************************************************************************)
EXTENDS PnpLifecycle, SequenceLemmas

Alive(p) == pdo[p].object = "live"
Leaving(p) == mgr.at = "destroy" /\ mgr.pdo = p

(* The list: the disks that live and have a parent, each once. *)
ListOK ==
  /\ IsInjective(list)
  /\ \A p \in Listed : Alive(p) /\ pdo[p].parent
  /\ \A p \in Pdos : Alive(p) /\ pdo[p].parent => p \in Listed \/ Leaving(p)

(* The disk that is being removed. *)
RemovalOK ==
  /\ mgr.at \in {"unlink", "destroy", "count"} => mgr.pdo \in Pdos
  /\ mgr.at = "unlink" => mgr.pdo \in Listed
  /\ mgr.at = "destroy" => mgr.pdo \notin Listed /\ Alive(mgr.pdo)

(* Once the FDO is Deleted nothing comes back. *)
FdoDone == mgr.at \in {"fdoRelease", "fdoWait"} \/ bus.node = "gone"

Settled(p) ==
  \/ dev[p].node \in {"unknown", "gone"}
  \/ dev[p].node = "removed" /\ ~ dev[p].missing

HandleOK == handle = "closed" => \A c \in Callers : call[c] = User

FdoOK ==
  FdoDone =>
    /\ list = <<>>
    /\ handle = "closed"
    /\ mgr.at \in {"idle", "fdoRelease", "fdoWait"}
    /\ bus.node \in {"added", "removePending", "surprise", "gone"}
    /\ \A p \in Pdos : Settled(p)

(* What the PnP manager knows and is not rid of exists. *)
KnownOK ==
  \A p \in Pdos :
    dev[p].node \notin {"unknown", "gone"} =>
      Alive(p) \/ (mgr.at = "count" /\ mgr.pdo = p) \/ FdoDone

(* DevicePnPState says so: a handle opened from then on is refused. *)
DeletedOK == FdoDone => fdo.now = "Deleted"

StructOK == ListOK /\ RemovalOK /\ HandleOK /\ FdoOK /\ KnownOK

-----------------------------------------------------------------------------

LEMMA InitDataTypes == Init => DataTypes
<1> SUFFICES ASSUME Init PROVE DataTypes
  OBVIOUS
<1>1. fdo \in [now : PnpStates, prev : PnpStates]
  BY DEF Init, NotStarted, PnpStates
<1>2. list \in Seq(Pdos)
  BY EmptySeq DEF Init
<1>3. pdo \in [Pdos -> PdoTypes]
  BY DEF Init, NoPdo, PdoTypes, PnpStates
<1>4. call \in [Callers -> [at : Places, serial : Serials \cup {None},
                           pdo : Pdos \cup {None}]]
  BY DEF Init, User, Places
<1>5. mgr \in [at : RemovePlaces, pdo : Pdos \cup {None}, fdoData : BOOLEAN]
  BY DEF Init, NoRemoval, RemovePlaces
<1>6. bus \in [node : BusNodes, missing : BOOLEAN, stale : BOOLEAN]
  BY DEF Init, BusNodes
<1>7. dev \in [Pdos -> [node : Nodes, missing : BOOLEAN, eject : BOOLEAN]]
  BY DEF Init, Nodes
<1>8. ready \in BOOLEAN /\ event \in [Pdos -> BOOLEAN] /\ handle \in HandlePlaces
      /\ stray \in BOOLEAN
  BY DEF Init, HandlePlaces
<1> QED
  BY <1>1, <1>2, <1>3, <1>4, <1>5, <1>6, <1>7, <1>8 DEF DataTypes

(* What a thread in an IOCTL does keeps the types. *)
LEMMA IoctlDataTypes ==
  ASSUME DataTypes, NEW c \in Callers, Ioctl(c) \/ InIoctl(c)
  PROVE  DataTypes'
<1> USE PnpAssumption DEF DataTypes, User, Places, pdoVars, mgrVars, fdoVars
<1>1. ASSUME NEW s \in Serials, AddDisk(c, s) PROVE DataTypes'
  BY <1>1 DEF AddDisk, Enter
<1>2. ASSUME NEW s \in Serials, RemoveDisk(c, s) PROVE DataTypes'
  BY <1>2 DEF RemoveDisk, Enter
<1>3. ASSUME GetRequest(c) PROVE DataTypes'
  BY <1>3 DEF GetRequest, Enter
<1>4. ASSUME CheckUnique(c) PROVE DataTypes'
  <2> DEFINE taken == \E p \in Listed : pdo[p].serial = call[c].serial
                                       /\ pdo[p].now # "SurpriseRemovePending"
  <2>1. CASE taken
    <3>1. call' = [call EXCEPT ![c] = User]
      BY <1>4, <2>1 DEF CheckUnique, Leave
    <3> HIDE DEF taken
    <3> QED
      BY <1>4, <3>1 DEF CheckUnique
  <2>2. CASE ~ taken
    <3>1. call' = [call EXCEPT ![c].at = "insert"]
      BY <1>4, <2>2 DEF CheckUnique
    <3> HIDE DEF taken
    <3> QED
      BY <1>4, <3>1 DEF CheckUnique
  <2> QED
    BY <2>1, <2>2
<1>5. ASSUME AddFails(c) PROVE DataTypes'
  BY <1>5 DEF AddFails, Leave
<1>6. ASSUME Invalidate(c) PROVE DataTypes'
  BY <1>6 DEF Invalidate, Leave
<1>7. ASSUME FindDisk(c) PROVE DataTypes'
  <2>1. event' \in [Pdos -> BOOLEAN]
    BY <1>7 DEF FindDisk
  <2>2. dev' \in [Pdos -> [node : Nodes, missing : BOOLEAN, eject : BOOLEAN]]
    <3>1. CASE UNCHANGED dev
      BY <3>1
    <3>2. CASE ~ UNCHANGED dev
      <4>1. PICK p : dev' = [dev EXCEPT ![p].eject = @ \/ dev[p].node # "unknown"]
        BY <1>7, <3>2 DEF FindDisk
      <4>2. \A d \in [node : Nodes, missing : BOOLEAN, eject : BOOLEAN], b \in BOOLEAN :
              [d EXCEPT !.eject = b] \in [node : Nodes, missing : BOOLEAN, eject : BOOLEAN]
        OBVIOUS
      <4>3. dev \in [Pdos -> [node : Nodes, missing : BOOLEAN, eject : BOOLEAN]]
        OBVIOUS
      <4> QED
        BY ONLY <4>1, <4>2, <4>3
    <3> QED
      BY <3>1, <3>2
  <2>3. call' = [call EXCEPT ![c] = User]
    BY <1>7 DEF FindDisk, Leave
  <2> QED
    BY <1>7, <2>1, <2>2, <2>3 DEF FindDisk
<1>8. ASSUME WalkDone(c) PROVE DataTypes'
  BY <1>8 DEF WalkDone, Leave
<1>9. ASSUME NEW p \in Pdos, InsertPdo(c, p) PROVE DataTypes'
  <2>1. pdo' = [pdo EXCEPT ![p] = NewPdo(call[c].serial)]
    BY <1>9 DEF InsertPdo
  <2>2. NewPdo(call[c].serial) \in PdoTypes
    BY DEF NewPdo, NoPdo, PdoTypes, PnpStates
  <2>3. pdo' \in [Pdos -> PdoTypes]
    BY <2>1, <2>2
  <2>4. list' \in Seq(Pdos)
    BY <1>9, AppendElements DEF InsertPdo
  <2>5. call' = [call EXCEPT ![c].at = "invalidate"]
    BY <1>9 DEF InsertPdo
  <2>6. UNCHANGED <<fdo, ready, event, handle, mgr, bus, dev, stray>>
    BY <1>9 DEF InsertPdo
  <2>7. call' \in [Callers -> [at : Places, serial : Serials \cup {None},
                              pdo : Pdos \cup {None}]]
    <3>1. call[c] \in [at : Places, serial : Serials \cup {None}, pdo : Pdos \cup {None}]
      OBVIOUS
    <3>2. [call[c] EXCEPT !.at = "invalidate"] \in
             [at : Places, serial : Serials \cup {None}, pdo : Pdos \cup {None}]
      BY <3>1
    <3> QED
      BY <2>5, <3>2
  <2> QED
    BY <2>3, <2>4, <2>6, <2>7
<1>10. ASSUME NEW p \in Pdos, WalkTo(c, p) PROVE DataTypes'
  BY <1>10 DEF WalkTo
<1> QED
  BY <1>1, <1>2, <1>3, <1>4, <1>5, <1>6, <1>7, <1>8, <1>9, <1>10 DEF Ioctl, InIoctl

(* What the handlers do to a PDO's extension. *)
LEMMA PdoStates ==
  ASSUME NEW d \in PdoTypes, NEW s \in PnpStates
  PROVE  /\ SetNew(d, s) \in PdoTypes
         /\ SetNew(d, s).object = d.object /\ SetNew(d, s).parent = d.parent
         /\ Cancel(d, s) \in PdoTypes
         /\ Cancel(d, s).object = d.object /\ Cancel(d, s).parent = d.parent
<1>1. /\ SetNew(d, s) \in PdoTypes
      /\ SetNew(d, s).object = d.object /\ SetNew(d, s).parent = d.parent
  BY DEF SetNew, PdoTypes
<1>2. /\ Restore(d) \in PdoTypes
      /\ Restore(d).object = d.object /\ Restore(d).parent = d.parent
  BY DEF Restore, PdoTypes
<1> QED
  BY <1>1, <1>2 DEF Cancel

LEMMA PdoFlags ==
  ASSUME NEW d \in PdoTypes, NEW b \in BOOLEAN
  PROVE  /\ [d EXCEPT !.present = b] \in PdoTypes
         /\ [d EXCEPT !.reportedMissing = b] \in PdoTypes
         /\ [d EXCEPT !.parent = b] \in PdoTypes
         /\ [d EXCEPT !.surprised = b] \in PdoTypes
         /\ [d EXCEPT !.parent = FALSE, !.reportedMissing = TRUE] \in PdoTypes
  BY DEF PdoTypes

LEMMA MarkedPdo ==
  ASSUME NEW d \in PdoTypes
  PROVE  /\ [d EXCEPT !.reportedMissing = TRUE].object = d.object
         /\ [d EXCEPT !.reportedMissing = TRUE].parent = d.parent
         /\ [d EXCEPT !.parent = FALSE, !.reportedMissing = TRUE].object = d.object
         /\ ~ [d EXCEPT !.parent = FALSE, !.reportedMissing = TRUE].parent
  BY DEF PdoTypes

LEMMA FreedPdo ==
  ASSUME NEW d \in PdoTypes
  PROVE  /\ Freed(d) \in PdoTypes
         /\ Freed(d).object = "destroyed" /\ Freed(d).parent = d.parent
<1>1. NoPdo \in PdoTypes
  BY DEF NoPdo, PdoTypes, PnpStates
<1>2. d.parent \in BOOLEAN /\ "Deleted" \in PnpStates
  BY DEF PdoTypes, PnpStates
<1> QED
  BY <1>1, <1>2 DEF Freed, PdoTypes

(* So does what happens to the handle. *)
LEMMA HandleDataTypes ==
  ASSUME DataTypes, OpenHandle \/ CloseHandle \/ Cleanup \/ Close
  PROVE  DataTypes'
<1> USE DEF DataTypes, HandlePlaces, pdoVars, mgrVars, fdoVars
<1>1. CASE OpenHandle
  BY <1>1 DEF OpenHandle, Bus_CreateClose
<1>2. CASE CloseHandle
  BY <1>2 DEF CloseHandle
<1>3. CASE CleanupCheck
  BY <1>3 DEF CleanupCheck
<1>4. CASE CleanupReset
  BY <1>4 DEF CleanupReset
<1>5. CASE Bus_RemoveAllDisks
  <2>1. pdo' \in [Pdos -> PdoTypes]
    <3>1. \A p \in Pdos : pdo[p] \in PdoTypes
      OBVIOUS
    <3> QED
      <4>1. CASE UNCHANGED pdo
        BY <4>1
      <4>2. CASE ~ UNCHANGED pdo
        <5>1. pdo' = [p \in Pdos |-> IF p \in Listed THEN [pdo[p] EXCEPT !.present = FALSE]
                                                   ELSE pdo[p]]
          BY <1>5, <4>2 DEF Bus_RemoveAllDisks
        <5> QED
          BY <3>1, <5>1, PdoFlags
      <4> QED
        BY <4>1, <4>2
  <2>2. bus' \in [node : BusNodes, missing : BOOLEAN, stale : BOOLEAN]
    BY <1>5 DEF Bus_RemoveAllDisks
  <2> QED
    BY <1>5, <2>1, <2>2 DEF Bus_RemoveAllDisks
<1>6. CASE CleanupWait
  BY <1>6 DEF CleanupWait
<1>7. CASE Close
  BY <1>7 DEF Close, Bus_CreateClose
<1> QED
  BY <1>1, <1>2, <1>3, <1>4, <1>5, <1>6, <1>7 DEF Cleanup

LEMMA FdoStates ==
  ASSUME fdo \in [now : PnpStates, prev : PnpStates], NEW s \in PnpStates
  PROVE  /\ SetNew(fdo, s) \in [now : PnpStates, prev : PnpStates]
         /\ Cancel(fdo, s) \in [now : PnpStates, prev : PnpStates]
  BY DEF SetNew, Cancel, Restore

(* And the PnP IRPs of the bus. *)
LEMMA FdoDataTypes ==
  ASSUME DataTypes, FdoPnp
  PROVE  DataTypes'
<1> USE FdoStates DEF DataTypes, FdoUnchanged, BusTo, BusNodes, pdoVars, serviceVars, mgrVars, fdoVars
<1>0. \A s \in PnpStates : /\ SetNew(fdo, s) \in [now : PnpStates, prev : PnpStates]
                           /\ Cancel(fdo, s) \in [now : PnpStates, prev : PnpStates]
  OBVIOUS
<1>s. /\ "Started" \in PnpStates /\ "StopPending" \in PnpStates
      /\ "Stopped" \in PnpStates /\ "RemovePending" \in PnpStates
      /\ "SurpriseRemovePending" \in PnpStates /\ "Deleted" \in PnpStates
  BY DEF PnpStates
<1> HIDE FdoStates
<1>1. CASE StartFdo
  <2>1. fdo' \in [now : PnpStates, prev : PnpStates]
    BY <1>0, <1>s, <1>1 DEF StartFdo
  <2>2. bus' \in [node : BusNodes, missing : BOOLEAN, stale : BOOLEAN]
    BY <1>1 DEF StartFdo
  <2> QED
    BY <1>1, <2>1, <2>2 DEF StartFdo
<1>2. CASE QueryStopFdo
  BY <1>0, <1>s, <1>2 DEF QueryStopFdo
<1>3. CASE CancelStopFdo
  BY <1>0, <1>s, <1>3 DEF CancelStopFdo
<1>4. CASE StopFdo
  BY <1>0, <1>s, <1>4 DEF StopFdo
<1>5. CASE QueryRemoveFdo
  BY <1>0, <1>s, <1>5 DEF QueryRemoveFdo
<1>6. CASE CancelRemoveFdo
  BY <1>0, <1>s, <1>6 DEF CancelRemoveFdo
<1>7. CASE BusVanishes
  BY <1>7 DEF BusVanishes
<1>8. CASE SurpriseRemovalFdo
  <2>1. pdo' \in [Pdos -> PdoTypes]
    <3>1. \A p \in Pdos : pdo[p] \in PdoTypes
      OBVIOUS
    <3> QED
      BY <1>8, <3>1, PdoFlags DEF SurpriseRemovalFdo
  <2>2. list' \in Seq(Pdos)
    BY <1>8, EmptySeq DEF SurpriseRemovalFdo
  <2> QED
    BY <1>0, <1>s, <1>8, <2>1, <2>2 DEF SurpriseRemovalFdo
<1>9. CASE RemoveFdo
  <2>1. pdo' \in [Pdos -> PdoTypes]
    <3>1. \A p \in Pdos : pdo[p] \in PdoTypes
      OBVIOUS
    <3> QED
      BY <1>9, <3>1, PdoFlags, FreedPdo DEF RemoveFdo
  <2>2. list' \in Seq(Pdos)
    BY <1>9, EmptySeq DEF RemoveFdo
  <2>3. event' \in [Pdos -> BOOLEAN]
    BY <1>9 DEF RemoveFdo
  <2>4. mgr' \in [at : RemovePlaces, pdo : Pdos \cup {None}, fdoData : BOOLEAN]
    BY <1>9 DEF RemoveFdo, NoRemoval, RemovePlaces
  <2> QED
    BY <1>0, <1>s, <1>9, <2>1, <2>2, <2>3, <2>4 DEF RemoveFdo
<1>10. CASE DeleteFdo
  BY <1>10 DEF DeleteFdo, NoRemoval, RemovePlaces
<1>11. CASE QueryRelations
  <2>1. pdo' \in [Pdos -> PdoTypes]
    <3>1. \A p \in Pdos : pdo[p] \in PdoTypes
      OBVIOUS
    <3> QED
      BY <1>11, <3>1, PdoFlags DEF QueryRelations
  <2>2. dev' \in [Pdos -> [node : Nodes, missing : BOOLEAN, eject : BOOLEAN]]
    <3>1. \A d \in [node : Nodes, missing : BOOLEAN, eject : BOOLEAN],
            n \in Nodes, b \in BOOLEAN :
              [d EXCEPT !.node = n, !.missing = b]
                \in [node : Nodes, missing : BOOLEAN, eject : BOOLEAN]
      OBVIOUS
    <3>2. \A p \in Pdos : /\ dev[p] \in [node : Nodes, missing : BOOLEAN, eject : BOOLEAN]
                          /\ dev[p].node \in Nodes /\ dev[p].missing \in BOOLEAN
      OBVIOUS
    <3>3. "reported" \in Nodes
      BY DEF Nodes
    <3> QED
      BY ONLY <1>11, <3>1, <3>2, <3>3 DEF QueryRelations
  <2> QED
    BY <1>11, <2>1, <2>2 DEF QueryRelations
<1>12. CASE QueryRelationsFails
  BY <1>12 DEF QueryRelationsFails
<1>13. CASE ReleaseFdo
  BY <1>13 DEF ReleaseFdo, RemovePlaces
<1> QED
  BY <1>1, <1>2, <1>3, <1>4, <1>5, <1>6, <1>7, <1>8, <1>9, <1>10, <1>11, <1>12, <1>13
     DEF FdoPnp

(* The PnP IRPs of a disk. *)
LEMMA PdoDataTypes ==
  ASSUME DataTypes, NEW p \in Pdos, PdoPnp(p)
  PROVE  DataTypes'
<1>s. /\ "Started" \in PnpStates /\ "StopPending" \in PnpStates
      /\ "Stopped" \in PnpStates /\ "RemovePending" \in PnpStates
      /\ "NotStarted" \in PnpStates
      /\ "SurpriseRemovePending" \in PnpStates /\ "Deleted" \in PnpStates
  BY DEF PnpStates
<1>0. pdo[p] \in PdoTypes /\ pdo[p].parent \in BOOLEAN
  BY DEF DataTypes, PdoTypes
<1>h. ASSUME NEW d \in PdoTypes, NEW node \in Nodes, Handled(p, d, node)
      PROVE  DataTypes'
  BY <1>h DEF Handled, DataTypes, fdoVars, serviceVars
<1>n. /\ "started" \in Nodes /\ "stopPending" \in Nodes /\ "stopped" \in Nodes
      /\ "removePending" \in Nodes /\ "surprise" \in Nodes /\ "removed" \in Nodes
  BY DEF Nodes
<1>1. CASE StartPdo(p)
  BY <1>s, <1>0, <1>h, <1>n, <1>1, PdoStates DEF StartPdo
<1>2. CASE QueryStopPdo(p)
  BY <1>s, <1>0, <1>h, <1>n, <1>2, PdoStates DEF QueryStopPdo
<1>3. CASE CancelStopPdo(p)
  BY <1>s, <1>0, <1>h, <1>n, <1>3, PdoStates DEF CancelStopPdo
<1>4. CASE StopPdo(p)
  BY <1>s, <1>0, <1>h, <1>n, <1>4, PdoStates DEF StopPdo
<1>5. CASE QueryRemovePdo(p)
  BY <1>s, <1>0, <1>h, <1>n, <1>5, PdoStates DEF QueryRemovePdo
<1>6. CASE CancelRemovePdo(p)
  <2>1. pdo' \in [Pdos -> PdoTypes]
    BY <1>s, <1>0, <1>6, PdoStates DEF CancelRemovePdo, DataTypes
  <2>2. dev' \in [Pdos -> [node : Nodes, missing : BOOLEAN, eject : BOOLEAN]]
    <3>1. \A d \in [node : Nodes, missing : BOOLEAN, eject : BOOLEAN] :
            [d EXCEPT !.node = "started", !.eject = FALSE]
              \in [node : Nodes, missing : BOOLEAN, eject : BOOLEAN]
      BY <1>n
    <3>2. dev \in [Pdos -> [node : Nodes, missing : BOOLEAN, eject : BOOLEAN]]
      BY DEF DataTypes
    <3>3. dev' = [dev EXCEPT ![p].node = "started", ![p].eject = FALSE]
      BY <1>6 DEF CancelRemovePdo
    <3> QED
      BY ONLY <3>1, <3>2, <3>3
  <2> QED
    BY <1>6, <2>1, <2>2 DEF CancelRemovePdo, DataTypes, fdoVars, serviceVars
<1>7. CASE SurpriseRemovalPdo(p)
  <2>1. [SetNew(pdo[p], "SurpriseRemovePending") EXCEPT !.surprised = TRUE] \in PdoTypes
    BY <1>s, <1>0, PdoStates, PdoFlags
  <2> QED
    BY <1>h, <1>n, <1>7, <2>1 DEF SurpriseRemovalPdo
<1>8. CASE EjectPdo(p)
  <2>1. pdo' \in [Pdos -> PdoTypes]
    <3>1. [pdo[p] EXCEPT !.present = FALSE] \in PdoTypes
      BY <1>0, PdoFlags
    <3> QED
      BY <1>8, <3>1 DEF EjectPdo, DataTypes
  <2>2. dev' \in [Pdos -> [node : Nodes, missing : BOOLEAN, eject : BOOLEAN]]
    BY <1>8 DEF EjectPdo, DataTypes
  <2>3. bus' \in [node : BusNodes, missing : BOOLEAN, stale : BOOLEAN]
    BY <1>8 DEF EjectPdo, DataTypes
  <2> QED
    BY <1>8, <2>1, <2>2, <2>3 DEF EjectPdo, DataTypes, fdoVars, serviceVars
<1>9. CASE RemovePdo(p)
  <2>1. pdo' \in [Pdos -> PdoTypes]
    <3>1. PICK d \in {pdo[p], SetNew(pdo[p], "Deleted"), SetNew(pdo[p], "NotStarted")} :
            pdo' = [pdo EXCEPT ![p] = d]
      BY <1>9 DEF RemovePdo
    <3>2. d \in PdoTypes
      BY <1>s, <1>0, PdoStates
    <3> QED
      BY <3>1, <3>2 DEF DataTypes
  <2>2. dev' \in [Pdos -> [node : Nodes, missing : BOOLEAN, eject : BOOLEAN]]
    BY <1>n, <1>9 DEF RemovePdo, DataTypes
  <2>3. mgr' \in [at : RemovePlaces, pdo : Pdos \cup {None}, fdoData : BOOLEAN]
    BY <1>0, <1>9 DEF RemovePdo, DataTypes, RemovePlaces
  <2> QED
    BY <1>9, <2>1, <2>2, <2>3 DEF RemovePdo, DataTypes, fdoVars, serviceVars
<1> QED
  BY <1>1, <1>2, <1>3, <1>4, <1>5, <1>6, <1>7, <1>8, <1>9 DEF PdoPnp

(* The steps of a removal. *)
LEMMA RemovalDataTypes ==
  ASSUME DataTypes, RemovalStep
  PROVE  DataTypes'
<1> USE DEF DataTypes, RemoveDone, NoRemoval, RemovePlaces, pdoVars, serviceVars, fdoVars
<1>1. CASE UnlinkPdo
  <2>1. PICK k \in DOMAIN list : list' = RemoveAt(list, k)
    BY <1>1 DEF UnlinkPdo, RemoveEntryList
  <2>2. list' \in Seq(Pdos)
    BY <2>1, RemoveAtElements
  <2> QED
    BY <1>1, <2>2 DEF UnlinkPdo
<1>2. CASE DestroyPdo
  <2>1. pdo' \in [Pdos -> PdoTypes]
    <3>1. \A p \in Pdos : pdo[p] \in PdoTypes
      OBVIOUS
    <3> QED
      BY <1>2, <3>1, FreedPdo DEF DestroyPdo
  <2> QED
    BY <1>2, <2>1 DEF DestroyPdo
<1>3. CASE CountPdos
  <2>1. dev' \in [Pdos -> [node : Nodes, missing : BOOLEAN, eject : BOOLEAN]]
    BY <1>3 DEF CountPdos, Gone, Nodes
  <2>2. /\ mgr' \in [at : RemovePlaces, pdo : Pdos \cup {None}, fdoData : BOOLEAN]
        /\ stray' \in BOOLEAN
    <3>1. mgr' \in {NoRemoval, [mgr EXCEPT !.at = "signal"]}
      BY <1>3 DEF CountPdos
    <3>2. stray' \in {stray, TRUE}
      BY <1>3 DEF CountPdos
    <3>3. /\ NoRemoval \in [at : RemovePlaces, pdo : Pdos \cup {None}, fdoData : BOOLEAN]
          /\ [mgr EXCEPT !.at = "signal"]
               \in [at : RemovePlaces, pdo : Pdos \cup {None}, fdoData : BOOLEAN]
      OBVIOUS
    <3> QED
      BY <3>1, <3>2, <3>3
  <2> QED
    BY <1>3, <2>1, <2>2 DEF CountPdos
<1>4. CASE SignalReady
  BY <1>4 DEF SignalReady
<1> QED
  BY <1>1, <1>2, <1>3, <1>4 DEF RemovalStep

LEMMA NextDataTypes == DataTypes /\ [Next]_vars => DataTypes'
<1> SUFFICES ASSUME DataTypes, [Next]_vars PROVE DataTypes'
  OBVIOUS
<1>1. CASE UNCHANGED vars
  BY <1>1 DEF vars, DataTypes, fdoVars, pdoVars, serviceVars, mgrVars
<1>2. CASE Next
  BY <1>1, <1>2, IoctlDataTypes, HandleDataTypes, FdoDataTypes, PdoDataTypes,
     RemovalDataTypes DEF Next, Stopped
<1> QED
  BY <1>1, <1>2

-----------------------------------------------------------------------------
(* A step leaves the disks as they are, but for their states. *)
SameDisks ==
  /\ list' = list
  /\ \A p \in Pdos : /\ pdo'[p].object = pdo[p].object
                     /\ pdo'[p].parent = pdo[p].parent

LEMMA QueryRelationsSame ==
  ASSUME DataTypes, QueryRelations
  PROVE  SameDisks
<1>1. /\ list' = list
      /\ pdo' = [p \in Pdos |->
                   IF p \in Listed \ {q \in Listed : pdo[q].present}
                   THEN [pdo[p] EXCEPT !.reportedMissing = TRUE] ELSE pdo[p]]
  BY DEF QueryRelations, fdoVars
<1>2. \A p \in Pdos : pdo[p] \in PdoTypes
  BY DEF DataTypes
<1>3. \A p \in Pdos : /\ pdo'[p].object = pdo[p].object
                      /\ pdo'[p].parent = pdo[p].parent
  BY ONLY <1>1, <1>2, MarkedPdo
<1> QED
  BY <1>1, <1>3 DEF SameDisks

LEMMA ListedTypes == DataTypes => Listed \subseteq Pdos
  BY LenProperties DEF DataTypes, Listed, ToSet

LEMMA InitStruct == Init => StructOK
  BY DEF Init, StructOK, ListOK, RemovalOK, HandleOK, FdoOK, KnownOK, FdoDone, Settled,
     Alive, Listed, ToSet, IsInjective, NoPdo, NoRemoval

(* A step of the service that leaves the disks alone. *)
LEMMA ServiceStep ==
  ASSUME DataTypes, StructOK, SameDisks, mgr' = mgr, bus'.node = bus.node, 
         \A p \in Pdos : dev'[p].node = dev[p].node /\ dev'[p].missing = dev[p].missing,
         HandleOK', FdoDone => handle' = "closed"
  PROVE  StructOK'
<1>1. Listed' = Listed /\ (FdoDone' <=> FdoDone)
  BY DEF SameDisks, Listed, FdoDone
<1>2. ListOK'
  BY <1>1, ListedTypes DEF StructOK, ListOK, SameDisks, Alive, Leaving
<1>3. RemovalOK'
  BY <1>1 DEF StructOK, RemovalOK, SameDisks, Alive
<1>4. FdoOK'
  BY <1>1 DEF StructOK, FdoOK, SameDisks, Settled
<1>5. KnownOK'
  BY <1>1 DEF StructOK, KnownOK, SameDisks, Alive
<1> QED
  BY <1>2, <1>3, <1>4, <1>5 DEF StructOK

(* An IRP that moves disk p in the state diagram. *)
LEMMA PdoStep ==
  ASSUME DataTypes, StructOK, SameDisks, NEW p \in Pdos, Alive(p), ~ FdoDone,
         mgr' = mgr, bus'.node = bus.node, UNCHANGED serviceVars,
         \A q \in Pdos \ {p} : dev'[q].node = dev[q].node
  PROVE  StructOK'
<1>1. Listed' = Listed /\ ~ FdoDone'
  BY DEF SameDisks, Listed, FdoDone
<1>2. ListOK'
  BY <1>1, ListedTypes DEF StructOK, ListOK, SameDisks, Alive, Leaving
<1>3. RemovalOK'
  BY <1>1 DEF StructOK, RemovalOK, SameDisks, Alive
<1>4. FdoOK' /\ HandleOK'
  BY <1>1 DEF StructOK, FdoOK, HandleOK, serviceVars
<1>5. ASSUME NEW q \in Pdos, dev'[q].node \notin {"unknown", "gone"}
      PROVE  Alive(q)' \/ (mgr'.at = "count" /\ mgr'.pdo = q)
  <2>1. Alive(q)' <=> Alive(q)
    BY DEF SameDisks, Alive
  <2>2. CASE q = p
    BY <2>1, <2>2 DEF Alive
  <2>3. CASE q # p
    BY <1>5, <2>1, <2>3 DEF StructOK, KnownOK
  <2> QED
    BY <2>2, <2>3
<1>6. KnownOK'
  BY <1>5 DEF KnownOK
<1> QED
  BY <1>2, <1>3, <1>4, <1>6 DEF StructOK

(* The threads in an IOCTL. *)
LEMMA IoctlStruct ==
  ASSUME DataTypes, StructOK, NEW c \in Callers, Ioctl(c) \/ InIoctl(c)
  PROVE  StructOK'
<1>h. /\ HandleOK
      /\ FdoDone => handle = "closed"
  BY DEF StructOK, FdoOK
<1>0. ASSUME SameDisks, mgr' = mgr, bus'.node = bus.node, handle' = handle,
             \A p \in Pdos : /\ dev'[p].node = dev[p].node
                            /\ dev'[p].missing = dev[p].missing,
             handle # "closed"
      PROVE  StructOK'
  BY <1>0, <1>h, ServiceStep DEF HandleOK
<1>1. ASSUME NEW at, NEW s, Enter(c, at, s) PROVE StructOK'
  <2>1. SameDisks /\ handle # "closed"
    BY <1>1 DEF Enter, SameDisks, pdoVars
  <2> QED
    BY <1>0, <1>1, <2>1 DEF Enter, mgrVars
<1>2. ASSUME call[c] # User PROVE handle # "closed"
  BY <1>2, <1>h DEF HandleOK
<1>3. CASE CheckUnique(c)
  <2>1. SameDisks /\ handle # "closed"
    BY <1>2, <1>3 DEF CheckUnique, SameDisks, pdoVars, User
  <2> QED
    BY <1>0, <1>3, <2>1 DEF CheckUnique, mgrVars
<1>4. CASE AddFails(c)
  <2>1. SameDisks /\ handle # "closed"
    BY <1>2, <1>4 DEF AddFails, SameDisks, pdoVars, User
  <2> QED
    BY <1>0, <1>4, <2>1 DEF AddFails, mgrVars
<1>5. CASE Invalidate(c)
  <2>1. SameDisks /\ handle # "closed"
    BY <1>2, <1>5 DEF Invalidate, SameDisks, pdoVars, User
  <2>2. bus'.node = bus.node
    BY <1>5 DEF Invalidate, DataTypes
  <2> QED
    BY <1>0, <1>5, <2>1, <2>2 DEF Invalidate
<1>6. CASE FindDisk(c)
  <2>1. SameDisks /\ handle # "closed"
    BY <1>2, <1>6 DEF FindDisk, SameDisks, User
  <2>2. ASSUME NEW p \in Pdos
        PROVE  dev'[p].node = dev[p].node /\ dev'[p].missing = dev[p].missing
    <3>1. CASE UNCHANGED dev
      BY <3>1
    <3>2. CASE ~ UNCHANGED dev
      <4>1. PICK q : dev' = [dev EXCEPT ![q].eject = @ \/ dev[q].node # "unknown"]
        BY <1>6, <3>2 DEF FindDisk
      <4> QED
        BY <4>1 DEF DataTypes
    <3> QED
      BY <3>1, <3>2
  <2> QED
    BY <1>0, <1>6, <2>1, <2>2 DEF FindDisk
<1>7. CASE WalkDone(c)
  <2>1. SameDisks /\ handle # "closed"
    BY <1>2, <1>7 DEF WalkDone, SameDisks, pdoVars, User
  <2> QED
    BY <1>0, <1>7, <2>1 DEF WalkDone, mgrVars
<1>8. ASSUME NEW p \in Pdos, WalkTo(c, p) PROVE StructOK'
  <2>1. SameDisks /\ handle # "closed"
    BY <1>2, <1>8 DEF WalkTo, SameDisks, pdoVars, fdoVars, User
  <2> QED
    BY <1>0, <1>8, <2>1 DEF WalkTo, mgrVars
<1>9. ASSUME NEW p \in Pdos, InsertPdo(c, p) PROVE StructOK'
  <2>1. /\ handle # "closed" /\ ~ FdoDone
        /\ pdo[p].object = "none"
        /\ list' = Append(list, p)
        /\ pdo' = [pdo EXCEPT ![p] = NewPdo(call[c].serial)]
        /\ UNCHANGED <<handle, mgr, bus, dev>>
    BY <1>2, <1>9, <1>h DEF InsertPdo, User, mgrVars
  <2>2. NewPdo(call[c].serial).object = "live" /\ NewPdo(call[c].serial).parent
    BY DEF NewPdo, NoPdo
  <2>3. /\ pdo'[p].object = "live" /\ pdo'[p].parent
        /\ \A q \in Pdos \ {p} : pdo'[q] = pdo[q]
    BY <2>1, <2>2 DEF DataTypes
  <2>4. list \in Seq(Pdos) /\ p \notin Listed /\ IsInjective(list)
    BY <2>1 DEF DataTypes, StructOK, ListOK, Alive
  <2>5. IsInjective(list') /\ Listed' = Listed \cup {p}
    BY <2>1, <2>4, AppendInjectiveList DEF Listed
  <2>6. ListOK'
    BY <2>1, <2>3, <2>5, ListedTypes DEF StructOK, ListOK, Alive, Leaving
  <2>7. RemovalOK'
    BY <2>1, <2>3, <2>5 DEF StructOK, RemovalOK, Alive
  <2>8. FdoOK' /\ HandleOK'
    BY <2>1 DEF FdoOK, FdoDone, HandleOK
  <2>9. KnownOK'
    BY <2>1, <2>3 DEF StructOK, KnownOK, Alive, FdoDone
  <2> QED
    BY <2>6, <2>7, <2>8, <2>9 DEF StructOK
<1> QED
  BY <1>1, <1>3, <1>4, <1>5, <1>6, <1>7, <1>8, <1>9
  DEF Ioctl, InIoctl, AddDisk, RemoveDisk, GetRequest

(* The handle. *)
LEMMA HandleStruct ==
  ASSUME DataTypes, DeletedOK, StructOK, OpenHandle \/ CloseHandle \/ Cleanup \/ Close
  PROVE  StructOK'
<1>h. HandleOK /\ (FdoDone => handle = "closed" /\ bus.node # "started")
  BY DEF StructOK, FdoOK
<1>0. ASSUME SameDisks, UNCHANGED <<mgr, dev>>, bus'.node = bus.node,
             handle' # "closed" \/ \A c \in Callers : call'[c] = User,
             ~ FdoDone
      PROVE  StructOK'
  BY <1>0, ServiceStep DEF HandleOK
<1>1. CASE OpenHandle
  <2>1. CASE handle' = handle
    BY <1>1, <2>1 DEF OpenHandle, Bus_CreateClose, pdoVars, mgrVars, StructOK, ListOK,
       RemovalOK, HandleOK, FdoOK, KnownOK, FdoDone, DeletingFdo, Alive, Leaving, Listed,
       Settled
  <2>2. CASE handle' # handle
    <3>1. fdo.now # "Deleted" /\ handle' = "open"
      BY <1>1, <2>2 DEF OpenHandle
    <3> QED
      BY <1>0, <1>1, <1>h, <3>1
         DEF OpenHandle, Bus_CreateClose, DeletedOK, SameDisks, pdoVars, mgrVars
  <2> QED
    BY <2>1, <2>2
<1>2. CASE CloseHandle
  BY <1>0, <1>2, <1>h DEF CloseHandle, SameDisks, fdoVars, pdoVars, mgrVars
<1>3. CASE CleanupCheck
  BY <1>0, <1>3, <1>h DEF CleanupCheck, SameDisks, fdoVars, pdoVars, mgrVars
<1>4. CASE CleanupReset
  BY <1>0, <1>4, <1>h DEF CleanupReset, SameDisks, pdoVars, mgrVars
<1>5. CASE Bus_RemoveAllDisks
  <2>1. \A p \in Pdos : /\ pdo'[p].object = pdo[p].object
                       /\ pdo'[p].parent = pdo[p].parent
    <3>1. CASE UNCHANGED pdo
      BY <3>1
    <3>2. CASE ~ UNCHANGED pdo
      <4>1. pdo' = [p \in Pdos |-> IF p \in Listed THEN [pdo[p] EXCEPT !.present = FALSE]
                                                 ELSE pdo[p]]
        BY <1>5, <3>2 DEF Bus_RemoveAllDisks
      <4> QED
        BY <4>1 DEF DataTypes, PdoTypes
    <3> QED
      BY <3>1, <3>2
  <2>2. bus'.node = bus.node
    BY <1>5 DEF Bus_RemoveAllDisks, DataTypes
  <2> QED
    BY <1>0, <1>5, <1>h, <2>1, <2>2 DEF Bus_RemoveAllDisks, SameDisks, fdoVars
<1>6. CASE CleanupWait
  BY <1>0, <1>6, <1>h DEF CleanupWait, SameDisks, fdoVars, pdoVars, mgrVars
<1>7. CASE Close
  BY <1>0, <1>7, <1>h DEF Close, Bus_CreateClose, SameDisks, fdoVars, pdoVars, mgrVars
<1> QED
  BY <1>1, <1>2, <1>3, <1>4, <1>5, <1>6, <1>7 DEF Cleanup

(* The PnP IRPs of the bus. *)
LEMMA FdoStruct ==
  ASSUME DataTypes, StructOK, FdoPnp
  PROVE  StructOK'
<1> USE DEF FdoUnchanged, BusTo
<1>t. /\ bus \in [node : BusNodes, missing : BOOLEAN, stale : BOOLEAN]
      /\ \A b : [bus EXCEPT !.node = b].node = b
      /\ \A b : [bus EXCEPT !.missing = b].node = bus.node
      /\ \A b : [bus EXCEPT !.stale = b].node = bus.node
  BY DEF DataTypes
(* The IRPs between which the bus is not started, or only its state is changed. *)
<1>0. ASSUME UNCHANGED <<list, pdo, handle, call, mgr, dev>>,
             FdoDone' <=> FdoDone, FdoDone => bus'.node = bus.node
      PROVE  StructOK'
  BY <1>0 DEF StructOK, ListOK, RemovalOK, HandleOK, FdoOK, KnownOK, Alive, Leaving,
     Listed, Settled
<1>1. ASSUME UNCHANGED <<list, pdo, handle, call, mgr, dev>>, mgr.at = "idle",
             bus.node # "gone", bus'.node # "gone"
      PROVE  StructOK'
  BY <1>0, <1>1 DEF FdoDone
<1>2. CASE StartFdo
  BY <1>1, <1>2, <1>t DEF StartFdo, pdoVars, serviceVars
<1>3. CASE QueryStopFdo
  BY <1>1, <1>3, <1>t DEF QueryStopFdo, pdoVars, serviceVars
<1>4. CASE CancelStopFdo
  BY <1>1, <1>4, <1>t DEF CancelStopFdo, pdoVars, serviceVars
<1>5. CASE StopFdo
  BY <1>1, <1>5, <1>t DEF StopFdo, pdoVars, serviceVars
<1>6. CASE QueryRemoveFdo
  BY <1>1, <1>6, <1>t DEF QueryRemoveFdo, pdoVars, serviceVars
<1>7. CASE CancelRemoveFdo
  BY <1>1, <1>7, <1>t DEF CancelRemoveFdo, pdoVars, serviceVars
<1>8. CASE BusVanishes
  <2>1. bus'.node = bus.node
    BY <1>8, <1>t DEF BusVanishes
  <2> QED
    BY <1>0, <1>8, <2>1 DEF BusVanishes, FdoDone, fdoVars, pdoVars, serviceVars
<1>9. CASE QueryRelationsFails
  <2>1. bus'.node = bus.node
    BY <1>9, <1>t DEF QueryRelationsFails
  <2> QED
    BY <1>0, <1>9, <2>1 DEF QueryRelationsFails, FdoDone, pdoVars, serviceVars
<1>10. CASE SurpriseRemovalFdo
  <2>0. \A p \in Pdos :
             /\ pdo'[p].object = pdo[p].object
             /\ p \in Listed => ~ pdo'[p].parent
             /\ p \notin Listed => pdo'[p].parent = pdo[p].parent
    BY <1>10, MarkedPdo DEF SurpriseRemovalFdo, DataTypes
  <2>1. /\ mgr.at = "idle" /\ list' = <<>>
        /\ UNCHANGED <<handle, call, mgr, dev>>
        /\ ~ FdoDone /\ ~ FdoDone'
    BY <1>10, <1>t DEF SurpriseRemovalFdo, serviceVars, FdoDone
  <2>2. Listed' = {} /\ IsInjective(list')
    BY <2>1 DEF Listed, ToSet, IsInjective
  <2>3. ListOK'
    BY <2>0, <2>1, <2>2 DEF StructOK, ListOK, Alive, Leaving
  <2>4. RemovalOK' /\ HandleOK' /\ FdoOK'
    BY <2>1 DEF StructOK, RemovalOK, HandleOK, FdoOK
  <2>5. KnownOK'
    BY <2>0, <2>1 DEF StructOK, KnownOK, Alive
  <2> QED
    BY <2>3, <2>4, <2>5 DEF StructOK
<1>11. CASE RemoveFdo
  <2>1. /\ mgr.at = "idle" /\ mgr'.at = "fdoRelease" /\ list' = <<>>
        /\ handle = "closed" /\ UNCHANGED <<handle, call, dev, bus>>
        /\ bus.node \in {"added", "removePending", "surprise"}
    BY <1>11 DEF RemoveFdo, NoRemoval, serviceVars
  <2>2. \A p \in Pdos : Settled(p)'
    <3>1. /\ \A p \in Pdos : dev[p].node \in {"unknown", "removed", "gone"}
          /\ \A p \in Pdos : dev[p].node = "removed" => ~ dev[p].missing
      BY <1>11 DEF RemoveFdo
    <3> QED
      BY <2>1, <3>1 DEF Settled
  <2>3. ASSUME NEW p \in Pdos, Alive(p)', pdo'[p].parent PROVE FALSE
    <3>1. p \notin Listed
      <4>1. pdo[p] \in PdoTypes
        BY DEF DataTypes
      <4>2. pdo'[p] = IF p \in {q \in Listed : pdo[q].now = "SurpriseRemovePending"}
                      THEN [pdo[p] EXCEPT !.parent = FALSE, !.reportedMissing = TRUE]
                      ELSE IF p \in Listed THEN Freed(pdo[p]) ELSE pdo[p]
        BY <1>11 DEF RemoveFdo
      <4>3. ~ [pdo[p] EXCEPT !.parent = FALSE, !.reportedMissing = TRUE].parent
        BY <4>1 DEF PdoTypes
      <4>4. Freed(pdo[p]).object # "live"
        BY <4>1, FreedPdo
      <4> QED
        BY <2>3, <4>2, <4>3, <4>4 DEF Alive
    <3>2. pdo'[p] = pdo[p]
      BY <1>11, <3>1 DEF RemoveFdo
    <3> QED
      BY <2>1, <2>3, <3>1, <3>2 DEF StructOK, ListOK, Alive, Leaving
  <2>4. Listed' = {} /\ IsInjective(list')
    BY <2>1 DEF Listed, ToSet, IsInjective
  <2>5. ListOK'
    BY <2>3, <2>4 DEF ListOK
  <2>6. RemovalOK' /\ HandleOK' /\ FdoOK' /\ KnownOK'
    BY <2>1, <2>2 DEF StructOK, RemovalOK, HandleOK, FdoOK, KnownOK, FdoDone
  <2> QED
    BY <2>5, <2>6 DEF StructOK
<1>12. CASE ReleaseFdo
  <2>1. /\ mgr.at = "fdoRelease" /\ mgr'.at = "fdoWait"
        /\ UNCHANGED <<list, pdo, handle, call, dev, bus>>
    BY <1>12 DEF ReleaseFdo, DataTypes, fdoVars, pdoVars, serviceVars
  <2>2. FdoDone /\ FdoDone'
    BY <2>1 DEF FdoDone, DeletingFdo
  <2> QED
    BY <2>1, <2>2 DEF StructOK, ListOK, RemovalOK, HandleOK, FdoOK, KnownOK, Alive, Leaving,
       Listed, Settled
<1>14. CASE DeleteFdo
  <2>1. /\ mgr.at = "fdoWait" /\ mgr'.at = "idle" /\ bus'.node = "gone"
        /\ UNCHANGED <<list, pdo, handle, call, dev>>
    BY <1>14, <1>t DEF DeleteFdo, NoRemoval, pdoVars, serviceVars
  <2>2. FdoDone /\ FdoDone'
    BY <2>1 DEF FdoDone
  <2> QED
    BY <2>1, <2>2 DEF StructOK, ListOK, RemovalOK, HandleOK, FdoOK, KnownOK, Alive, Leaving,
       Listed, Settled
<1>13. CASE QueryRelations
  <2>1. /\ mgr.at = "idle" /\ bus'.node = bus.node /\ bus.node = "started"
        /\ UNCHANGED <<list, mgr, handle, call>> /\ ~ FdoDone /\ ~ FdoDone'
    BY <1>13, <1>t DEF QueryRelations, fdoVars, serviceVars, FdoDone
  <2>2. SameDisks
    BY <1>13, QueryRelationsSame
  <2>3. Listed' = Listed
    BY <2>1 DEF Listed
  <2>4. ListOK' /\ RemovalOK'
    BY <2>1, <2>2, <2>3, ListedTypes
    DEF StructOK, ListOK, RemovalOK, SameDisks, Alive, Leaving
  <2>5. HandleOK' /\ FdoOK'
    BY <2>1 DEF StructOK, HandleOK, FdoOK
  <2>6. ASSUME NEW p \in Pdos, dev'[p].node \notin {"unknown", "gone"} PROVE Alive(p)
    <3>1. CASE dev[p].node = "unknown"
      <4>1. p \in Listed
        <5>1. p \notin Listed => dev'[p].node = dev[p].node
          BY <1>13 DEF QueryRelations, DataTypes
        <5> QED
          BY <2>6, <3>1, <5>1
      <4> QED
        BY <4>1 DEF StructOK, ListOK
    <3>2. CASE dev[p].node # "unknown"
      <4>1. dev'[p].node = dev[p].node
        BY <1>13, <3>2 DEF QueryRelations, DataTypes
      <4> QED
        BY <2>1, <2>6, <3>2, <4>1 DEF StructOK, KnownOK
    <3> QED
      BY <3>1, <3>2
  <2>7. KnownOK'
    BY <2>2, <2>6 DEF KnownOK, SameDisks, Alive
  <2> QED
    BY <2>4, <2>5, <2>7 DEF StructOK
<1> QED
  BY <1>2, <1>3, <1>4, <1>5, <1>6, <1>7, <1>8, <1>9, <1>10, <1>11, <1>12, <1>13,
     <1>14 DEF FdoPnp

(* When an IRP for disk p is under way, p exists and the FDO is not Deleted. *)
LEMMA ServedDiskLives ==
  ASSUME DataTypes, StructOK, NEW p \in Pdos, mgr.at = "idle",
         dev[p].node \notin {"unknown", "gone"},
         ~ Settled(p) \/ bus.node # "gone"
  PROVE  Alive(p) /\ ~ FdoDone
<1>1. ~ FdoDone
  BY DEF StructOK, FdoOK, FdoDone
<1> QED
  BY <1>1 DEF StructOK, KnownOK

(* The PnP IRPs of a disk leave list and parents alone. *)
LEMMA PdoSameDisks ==
  ASSUME DataTypes, NEW p \in Pdos, PdoPnp(p)
  PROVE  SameDisks
<1>s. /\ "Started" \in PnpStates /\ "StopPending" \in PnpStates
      /\ "Stopped" \in PnpStates /\ "RemovePending" \in PnpStates
      /\ "NotStarted" \in PnpStates
      /\ "SurpriseRemovePending" \in PnpStates /\ "Deleted" \in PnpStates
  BY DEF PnpStates
<1>0. pdo[p] \in PdoTypes
  BY DEF DataTypes
<1>d. ASSUME NEW d, d.object = pdo[p].object, d.parent = pdo[p].parent,
             pdo' = [pdo EXCEPT ![p] = d], list' = list
      PROVE  SameDisks
  BY <1>d DEF SameDisks, DataTypes
<1>h. ASSUME NEW d, NEW node, Handled(p, d, node),
             d.object = pdo[p].object, d.parent = pdo[p].parent
      PROVE  SameDisks
  BY <1>d, <1>h DEF Handled, fdoVars
<1>1. CASE StartPdo(p)
  BY <1>s, <1>0, <1>h, <1>1, PdoStates DEF StartPdo
<1>2. CASE QueryStopPdo(p)
  BY <1>s, <1>0, <1>h, <1>2, PdoStates DEF QueryStopPdo
<1>3. CASE CancelStopPdo(p)
  BY <1>s, <1>0, <1>h, <1>3, PdoStates DEF CancelStopPdo
<1>4. CASE StopPdo(p)
  BY <1>s, <1>0, <1>h, <1>4, PdoStates DEF StopPdo
<1>5. CASE QueryRemovePdo(p)
  BY <1>s, <1>0, <1>h, <1>5, PdoStates DEF QueryRemovePdo
<1>6. CASE CancelRemovePdo(p)
  BY <1>s, <1>0, <1>d, <1>6, PdoStates DEF CancelRemovePdo, fdoVars
<1>7. CASE SurpriseRemovalPdo(p)
  <2> DEFINE e == SetNew(pdo[p], "SurpriseRemovePending")
             d == [e EXCEPT !.surprised = TRUE]
  <2>1. e \in PdoTypes /\ e.object = pdo[p].object /\ e.parent = pdo[p].parent
    BY <1>s, <1>0, PdoStates
  <2>2. Handled(p, d, "surprise")
    BY <1>7 DEF SurpriseRemovalPdo
  <2> HIDE DEF e
  <2>3. d.object = pdo[p].object /\ d.parent = pdo[p].parent
    BY <2>1 DEF PdoTypes
  <2> HIDE DEF d
  <2> QED
    BY <1>h, <2>2, <2>3
<1>8. CASE EjectPdo(p)
  <2>1. /\ [pdo[p] EXCEPT !.present = FALSE].object = pdo[p].object
        /\ [pdo[p] EXCEPT !.present = FALSE].parent = pdo[p].parent
    BY <1>0 DEF PdoTypes
  <2> QED
    BY <1>d, <1>8, <2>1 DEF EjectPdo, fdoVars
<1>9. CASE RemovePdo(p)
  <2>1. PICK d \in {pdo[p], SetNew(pdo[p], "Deleted"), SetNew(pdo[p], "NotStarted")} :
          pdo' = [pdo EXCEPT ![p] = d]
    BY <1>9 DEF RemovePdo
  <2>2. d.object = pdo[p].object /\ d.parent = pdo[p].parent
    <3>1. CASE d = pdo[p]
      BY <3>1
    <3>2. CASE d = SetNew(pdo[p], "Deleted")
      BY <1>s, <1>0, <3>2, PdoStates
    <3>3. CASE d = SetNew(pdo[p], "NotStarted")
      BY <1>s, <1>0, <3>3, PdoStates
    <3> QED
      BY <2>1, <3>1, <3>2, <3>3
  <2> QED
    BY <1>d, <1>9, <2>1, <2>2 DEF RemovePdo, fdoVars
<1> QED
  BY <1>1, <1>2, <1>3, <1>4, <1>5, <1>6, <1>7, <1>8, <1>9 DEF PdoPnp

LEMMA PdoStruct ==
  ASSUME DataTypes, StructOK, NEW p \in Pdos, PdoPnp(p)
  PROVE  StructOK'
<1>0. SameDisks
  BY PdoSameDisks
<1>h. ASSUME NEW d, NEW node, Handled(p, d, node), mgr.at = "idle",
             dev[p].node \notin {"unknown", "gone"}, ~ Settled(p) \/ bus.node # "gone"
      PROVE  StructOK'
  <2>1. Alive(p) /\ ~ FdoDone
    BY <1>h, ServedDiskLives
  <2>2. \A q \in Pdos \ {p} : dev'[q].node = dev[q].node
    BY <1>h DEF Handled, DataTypes
  <2>3. mgr' = mgr /\ bus'.node = bus.node /\ UNCHANGED serviceVars
    BY <1>h DEF Handled
  <2> QED
    BY <1>0, <2>1, <2>2, <2>3, PdoStep
<1>1. CASE StartPdo(p)
  BY <1>h, <1>1 DEF StartPdo, Serving
<1>2. CASE QueryStopPdo(p)
  BY <1>h, <1>2 DEF QueryStopPdo, Serving, Settled
<1>3. CASE CancelStopPdo(p)
  BY <1>h, <1>3 DEF CancelStopPdo, Serving, Settled
<1>4. CASE StopPdo(p)
  BY <1>h, <1>4 DEF StopPdo, Serving, Settled
<1>5. CASE QueryRemovePdo(p)
  BY <1>h, <1>5 DEF QueryRemovePdo, Serving, Settled
<1>6. CASE CancelRemovePdo(p)
  <2>1. Alive(p) /\ ~ FdoDone
    BY <1>6, ServedDiskLives DEF CancelRemovePdo, Serving, Settled
  <2>2. \A q \in Pdos \ {p} : dev'[q].node = dev[q].node
    BY <1>6 DEF CancelRemovePdo, DataTypes
  <2> QED
    BY <1>0, <1>6, <2>1, <2>2, PdoStep DEF CancelRemovePdo
<1>7. CASE SurpriseRemovalPdo(p)
  BY <1>h, <1>7 DEF SurpriseRemovalPdo, Settled
<1>8. CASE EjectPdo(p)
  <2>1. Alive(p) /\ ~ FdoDone
    BY <1>8, ServedDiskLives DEF EjectPdo
  <2>2. /\ \A q \in Pdos \ {p} : dev'[q].node = dev[q].node
        /\ bus'.node = bus.node
    BY <1>8 DEF EjectPdo, DataTypes
  <2> QED
    BY <1>0, <1>8, <2>1, <2>2, PdoStep DEF EjectPdo
<1>9. CASE RemovePdo(p)
  <2>0. mgr.at = "idle" /\ UNCHANGED <<list, serviceVars, bus>>
    BY <1>9 DEF RemovePdo, MayRemovePdo, fdoVars
  <2>1. Alive(p) /\ ~ FdoDone
    <3>1. /\ dev[p].node \notin {"unknown", "gone"}
          /\ ~ Settled(p) \/ bus.node # "gone"
      BY <1>9 DEF RemovePdo, MayRemovePdo, Settled
    <3> QED
      BY <2>0, <3>1, ServedDiskLives
  <2>2. CASE pdo[p].reportedMissing
    <3>1. /\ dev' = dev
          /\ mgr' = [at |-> IF pdo[p].parent THEN "unlink" ELSE "destroy",
                     pdo |-> p, fdoData |-> pdo[p].parent]
      BY <1>9, <2>2 DEF RemovePdo
    <3>2. /\ mgr'.pdo = p
          /\ pdo[p].parent => mgr'.at = "unlink"
          /\ ~ pdo[p].parent => mgr'.at = "destroy"
          /\ mgr'.at \in {"unlink", "destroy"}
      BY <3>1
    <3>3. Listed' = Listed /\ (p \in Listed <=> pdo[p].parent)
      BY <2>0, <2>1 DEF StructOK, ListOK, Listed, Leaving
    <3>4. ListOK'
      BY <1>0, <2>0, <3>2, <3>3, ListedTypes
      DEF StructOK, ListOK, SameDisks, Alive, Leaving
    <3>5. RemovalOK'
      BY <1>0, <2>1, <3>2, <3>3 DEF RemovalOK, SameDisks, Alive
    <3>6. HandleOK' /\ FdoOK'
      BY <2>0, <2>1, <3>2 DEF StructOK, HandleOK, FdoOK, FdoDone, serviceVars
    <3>7. KnownOK'
      BY <1>0, <2>0, <2>1, <3>1 DEF StructOK, KnownOK, SameDisks, Alive
    <3> QED
      BY <3>4, <3>5, <3>6, <3>7 DEF StructOK
  <2>3. CASE ~ pdo[p].reportedMissing
    <3>1. mgr' = mgr /\ dev' = [dev EXCEPT ![p].node = "removed"]
      BY <1>9, <2>3 DEF RemovePdo
    <3>2. \A q \in Pdos \ {p} : dev'[q].node = dev[q].node
      BY <3>1 DEF DataTypes
    <3> QED
      BY <1>0, <2>0, <2>1, <3>1, <3>2, PdoStep
  <2> QED
    BY <2>2, <2>3
<1> QED
  BY <1>1, <1>2, <1>3, <1>4, <1>5, <1>6, <1>7, <1>8, <1>9 DEF PdoPnp

(* The steps of a removal. *)
LEMMA UnlinkStruct ==
  ASSUME DataTypes, StructOK, UnlinkPdo
  PROVE  StructOK'
<1>1. PICK k \in DOMAIN list : list[k] = mgr.pdo /\ list' = RemoveAt(list, k)
  BY DEF UnlinkPdo, RemoveEntryList
<1>2. IsInjective(list') /\ Listed' = Listed \ {mgr.pdo}
  BY <1>1, RemoveAtInjectiveList DEF DataTypes, StructOK, ListOK, Listed
<1>3. /\ mgr.at = "unlink" /\ mgr'.at = "destroy" /\ mgr'.pdo = mgr.pdo
      /\ mgr.pdo \in Pdos /\ mgr.pdo \in Listed
      /\ UNCHANGED <<pdo, serviceVars, bus, dev>>
  BY DEF UnlinkPdo, DataTypes, StructOK, RemovalOK, pdoVars
<1>4. ListOK'
  BY <1>2, <1>3 DEF StructOK, ListOK, Alive, Leaving
<1>5. RemovalOK'
  BY <1>2, <1>3 DEF StructOK, RemovalOK, ListOK, Alive
<1>6. HandleOK' /\ FdoOK'
  BY <1>3 DEF StructOK, HandleOK, FdoOK, FdoDone, serviceVars
<1>7. KnownOK'
  BY <1>3 DEF StructOK, KnownOK, FdoDone, Alive
<1> QED
  BY <1>4, <1>5, <1>6, <1>7 DEF StructOK

LEMMA DestroyStruct ==
  ASSUME DataTypes, StructOK, DestroyPdo
  PROVE  StructOK'
<1>1. /\ mgr.at = "destroy" /\ mgr'.at = "count" /\ mgr'.pdo = mgr.pdo
      /\ mgr.pdo \in Pdos /\ mgr.pdo \notin Listed
      /\ UNCHANGED <<list, serviceVars, bus, dev>>
  BY DEF DestroyPdo, DataTypes, StructOK, RemovalOK, fdoVars
<1>2. /\ pdo'[mgr.pdo].object = "destroyed"
      /\ \A q \in Pdos \ {mgr.pdo} : pdo'[q] = pdo[q]
  BY <1>1, FreedPdo DEF DestroyPdo, DataTypes
<1>3. Listed' = Listed
  BY <1>1 DEF Listed
<1>4. ListOK'
  BY <1>1, <1>2, <1>3, ListedTypes DEF StructOK, ListOK, Alive, Leaving
<1>5. RemovalOK'
  BY <1>1 DEF StructOK, RemovalOK
<1>6. HandleOK' /\ FdoOK'
  BY <1>1 DEF StructOK, HandleOK, FdoOK, FdoDone, serviceVars
<1>7. KnownOK'
  BY <1>1, <1>2 DEF StructOK, KnownOK, FdoDone, Alive
<1> QED
  BY <1>4, <1>5, <1>6, <1>7 DEF StructOK

LEMMA CountStruct ==
  ASSUME DataTypes, StructOK, CountPdos \/ SignalReady
  PROVE  StructOK'
<1>1. /\ mgr.at \in {"count", "signal"} /\ mgr'.at \in {"idle", "signal"}
      /\ UNCHANGED <<list, pdo, serviceVars, bus>>
  BY DEF CountPdos, SignalReady, RemoveDone, NoRemoval, fdoVars, pdoVars, DataTypes
<1>2. Listed' = Listed
  BY <1>1 DEF Listed
<1>3. ListOK' /\ RemovalOK'
  BY <1>1, <1>2 DEF StructOK, ListOK, RemovalOK, Alive, Leaving
<1>4. HandleOK' /\ FdoOK'
  BY <1>1 DEF StructOK, HandleOK, FdoOK, FdoDone, serviceVars
<1>5. CASE CountPdos
  <2>1. /\ mgr.pdo \in Pdos /\ dev'[mgr.pdo].node = "gone"
        /\ \A q \in Pdos \ {mgr.pdo} : dev'[q] = dev[q]
    BY <1>5 DEF CountPdos, StructOK, RemovalOK, DataTypes, Gone
  <2>2. KnownOK'
    BY <1>1, <2>1 DEF StructOK, KnownOK, FdoDone, Alive
  <2> QED
    BY <1>3, <1>4, <2>2 DEF StructOK
<1>6. CASE SignalReady
  <2>1. mgr.at = "signal" /\ dev' = dev
    BY <1>6 DEF SignalReady
  <2>2. KnownOK'
    BY <1>1, <2>1 DEF StructOK, KnownOK, FdoDone, Alive
  <2> QED
    BY <1>3, <1>4, <2>2 DEF StructOK
<1> QED
  BY <1>5, <1>6

(* Once Deleted, the FDO gets no IRP that changes its state. *)
LEMMA NextDeleted == DataTypes /\ DeletedOK /\ [Next]_vars => DeletedOK'
<1> SUFFICES ASSUME DataTypes, DeletedOK, [Next]_vars PROVE DeletedOK'
  OBVIOUS
<1> USE DEF DeletedOK, FdoDone, DeletingFdo
<1>0. ASSUME fdo' = fdo, mgr' = mgr \/ mgr'.at \notin {"fdoRelease", "fdoWait"},
             bus'.node = bus.node
      PROVE  DeletedOK'
  BY <1>0
<1>1. CASE UNCHANGED vars
  BY <1>0, <1>1 DEF vars, fdoVars, mgrVars
<1>2. ASSUME NEW c \in Callers, Ioctl(c) \/ InIoctl(c) PROVE DeletedOK'
  BY <1>0, <1>2 DEF Ioctl, InIoctl, AddDisk, RemoveDisk, GetRequest, Enter, CheckUnique,
     AddFails, Invalidate, FindDisk, WalkDone, InsertPdo, WalkTo, fdoVars, mgrVars, DataTypes
<1>3. CASE OpenHandle \/ CloseHandle \/ Cleanup \/ Close
  BY <1>0, <1>3 DEF OpenHandle, CloseHandle, Cleanup, CleanupCheck, CleanupReset,
     Bus_RemoveAllDisks, CleanupWait, Close, Bus_CreateClose, fdoVars, mgrVars, DataTypes
<1>4. CASE StartFdo \/ QueryStopFdo \/ CancelStopFdo \/ StopFdo \/ QueryRemoveFdo
           \/ CancelRemoveFdo \/ SurpriseRemovalFdo
  BY <1>4 DEF StartFdo, QueryStopFdo, CancelStopFdo, StopFdo, QueryRemoveFdo,
     CancelRemoveFdo, SurpriseRemovalFdo, FdoUnchanged, BusTo, DataTypes
<1>5. CASE BusVanishes \/ QueryRelations \/ QueryRelationsFails
  BY <1>0, <1>5 DEF BusVanishes, QueryRelations, QueryRelationsFails, fdoVars, DataTypes
<1>6. CASE RemoveFdo
  BY <1>6 DEF RemoveFdo, SetNew, DataTypes
<1>7. CASE ReleaseFdo \/ DeleteFdo
  BY <1>7 DEF ReleaseFdo, DeleteFdo, fdoVars
<1>8. ASSUME NEW p \in Pdos, PdoPnp(p) PROVE DeletedOK'
  BY <1>0, <1>8 DEF PdoPnp, StartPdo, QueryStopPdo, CancelStopPdo, StopPdo, QueryRemovePdo,
     CancelRemovePdo, SurpriseRemovalPdo, EjectPdo, RemovePdo, Handled, fdoVars, DataTypes
<1>9. CASE RemovalStep
  BY <1>0, <1>9 DEF RemovalStep, UnlinkPdo, DestroyPdo, CountPdos, SignalReady, RemoveDone,
     NoRemoval, fdoVars, DataTypes
<1> QED
  BY <1>1, <1>2, <1>3, <1>4, <1>5, <1>6, <1>7, <1>8, <1>9 DEF Next, FdoPnp, Stopped

LEMMA NextStruct == DataTypes /\ DeletedOK /\ StructOK /\ [Next]_vars => StructOK'
<1> SUFFICES ASSUME DataTypes, DeletedOK, StructOK, [Next]_vars PROVE StructOK'
  OBVIOUS
<1>1. CASE UNCHANGED vars
  BY <1>1 DEF vars, fdoVars, pdoVars, serviceVars, mgrVars, StructOK, ListOK, RemovalOK,
     HandleOK, FdoOK, KnownOK, FdoDone, Alive, Leaving, Listed, Settled
<1>2. CASE Next
  BY <1>1, <1>2, IoctlStruct, HandleStruct, FdoStruct, PdoStruct, UnlinkStruct,
     DestroyStruct, CountStruct DEF Next, Stopped, RemovalStep
<1> QED
  BY <1>1, <1>2

LEMMA StructInvariant == Spec => [](DataTypes /\ StructOK)
<1>1. Init => DataTypes /\ DeletedOK /\ StructOK
  BY InitDataTypes, InitStruct DEF Init, NoRemoval, DeletedOK, FdoDone
<1>2. DataTypes /\ DeletedOK /\ StructOK /\ [Next]_vars
        => (DataTypes /\ DeletedOK /\ StructOK)'
  BY NextDataTypes, NextDeleted, NextStruct
<1> QED
  BY <1>1, <1>2, PTL DEF Spec

-----------------------------------------------------------------------------
(* The steps that change which disks there are, and the others. *)
Still == SameDisks /\ event' = event /\ numPdos' = numPdos

LEMMA DiskSteps ==
  ASSUME DataTypes, StructOK, [Next]_vars
  PROVE  \/ Still
         \/ \E c \in Callers : FindDisk(c)
         \/ \E c \in Callers, p \in Pdos : InsertPdo(c, p)
         \/ SurpriseRemovalFdo \/ RemoveFdo \/ UnlinkPdo \/ DestroyPdo
<1>0. ASSUME UNCHANGED <<list, numPdos, pdo, event>> PROVE Still
  BY <1>0 DEF Still, SameDisks
<1>1. CASE UNCHANGED vars
  BY <1>0, <1>1 DEF vars, fdoVars, pdoVars
<1>2. ASSUME NEW c \in Callers, Ioctl(c)
      PROVE  Still
  BY <1>0, <1>2 DEF Ioctl, AddDisk, RemoveDisk, GetRequest, Enter, pdoVars
<1>3. ASSUME NEW c \in Callers, InIoctl(c)
      PROVE  Still \/ FindDisk(c) \/ \E p \in Pdos : InsertPdo(c, p)
  BY <1>0, <1>3 DEF InIoctl, CheckUnique, AddFails, Invalidate, WalkDone, WalkTo, pdoVars, fdoVars
<1>4. CASE OpenHandle \/ CloseHandle \/ Close
  BY <1>0, <1>4 DEF OpenHandle, CloseHandle, Close, Bus_CreateClose, fdoVars, pdoVars
<1>5. CASE CleanupCheck \/ CleanupReset \/ CleanupWait
  BY <1>0, <1>5 DEF CleanupCheck, CleanupReset, CleanupWait, fdoVars, pdoVars
<1>6. CASE Bus_RemoveAllDisks
  <2>1. \A p \in Pdos : /\ pdo'[p].object = pdo[p].object
                       /\ pdo'[p].parent = pdo[p].parent
    <3>1. CASE UNCHANGED pdo
      BY <3>1
    <3>2. CASE ~ UNCHANGED pdo
      <4>1. pdo' = [p \in Pdos |-> IF p \in Listed THEN [pdo[p] EXCEPT !.present = FALSE]
                                                 ELSE pdo[p]]
        BY <1>6, <3>2 DEF Bus_RemoveAllDisks
      <4> QED
        BY <4>1 DEF DataTypes, PdoTypes
    <3> QED
      BY <3>1, <3>2
  <2> QED
    BY <1>6, <2>1 DEF Bus_RemoveAllDisks, Still, SameDisks, fdoVars
<1>7. ASSUME QueryRelations PROVE Still
  <2>1. SameDisks
    BY <1>7, QueryRelationsSame
  <2> QED
    BY <1>7, <2>1 DEF QueryRelations, Still, fdoVars
<1>8. ASSUME FdoPnp
      PROVE  Still \/ SurpriseRemovalFdo \/ RemoveFdo
  <2>1. CASE StartFdo
    BY <1>0, <2>1 DEF StartFdo, FdoUnchanged, pdoVars
  <2>2. CASE QueryStopFdo
    BY <1>0, <2>2 DEF QueryStopFdo, FdoUnchanged, pdoVars
  <2>3. CASE CancelStopFdo
    BY <1>0, <2>3 DEF CancelStopFdo, FdoUnchanged, pdoVars
  <2>4. CASE StopFdo
    BY <1>0, <2>4 DEF StopFdo, FdoUnchanged, pdoVars
  <2>5. CASE QueryRemoveFdo
    BY <1>0, <2>5 DEF QueryRemoveFdo, FdoUnchanged, pdoVars
  <2>6. CASE CancelRemoveFdo
    BY <1>0, <2>6 DEF CancelRemoveFdo, FdoUnchanged, pdoVars
  <2>7. CASE BusVanishes
    BY <1>0, <2>7 DEF BusVanishes, fdoVars, pdoVars
  <2>8. CASE ReleaseFdo \/ DeleteFdo
    BY <1>0, <2>8 DEF ReleaseFdo, DeleteFdo, fdoVars, pdoVars
  <2>9. CASE QueryRelationsFails
    BY <1>0, <2>9 DEF QueryRelationsFails, fdoVars, pdoVars
  <2> QED
    BY <1>7, <1>8, <2>1, <2>2, <2>3, <2>4, <2>5, <2>6, <2>7, <2>8, <2>9 DEF FdoPnp
<1>9. ASSUME NEW p \in Pdos, PdoPnp(p)
      PROVE  Still
  <2>1. SameDisks
    BY <1>9, PdoSameDisks
  <2>2. event' = event /\ numPdos' = numPdos
    BY <1>9 DEF PdoPnp, StartPdo, QueryStopPdo, CancelStopPdo, StopPdo, QueryRemovePdo,
       CancelRemovePdo, SurpriseRemovalPdo, EjectPdo, RemovePdo, Handled, fdoVars
  <2> QED
    BY <2>1, <2>2 DEF Still
<1>10. ASSUME RemovalStep
       PROVE  Still \/ UnlinkPdo \/ DestroyPdo
  BY <1>0, <1>10 DEF RemovalStep, CountPdos, SignalReady, fdoVars, pdoVars
<1> QED
  BY <1>1, <1>2, <1>3, <1>4, <1>5, <1>6, <1>8, <1>9, <1>10 DEF Next, Cleanup, Stopped

-----------------------------------------------------------------------------
(* A disk's RemoveEvent is set only when the disk is destroyed. *)
EventOK == \A p \in Pdos : event[p] => pdo[p].object = "destroyed"

(* A step keeps the events that are set, and the disks destroyed. *)
LEMMA EventStep ==
  ASSUME DataTypes, StructOK, EventOK, [Next]_vars
  PROVE  EventOK' /\ \A p \in Pdos : event[p] => event'[p]
<1>1. CASE Still
  BY <1>1 DEF Still, SameDisks, EventOK
<1>2. ASSUME NEW c \in Callers, FindDisk(c)
      PROVE  EventOK' /\ \A p \in Pdos : event[p] => event'[p]
  <2>1. CASE UNCHANGED event
    BY <1>2, <2>1 DEF FindDisk, EventOK
  <2>2. CASE ~ UNCHANGED event
    <3>1. PICK k \in DOMAIN list : event' = [event EXCEPT ![list[k]] = FALSE]
      BY <1>2, <2>2 DEF FindDisk
    <3>2. list[k] \in Listed
      BY <3>1 DEF Listed, ToSet
    <3>3. pdo[list[k]].object = "live"
      BY <3>2 DEF StructOK, ListOK, Alive
    <3>4. pdo' = pdo
      BY <1>2 DEF FindDisk
    <3>5. list[k] \in Pdos /\ ~ event[list[k]]
      BY <3>2, <3>3, ListedTypes DEF EventOK
    <3> QED
      BY <3>1, <3>4, <3>5 DEF EventOK, DataTypes
  <2> QED
    BY <2>1, <2>2
<1>3. ASSUME NEW c \in Callers, NEW q \in Pdos, InsertPdo(c, q)
      PROVE  EventOK' /\ \A p \in Pdos : event[p] => event'[p]
  <2>1. /\ pdo[q].object = "none" /\ event' = event
        /\ \A p \in Pdos \ {q} : pdo'[p] = pdo[p]
    BY <1>3 DEF InsertPdo, DataTypes
  <2> QED
    BY <2>1 DEF EventOK
<1>4. CASE SurpriseRemovalFdo
  <2>1. /\ event' = event
        /\ \A p \in Pdos : pdo'[p].object = pdo[p].object
    BY <1>4, MarkedPdo DEF SurpriseRemovalFdo, DataTypes
  <2> QED
    BY <2>1 DEF EventOK
<1>5. CASE RemoveFdo
  <2> DEFINE Kept == {p \in Listed : pdo[p].now = "SurpriseRemovePending"}
             Destroyed == Listed \ Kept
  <2>1. /\ event' = [p \in Pdos |-> event[p] \/ p \in Destroyed]
        /\ pdo' = [p \in Pdos |->
                     IF p \in Kept
                     THEN [pdo[p] EXCEPT !.parent = FALSE, !.reportedMissing = TRUE]
                     ELSE IF p \in Destroyed THEN Freed(pdo[p]) ELSE pdo[p]]
    BY <1>5 DEF RemoveFdo
  <2>2. \A p \in Pdos : p \in Destroyed => pdo'[p].object = "destroyed"
    BY <2>1, FreedPdo DEF DataTypes
  <2>3. \A p \in Pdos : p \in Listed => ~ event[p]
    BY DEF EventOK, StructOK, ListOK, Alive
  <2>4. \A p \in Pdos : p \notin Listed => pdo'[p] = pdo[p]
    BY <2>1
  <2>5. \A p \in Pdos : event'[p] <=> event[p] \/ p \in Destroyed
    BY <2>1
  <2> HIDE DEF Destroyed
  <2> QED
    BY <2>2, <2>3, <2>4, <2>5 DEF EventOK
<1>6. CASE UnlinkPdo
  BY <1>6 DEF UnlinkPdo, pdoVars, EventOK
<1>7. CASE DestroyPdo
  <2>1. /\ event' = [event EXCEPT ![mgr.pdo] = TRUE]
        /\ pdo' = [pdo EXCEPT ![mgr.pdo] = Freed(pdo[mgr.pdo])]
        /\ mgr.pdo \in Pdos
    BY <1>7 DEF DestroyPdo, StructOK, RemovalOK
  <2>2. pdo'[mgr.pdo].object = "destroyed"
    BY <2>1, FreedPdo DEF DataTypes
  <2> QED
    BY <2>1, <2>2 DEF EventOK, DataTypes
<1> QED
  BY <1>1, <1>2, <1>3, <1>4, <1>5, <1>6, <1>7, DiskSteps

LEMMA EventInvariant == Spec => [](DataTypes /\ StructOK /\ EventOK)
<1>1. Init => EventOK
  BY DEF Init, EventOK
<1>2. DataTypes /\ StructOK /\ EventOK /\ [Next]_vars => EventOK'
  BY EventStep
<1> QED
  BY <1>1, <1>2, StructInvariant, PTL DEF Spec

(* The service is told that a disk is gone only when the driver has        *)
(* destroyed it and taken it off the list (Bus_DestroyPdo, pnp.c:1092).    *)
THEOREM EventCorrect == Spec => []EventMeansGone
<1>1. DataTypes /\ StructOK /\ EventOK => EventMeansGone
  BY DEF StructOK, ListOK, EventOK, EventMeansGone, Alive
<1> QED
  BY <1>1, EventInvariant, PTL

(* Bus_RemoveDisk, which resets the RemoveEvent of the disk it finds, and  *)
(* every other step leave a RemoveEvent that is set as it is.              *)
THEOREM EventStaysCorrect == Spec => EventStays
<1>1. DataTypes /\ StructOK /\ EventOK /\ [Next]_vars
        => [\A p \in Pdos : event[p] => event'[p]]_vars
  BY EventStep
<1> QED
  BY <1>1, EventInvariant, PTL DEF Spec, EventStays

-----------------------------------------------------------------------------
(* The count.  A disk on the list has a parent, an orphan has none: what   *)
(* leaves the list without its parent is counted as an orphan.             *)
CountOK == IsFiniteSet(Orphans) /\ CountIsList

(* The list and the orphans have no disk in common. *)
LEMMA ListedHaveParents ==
  ASSUME DataTypes, StructOK
  PROVE  /\ Listed \cap Orphans = {}
         /\ IsFiniteSet(Listed) /\ Cardinality(Listed) = Len(list)
         /\ Len(list) \in Nat
  BY InjectiveListCardinality
  DEF DataTypes, StructOK, ListOK, Orphans, Listed

(* What becomes of the count when the whole list, or a part of it that is  *)
(* counted out, is turned into orphans.                                    *)
LEMMA OrphansAdded ==
  ASSUME DataTypes, StructOK, CountOK, NEW Kept \in SUBSET Listed,
         Orphans' = Orphans \cup Kept, list' = <<>>,
         numPdos' = numPdos - Cardinality(Listed \ Kept)
  PROVE  CountOK'
<1>1. /\ IsFiniteSet(Kept) /\ IsFiniteSet(Listed \ Kept)
      /\ Cardinality(Listed \ Kept) = Cardinality(Listed) - Cardinality(Kept)
  <2>1. Listed \cap Kept = Kept
    OBVIOUS
  <2>2. IsFiniteSet(Listed)
    BY ListedHaveParents
  <2>3. IsFiniteSet(Kept)
    BY <2>2, FS_Subset
  <2>4. /\ IsFiniteSet(Listed \ Kept)
        /\ Cardinality(Listed \ Kept)
             = Cardinality(Listed) - Cardinality(Listed \cap Kept)
    BY ONLY <2>2, FS_Difference, Zenon
  <2> QED
    BY <2>1, <2>3, <2>4
<1>2. Kept \cap Orphans = {} /\ Orphans \cap Kept = {}
  BY ListedHaveParents
<1>3. /\ IsFiniteSet(Orphans \cup Kept)
      /\ Cardinality(Orphans \cup Kept) = Cardinality(Orphans) + Cardinality(Kept)
  <2>1. Cardinality(Orphans \cap Kept) = 0
    BY <1>2, FS_EmptySet
  <2>2. Cardinality(Orphans) \in Nat /\ Cardinality(Kept) \in Nat
    BY <1>1, FS_CardinalityType DEF CountOK
  <2>3. /\ IsFiniteSet(Orphans \cup Kept)
        /\ Cardinality(Orphans \cup Kept)
             = Cardinality(Orphans) + Cardinality(Kept) - Cardinality(Orphans \cap Kept)
    <3>1. IsFiniteSet(Orphans) /\ IsFiniteSet(Kept)
      BY <1>1 DEF CountOK
    <3> QED
      BY ONLY <3>1, FS_Union, Zenon
  <2> QED
    BY <2>1, <2>2, <2>3
<1>4. Len(list') = 0
  BY EmptySeq
<1>5. /\ Cardinality(Orphans) \in Nat /\ Cardinality(Kept) \in Nat
      /\ Cardinality(Listed) \in Nat
  BY <1>1, ListedHaveParents, FS_CardinalityType DEF CountOK
<1>6. numPdos = Cardinality(Listed) + Cardinality(Orphans)
  BY ListedHaveParents DEF CountOK, CountIsList
<1>7. numPdos' = Len(list') + Cardinality(Orphans')
  BY <1>1, <1>3, <1>4, <1>5, <1>6
<1> QED
  BY <1>3, <1>7 DEF CountOK, CountIsList

LEMMA CountStep ==
  ASSUME DataTypes, StructOK, CountOK, [Next]_vars
  PROVE  CountOK'
<1>0. ASSUME SameDisks, numPdos' = numPdos PROVE CountOK'
  <2>1. Orphans' = Orphans
    BY <1>0 DEF SameDisks, Orphans
  <2> QED
    BY <1>0, <2>1 DEF SameDisks, CountOK, CountIsList
<1>1. CASE Still
  BY <1>0, <1>1 DEF Still
<1>2. ASSUME NEW c \in Callers, FindDisk(c) PROVE CountOK'
  BY <1>0, <1>2 DEF FindDisk, SameDisks
<1>3. ASSUME NEW c \in Callers, NEW p \in Pdos, InsertPdo(c, p) PROVE CountOK'
  <2>1. /\ numPdos' = numPdos + 1 /\ list' = Append(list, p)
        /\ pdo[p].object = "none"
        /\ pdo' = [pdo EXCEPT ![p] = NewPdo(call[c].serial)]
    BY <1>3 DEF InsertPdo
  <2>2. pdo'[p].parent /\ \A q \in Pdos \ {p} : pdo'[q] = pdo[q]
    BY <2>1 DEF DataTypes, NewPdo, NoPdo
  <2>3. Orphans' = Orphans
    BY <2>1, <2>2 DEF Orphans
  <2>4. Len(list') = Len(list) + 1
    BY <2>1, AppendProperties DEF DataTypes
  <2>5. Len(list) \in Nat /\ Cardinality(Orphans) \in Nat
    BY ListedHaveParents, FS_CardinalityType DEF CountOK
  <2> QED
    BY <2>1, <2>3, <2>4, <2>5 DEF CountOK, CountIsList
<1>4. CASE SurpriseRemovalFdo
  <2>1. /\ numPdos' = numPdos /\ list' = <<>>
        /\ pdo' = [p \in Pdos |->
                     IF p \in Listed
                     THEN [pdo[p] EXCEPT !.parent = FALSE, !.reportedMissing = TRUE]
                     ELSE pdo[p]]
    BY <1>4 DEF SurpriseRemovalFdo
  <2>2. \A p \in Listed : p \in Pdos /\ pdo[p].object = "live"
    BY ListedTypes DEF StructOK, ListOK, Alive
  <2>3. \A p \in Listed : pdo'[p].object = "live" /\ ~ pdo'[p].parent
    BY <2>1, <2>2, MarkedPdo DEF DataTypes
  <2>4. \A p \in Pdos \ Listed : pdo'[p] = pdo[p]
    BY <2>1
  <2>5. Orphans' = Orphans \cup Listed
    BY <2>2, <2>3, <2>4 DEF Orphans
  <2>6. numPdos' = numPdos - Cardinality(Listed \ Listed)
    <3>1. Cardinality(Listed \ Listed) = 0
      BY FS_EmptySet
    <3>2. Len(list) \in Nat /\ Cardinality(Orphans) \in Nat
      BY ListedHaveParents, FS_CardinalityType DEF CountOK
    <3>3. numPdos \in Int
      BY <3>2 DEF CountOK, CountIsList
    <3>4. numPdos' = numPdos
      BY <2>1
    <3> QED
      BY <3>1, <3>3, <3>4
  <2> QED
    BY <2>1, <2>5, <2>6, OrphansAdded
<1>5. CASE RemoveFdo
  <2> DEFINE Kept == {p \in Listed : pdo[p].now = "SurpriseRemovePending"}
             Destroyed == Listed \ Kept
  <2>1. /\ numPdos' = numPdos - Cardinality(Destroyed) /\ list' = <<>>
        /\ pdo' = [p \in Pdos |->
                     IF p \in Kept
                     THEN [pdo[p] EXCEPT !.parent = FALSE, !.reportedMissing = TRUE]
                     ELSE IF p \in Destroyed THEN Freed(pdo[p]) ELSE pdo[p]]
    BY <1>5 DEF RemoveFdo
  <2>2. \A p \in Listed : p \in Pdos /\ pdo[p].object = "live" /\ pdo[p].parent
    BY ListedTypes DEF StructOK, ListOK, Alive
  <2>3. Kept \in SUBSET Listed
    OBVIOUS
  <2>4. \A p \in Kept : pdo'[p].object = "live" /\ ~ pdo'[p].parent
    <3>1. \A p \in Kept : /\ p \in Pdos /\ pdo[p] \in PdoTypes
                          /\ pdo[p].object = "live"
      BY <2>2 DEF DataTypes
    <3> HIDE DEF Kept
    <3> QED
      BY ONLY <2>1, <3>1, MarkedPdo
  <2>5. \A p \in Destroyed : pdo'[p].parent
    BY <2>1, <2>2, FreedPdo DEF DataTypes
  <2>6. \A p \in Pdos \ Listed : pdo'[p] = pdo[p]
    BY <2>1
  <2> HIDE DEF Kept
  <2>7. Orphans' = Orphans \cup Kept
    BY <2>2, <2>3, <2>4, <2>5, <2>6 DEF Orphans
  <2> QED
    BY <2>1, <2>3, <2>7, OrphansAdded
<1>6. CASE UnlinkPdo
  <2>1. PICK k \in DOMAIN list : list' = RemoveAt(list, k)
    BY <1>6 DEF UnlinkPdo, RemoveEntryList
  <2>2. numPdos' = numPdos - 1 /\ pdo' = pdo
    BY <1>6 DEF UnlinkPdo, pdoVars
  <2>3. Len(list') = Len(list) - 1
    BY <2>1, RemoveAtProperties DEF DataTypes
  <2>4. Orphans' = Orphans
    BY <2>2 DEF Orphans
  <2>5. Len(list) \in Nat /\ Cardinality(Orphans) \in Nat
    BY ListedHaveParents, FS_CardinalityType DEF CountOK
  <2> QED
    BY <2>2, <2>3, <2>4, <2>5 DEF CountOK, CountIsList
<1>7. CASE DestroyPdo
  <2>1. /\ pdo' = [pdo EXCEPT ![mgr.pdo] = Freed(pdo[mgr.pdo])]
        /\ mgr.pdo \in Pdos /\ pdo[mgr.pdo].object = "live"
        /\ list' = list /\ numPdos' = numPdos
    BY <1>7 DEF DestroyPdo, StructOK, RemovalOK, Alive, fdoVars
  <2>2. /\ pdo'[mgr.pdo].object = "destroyed"
        /\ pdo'[mgr.pdo].parent = pdo[mgr.pdo].parent
        /\ \A q \in Pdos \ {mgr.pdo} : pdo'[q] = pdo[q]
    BY <2>1, FreedPdo DEF DataTypes
  <2>3. Orphans' = Orphans
    BY <2>1, <2>2 DEF Orphans
  <2> QED
    BY <2>1, <2>3 DEF CountOK, CountIsList
<1> QED
  BY <1>1, <1>2, <1>3, <1>4, <1>5, <1>6, <1>7, DiskSteps

LEMMA CountInvariant == Spec => [](DataTypes /\ StructOK /\ CountOK)
<1>1. Init => CountOK
  <2> SUFFICES ASSUME Init PROVE CountOK
    OBVIOUS
  <2>1. Orphans = {}
    BY DEF Init, Orphans, NoPdo
  <2>2. Len(list) = 0
    BY EmptySeq DEF Init
  <2> QED
    BY <2>1, <2>2, FS_EmptySet DEF Init, CountOK, CountIsList
<1>2. DataTypes /\ StructOK /\ CountOK /\ [Next]_vars => CountOK'
  BY CountStep
<1> QED
  BY <1>1, <1>2, StructInvariant, PTL DEF Spec

(* NumPDOs, which Bus_FDO_Cleanup waits on and Bus_RemoveDisk trusts,      *)
(* counts the list and the disks the surprise removal took off it.         *)
THEOREM CountCorrect == Spec => []CountIsList
  BY CountInvariant, PTL DEF CountOK

(* Whoever walks ListOfPDOs under the mutex meets each disk once, and only *)
(* extensions that exist and point to the FDO.                             *)
THEOREM ListCorrect == Spec => []ListedAreLive
<1>1. DataTypes /\ StructOK => ListedAreLive
  BY ListedHaveParents DEF StructOK, ListOK, Alive, ListedAreLive
<1> QED
  BY <1>1, StructInvariant, PTL

(* Bus_FDO_PnP's REMOVE_DEVICE leaves no disk whose ParentFdo points to    *)
(* the FDO it deletes: what a later REMOVE_DEVICE of the disk would use.   *)
THEOREM NoParentDangles == Spec => []NoDanglingParent
<1>1. DataTypes /\ StructOK => NoDanglingParent
  <2> SUFFICES ASSUME DataTypes, StructOK, bus.node = "gone",
                      NEW p \in Pdos, Alive(p), pdo[p].parent
               PROVE  FALSE
    BY DEF NoDanglingParent, Alive
  <2>1. list = <<>> /\ mgr.at # "destroy"
    BY DEF StructOK, FdoOK, FdoDone
  <2>2. p \notin Listed
    BY <2>1 DEF Listed, ToSet
  <2> QED
    BY <2>1, <2>2 DEF StructOK, ListOK, Leaving
<1> QED
  BY <1>1, StructInvariant, PTL

-----------------------------------------------------------------------------
(* The remove lock of the FDO. *)
Busy == {c \in Callers : call[c] # User}

LockCounted == rlock = Cardinality(Busy) + leaks + (IF DeletingFdo THEN 1 ELSE 0)

LockOK == IsFiniteSet(Busy) /\ leaks \in Nat /\ LockCounted

(* What a step adds to the lock is what it adds to its holders. *)
LEMMA LockSame ==
  ASSUME LockOK, Busy' = Busy, UNCHANGED <<rlock, leaks>>,
         DeletingFdo' <=> DeletingFdo
  PROVE  LockOK'
BY DEF LockOK, LockCounted

LEMMA LockTaken ==
  ASSUME LockOK, NEW c \in Callers, c \notin Busy, Busy' = Busy \cup {c},
         rlock' = rlock + 1, UNCHANGED <<leaks, mgr>>
  PROVE  LockOK'
<1>1. IsFiniteSet(Busy) /\ leaks \in Nat /\ Cardinality(Busy) \in Nat
  BY FS_CardinalityType DEF LockOK
<1>2. /\ IsFiniteSet(Busy \cup {c})
      /\ Cardinality(Busy \cup {c}) = Cardinality(Busy) + 1
  BY <1>1, FS_AddElement
<1>3. rlock = Cardinality(Busy) + leaks + (IF DeletingFdo THEN 1 ELSE 0)
  BY DEF LockOK, LockCounted
<1>4. rlock' = Cardinality(Busy') + leaks' + (IF DeletingFdo' THEN 1 ELSE 0)
  BY <1>1, <1>2, <1>3 DEF DeletingFdo
<1> QED
  BY <1>1, <1>2, <1>4 DEF LockOK, LockCounted

LEMMA LockReleased ==
  ASSUME LockOK, NEW c \in Busy, Busy' = Busy \ {c},
         rlock' = rlock - 1, UNCHANGED <<leaks, mgr>>
  PROVE  LockOK'
<1>1. IsFiniteSet(Busy) /\ leaks \in Nat /\ Cardinality(Busy) \in Nat
  BY FS_CardinalityType DEF LockOK
<1>2. /\ IsFiniteSet(Busy \ {c})
      /\ Cardinality(Busy \ {c}) = Cardinality(Busy) - 1
  BY <1>1, FS_RemoveElement
<1>3. rlock = Cardinality(Busy) + leaks + (IF DeletingFdo THEN 1 ELSE 0)
  BY DEF LockOK, LockCounted
<1>4. rlock' = Cardinality(Busy') + leaks' + (IF DeletingFdo' THEN 1 ELSE 0)
  BY <1>1, <1>2, <1>3 DEF DeletingFdo
<1> QED
  BY <1>1, <1>2, <1>4 DEF LockOK, LockCounted

(* A thread enters the driver, goes on in it, or leaves it. *)
LEMMA IoctlLock ==
  ASSUME DataTypes, LockOK, NEW c \in Callers, Ioctl(c) \/ InIoctl(c)
  PROVE  LockOK'
<1>0. UNCHANGED <<leaks, mgr>>
  BY DEF Ioctl, InIoctl, AddDisk, RemoveDisk, GetRequest, Enter, CheckUnique, AddFails,
     Invalidate, FindDisk, WalkDone, InsertPdo, WalkTo, fdoVars, mgrVars
<1>1. ASSUME NEW at, NEW s, Enter(c, at, s) PROVE LockOK'
  <2>1. /\ call[c] = User /\ at # "user" /\ rlock' = rlock + 1
        /\ call' = [call EXCEPT ![c] = [at |-> at, serial |-> s, pdo |-> None]]
    BY <1>1, PnpAssumption DEF Enter
  <2>2. /\ call'[c] # User
        /\ \A d \in Callers \ {c} : call'[d] = call[d]
    BY <2>1 DEF DataTypes, User
  <2>3. c \notin Busy /\ Busy' = Busy \cup {c}
    BY <2>1, <2>2 DEF Busy
  <2> QED
    BY <1>0, <2>1, <2>3, LockTaken
<1>2. ASSUME Leave(c), call[c].at # "user" PROVE LockOK'
  <2>1. /\ call[c] # User /\ call'[c] = User
        /\ \A d \in Callers \ {c} : call'[d] = call[d]
    BY <1>2 DEF Leave, DataTypes, User
  <2>2. c \in Busy /\ Busy' = Busy \ {c}
    BY <2>1 DEF Busy
  <2> QED
    BY <1>0, <1>2, <2>2, LockReleased DEF Leave
<1>3. ASSUME call[c].at # "user", call'[c].at # "user",
             \A d \in Callers \ {c} : call'[d] = call[d], rlock' = rlock
      PROVE  LockOK'
  <2>1. Busy' = Busy
    BY <1>3 DEF Busy, User
  <2> QED
    BY <1>0, <1>3, <2>1, LockSame DEF DeletingFdo
<1>4. CASE CheckUnique(c)
  <2> DEFINE taken == \E p \in Listed : pdo[p].serial = call[c].serial
                                       /\ pdo[p].now # "SurpriseRemovePending"
  <2>1. CASE taken
    BY <1>2, <1>4, <2>1 DEF CheckUnique
  <2>2. CASE ~ taken
    <3>1. /\ call[c].at = "check" /\ rlock' = rlock
          /\ call' = [call EXCEPT ![c].at = "insert"]
      BY <1>4, <2>2 DEF CheckUnique
    <3> HIDE DEF taken
    <3> QED
      BY <1>3, <3>1 DEF DataTypes
  <2> QED
    BY <2>1, <2>2
<1>5. CASE AddFails(c) \/ Invalidate(c) \/ FindDisk(c) \/ WalkDone(c)
  BY <1>2, <1>5 DEF AddFails, Invalidate, FindDisk, WalkDone
<1>6. ASSUME NEW p \in Pdos, InsertPdo(c, p) PROVE LockOK'
  <2>1. /\ call[c].at = "insert" /\ rlock' = rlock
        /\ call' = [call EXCEPT ![c].at = "invalidate"]
    BY <1>6 DEF InsertPdo
  <2> QED
    BY <1>3, <2>1 DEF DataTypes
<1>7. ASSUME NEW p \in Pdos, WalkTo(c, p) PROVE LockOK'
  <2>1. /\ call[c].at = "walk" /\ rlock' = rlock
        /\ call' = [call EXCEPT ![c].pdo = p]
    BY <1>7 DEF WalkTo, fdoVars
  <2> QED
    BY <1>3, <2>1 DEF DataTypes
<1>8. CASE Ioctl(c)
  BY <1>1, <1>8 DEF Ioctl, AddDisk, RemoveDisk, GetRequest
<1> QED
  BY <1>4, <1>5, <1>6, <1>7, <1>8 DEF InIoctl

LEMMA FdoLock ==
  ASSUME DataTypes, LockOK, FdoPnp
  PROVE  LockOK'
<1>0. Busy' = Busy
  <2>1. call' = call
    BY DEF FdoPnp, StartFdo, QueryStopFdo, CancelStopFdo, StopFdo, QueryRemoveFdo,
       CancelRemoveFdo, BusVanishes, SurpriseRemovalFdo, RemoveFdo, ReleaseFdo,
       DeleteFdo, QueryRelations, QueryRelationsFails, FdoUnchanged, serviceVars
  <2> QED
    BY <2>1 DEF Busy
<1>1. ASSUME UNCHANGED <<rlock, leaks, mgr>> PROVE LockOK'
  BY <1>0, <1>1, LockSame DEF DeletingFdo
<1>2. /\ Cardinality(Busy) \in Nat /\ leaks \in Nat
      /\ rlock = Cardinality(Busy) + leaks + (IF DeletingFdo THEN 1 ELSE 0)
  BY FS_CardinalityType DEF LockOK, LockCounted
<1>3. ASSUME leaks' \in Nat,
             rlock' = Cardinality(Busy) + leaks'
                      + (IF DeletingFdo' THEN 1 ELSE 0)
      PROVE  LockOK'
  BY <1>0, <1>3 DEF LockOK, LockCounted
<1>4. CASE RemoveFdo
  <2>1. /\ ~ DeletingFdo /\ DeletingFdo'
        /\ rlock' = rlock + 1 /\ leaks' = leaks
    BY <1>4 DEF RemoveFdo, NoRemoval, DeletingFdo
  <2> QED
    BY <1>2, <1>3, <2>1
<1>5. CASE DeleteFdo
  <2>1. /\ DeletingFdo /\ ~ DeletingFdo'
        /\ rlock = 1 /\ rlock' = 0 /\ leaks' = leaks
    BY <1>5 DEF DeleteFdo, NoRemoval, DeletingFdo
  <2> QED
    BY <1>2, <1>3, <2>1
<1>6. CASE QueryRelationsFails
  <2>1. mgr' = mgr /\ rlock' = rlock + 1 /\ leaks' = leaks + 1
    BY <1>6 DEF QueryRelationsFails
  <2> QED
    BY <1>2, <1>3, <2>1 DEF DeletingFdo
<1>7. CASE StartFdo \/ QueryStopFdo \/ CancelStopFdo \/ StopFdo \/ QueryRemoveFdo
           \/ CancelRemoveFdo
  BY <1>1, <1>7 DEF StartFdo, QueryStopFdo, CancelStopFdo, StopFdo, QueryRemoveFdo,
     CancelRemoveFdo, FdoUnchanged
<1>8. CASE BusVanishes \/ SurpriseRemovalFdo \/ QueryRelations
  BY <1>1, <1>8 DEF BusVanishes, SurpriseRemovalFdo, QueryRelations, fdoVars
<1>9. CASE ReleaseFdo
  <2>1. DeletingFdo /\ DeletingFdo' /\ UNCHANGED <<rlock, leaks>>
    BY <1>9 DEF ReleaseFdo, DeletingFdo, DataTypes, fdoVars
  <2> QED
    BY <1>0, <2>1, LockSame
<1> QED
  BY <1>4, <1>5, <1>6, <1>7, <1>8, <1>9 DEF FdoPnp

LEMMA LockStep ==
  ASSUME DataTypes, LockOK, [Next]_vars
  PROVE  LockOK'
<1>0. ASSUME UNCHANGED <<rlock, leaks, call>>,
             DeletingFdo' <=> DeletingFdo
      PROVE  LockOK'
  BY <1>0, LockSame DEF Busy
<1>1. CASE UNCHANGED vars
  BY <1>0, <1>1 DEF vars, fdoVars, serviceVars, mgrVars, DeletingFdo
<1>2. CASE OpenHandle \/ CloseHandle \/ Close
  <2>1. UNCHANGED <<call, mgr>>
    BY <1>2 DEF OpenHandle, CloseHandle, Close, Bus_CreateClose, mgrVars
  <2>2. CASE UNCHANGED <<rlock, leaks>>
    BY <1>0, <2>1, <2>2 DEF DeletingFdo
  <2>3. CASE rlock' = rlock + 1 /\ leaks' = leaks + 1
    <3>1. Busy' = Busy /\ DeletingFdo' = DeletingFdo
      BY <2>1 DEF Busy, DeletingFdo
    <3>2. Cardinality(Busy) \in Nat
      BY FS_CardinalityType DEF LockOK
    <3> QED
      BY <2>3, <3>1, <3>2 DEF LockOK, LockCounted
  <2> QED
    BY <1>2, <2>2, <2>3 DEF OpenHandle, CloseHandle, Close, Bus_CreateClose, fdoVars
<1>3. CASE Cleanup
  BY <1>0, <1>3 DEF Cleanup, CleanupCheck, CleanupReset, Bus_RemoveAllDisks, CleanupWait,
     fdoVars, mgrVars, DeletingFdo
<1>4. ASSUME NEW p \in Pdos, PdoPnp(p) PROVE LockOK'
  <2>1. UNCHANGED <<rlock, leaks, call>>
    BY <1>4 DEF PdoPnp, StartPdo, QueryStopPdo, CancelStopPdo, StopPdo, QueryRemovePdo,
       CancelRemovePdo, SurpriseRemovalPdo, EjectPdo, RemovePdo, Handled, fdoVars,
       serviceVars
  <2>2. CASE RemovePdo(p)
    <3>1. mgr.at = "idle" /\ (mgr' = mgr \/ mgr'.at \in {"unlink", "destroy"})
      BY <2>2 DEF RemovePdo, MayRemovePdo
    <3> QED
      BY <1>0, <2>1, <3>1 DEF DeletingFdo
  <2>3. CASE ~ RemovePdo(p)
    <3>1. mgr' = mgr
      BY <1>4, <2>3 DEF PdoPnp, StartPdo, QueryStopPdo, CancelStopPdo, StopPdo,
         QueryRemovePdo, CancelRemovePdo, SurpriseRemovalPdo, EjectPdo, Handled
    <3> QED
      BY <1>0, <2>1, <3>1 DEF DeletingFdo
  <2> QED
    BY <2>2, <2>3
<1>5. CASE RemovalStep
  <2>1. UNCHANGED <<rlock, leaks, call>>
    BY <1>5 DEF RemovalStep, UnlinkPdo, DestroyPdo, CountPdos, SignalReady, fdoVars,
       serviceVars
  <2>2. ~ DeletingFdo /\ ~ DeletingFdo'
    BY <1>5 DEF RemovalStep, UnlinkPdo, DestroyPdo, CountPdos, SignalReady, RemoveDone,
       NoRemoval, DataTypes, DeletingFdo
  <2> QED
    BY <1>0, <2>1, <2>2
<1> QED
  BY <1>1, <1>2, <1>3, <1>4, <1>5, IoctlLock, FdoLock DEF Next, Stopped

LEMMA LockInvariant == Spec => [](DataTypes /\ LockOK)
<1>1. Init => LockOK
  <2> SUFFICES ASSUME Init PROVE LockOK
    OBVIOUS
  <2>1. Busy = {}
    BY DEF Init, Busy
  <2>2. IsFiniteSet(Busy) /\ Cardinality(Busy) = 0
    BY <2>1, FS_EmptySet
  <2>3. leaks = 0 /\ rlock = 0 /\ ~ DeletingFdo
    BY DEF Init, NoRemoval, DeletingFdo
  <2>4. LockCounted
    BY <2>2, <2>3 DEF LockCounted
  <2> QED
    BY <2>2, <2>3, <2>4 DEF LockOK
<1>2. Init => DataTypes
  BY InitDataTypes
<1>3. DataTypes /\ LockOK /\ [Next]_vars => (DataTypes /\ LockOK)'
  BY LockStep, NextDataTypes
<1> QED
  BY <1>1, <1>2, <1>3, PTL DEF Spec

(* Who holds the remove lock of the FDO: a thread in Bus_FDO_IoCtl, the    *)
(* removal, and each return of QUERY_DEVICE_RELATIONS and Bus_CreateClose  *)
(* that kept it.  When IoReleaseRemoveLockAndWait waits, the threads are   *)
(* gone, and only these returns can keep it waiting.                       *)
THEOREM RemoveLockCorrect == Spec => []FdoRemoveLockBalanced
<1>1. ASSUME StructOK, LockOK PROVE FdoRemoveLockBalanced
  <2>1. mgr.at = "fdoWait" => Busy = {}
    BY <1>1 DEF StructOK, HandleOK, FdoOK, FdoDone, DeletingFdo, Busy
  <2>2. Cardinality({}) = 0
    BY FS_EmptySet
  <2> QED
    BY <1>1, <2>1, <2>2 DEF LockOK, LockCounted, Busy, FdoRemoveLockBalanced, DeletingFdo,
       StructOK
<1> QED
  BY <1>1, LockInvariant, StructInvariant, PTL

(* Every variable has its type; the counters NumPDOs and the lock's never  *)
(* go below zero.                                                          *)
THEOREM TypeCorrect == Spec => []TypeOK
<1>1. StructOK /\ DataTypes /\ CountOK => numPdos \in Nat
  BY ListedHaveParents, FS_CardinalityType DEF CountOK, CountIsList
<1>2. LockOK => rlock \in Nat /\ leaks \in Nat
  BY FS_CardinalityType DEF LockOK, LockCounted
<1>3. DataTypes /\ StructOK /\ CountOK /\ LockOK => TypeOK
  BY <1>1, <1>2 DEF TypeOK, CounterTypes
<1> QED
  BY <1>3, CountInvariant, LockInvariant, PTL
=============================================================================
