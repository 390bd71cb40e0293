-------------------------- MODULE PnpRemovalProofs --------------------------
(***************************************************************************)
(* Proofs about PnpLifecycle, on top of PnpLifecycleProofs: which disks    *)
(* are removed, that their serial numbers are unique, that driver and PnP  *)
(* manager agree on states, when the cleanup returns, and that the manager *)
(* is told of every change.                                                *)
(***************************************************************************)
EXTENDS PnpLifecycleProofs

Lost(p) == dev[p].missing \/ bus.missing

(* A disk is marked as reported missing when it is not present.            *)
PresentOK == \A p \in Listed : pdo[p].reportedMissing => ~ pdo[p].present

(* What is marked and known to the manager, the manager takes for missing. *)
MissingOK ==
  \A p \in Pdos :
    Alive(p) /\ pdo[p].reportedMissing /\ dev[p].node # "unknown" =>
      Lost(p) \/ FdoDone

(* The disk that is being removed, and those that were. *)
GoingOK ==
  /\ mgr.at \in {"unlink", "destroy"} => Lost(mgr.pdo)
  /\ mgr.at = "count" => pdo[mgr.pdo].object = "destroyed"
  /\ \A p \in Pdos : dev[p].node = "gone" => pdo[p].object = "destroyed"

(* A disk is without a parent only after the bus was surprise removed. *)
OrphanOK ==
  /\ \A p \in Pdos : Alive(p) /\ ~ pdo[p].parent => bus.node = "surprise" \/ FdoDone
  /\ mgr.at \in {"unlink", "destroy", "count"} /\ ~ mgr.fdoData =>
       bus.node = "surprise"
  /\ bus.node = "surprise" /\ ~ FdoDone => fdo.now = "SurpriseRemovePending"

MarkOK == PresentOK /\ MissingOK /\ GoingOK /\ OrphanOK

(* The field surprised remembers SurpriseRemovePending. *)
SurprisedOK ==
  \A p \in Pdos :
    "SurpriseRemovePending" \in {pdo[p].now, pdo[p].prev} => pdo[p].surprised

(* Between the check of a serial number and the insertion of the disk no   *)
(* disk with that number comes.                                            *)
FreeOK ==
  \A c \in Callers, p \in Listed :
    call[c].at = "insert" /\ pdo[p].serial = call[c].serial => pdo[p].surprised

ApartOK ==
  \A c, d \in Callers :
    /\ c # d
    /\ {call[c].at, call[d].at} \subseteq {"check", "insert"}
    => call[c].serial # call[d].serial

SerialOK == SurprisedOK /\ FreeOK /\ ApartOK /\ UniqueSerial

-----------------------------------------------------------------------------
(* The macros of the states leave the rest of an extension alone. *)
SameFlags(d, e) ==
  /\ e.object = d.object /\ e.parent = d.parent /\ e.present = d.present
  /\ e.reportedMissing = d.reportedMissing
  /\ e.serial = d.serial /\ e.surprised = d.surprised

Remembers(d) == "SurpriseRemovePending" \in {d.now, d.prev} => d.surprised

LEMMA StatesKeepFlags ==
  ASSUME NEW d \in PdoTypes, NEW s \in PnpStates
  PROVE  /\ SameFlags(d, SetNew(d, s)) /\ SameFlags(d, Cancel(d, s))
         /\ Remembers(d) /\ s # "SurpriseRemovePending" =>
              Remembers(SetNew(d, s)) /\ Remembers(Cancel(d, s))
<1>1. /\ SameFlags(d, SetNew(d, s))
      /\ SetNew(d, s).now = s /\ SetNew(d, s).prev = d.now
  BY DEF SetNew, PdoTypes, SameFlags
<1>2. /\ SameFlags(d, Restore(d))
      /\ Restore(d).now = d.prev /\ Restore(d).prev = d.prev
  BY DEF Restore, PdoTypes, SameFlags
<1>3. Cancel(d, s) \in {d, Restore(d)}
  BY DEF Cancel
<1> QED
  BY <1>1, <1>2, <1>3 DEF SameFlags, Remembers

LEMMA SurprisedKeepsFlags ==
  ASSUME NEW d \in PdoTypes, NEW e,
         e = [SetNew(d, "SurpriseRemovePending") EXCEPT !.surprised = TRUE]
  PROVE  /\ e.object = d.object /\ e.parent = d.parent /\ e.present = d.present
         /\ e.reportedMissing = d.reportedMissing /\ e.serial = d.serial
         /\ e.surprised
  BY DEF SetNew, PdoTypes

(* What the steps that only mark extensions make of one. *)
Marks(d) ==
  {d, [d EXCEPT !.present = FALSE], [d EXCEPT !.reportedMissing = TRUE],
   [d EXCEPT !.parent = FALSE, !.reportedMissing = TRUE]}

LEMMA FlagsOfMarked ==
  ASSUME NEW d \in PdoTypes, NEW e \in Marks(d)
  PROVE  /\ e.object = d.object /\ e.serial = d.serial /\ e.surprised = d.surprised
         /\ e.now = d.now /\ e.prev = d.prev
         /\ e.present => d.present
         /\ \/ e.present = d.present
            \/ /\ e.parent = d.parent
               /\ e.reportedMissing = d.reportedMissing
<1>1. CASE e = d
  BY <1>1
<1>2. CASE e = [d EXCEPT !.present = FALSE]
  BY <1>2 DEF PdoTypes
<1>3. CASE e = [d EXCEPT !.reportedMissing = TRUE]
  BY <1>3 DEF PdoTypes
<1>4. CASE e = [d EXCEPT !.parent = FALSE, !.reportedMissing = TRUE]
  BY <1>4 DEF PdoTypes
<1> QED
  BY <1>1, <1>2, <1>3, <1>4 DEF Marks

LEMMA FlagsOfOneMark ==
  ASSUME NEW d \in PdoTypes
  PROVE  /\ [d EXCEPT !.present = FALSE].object = d.object
         /\ [d EXCEPT !.present = FALSE].parent = d.parent
         /\ [d EXCEPT !.present = FALSE].reportedMissing = d.reportedMissing
         /\ ~ [d EXCEPT !.present = FALSE].present
         /\ [d EXCEPT !.reportedMissing = TRUE].object = d.object
         /\ [d EXCEPT !.reportedMissing = TRUE].parent = d.parent
         /\ [d EXCEPT !.reportedMissing = TRUE].reportedMissing
         /\ [d EXCEPT !.reportedMissing = TRUE].present = d.present
  BY DEF PdoTypes

LEMMA FreedForgets ==
  ASSUME NEW d \in PdoTypes
  PROVE  Remembers(Freed(d)) /\ Freed(d).object = "destroyed"
  BY DEF Freed, NoPdo, Remembers

LEMMA NewPdoFlags ==
  ASSUME NEW s
  PROVE  /\ Remembers(NewPdo(s)) /\ NewPdo(s).object = "live" /\ NewPdo(s).serial = s
         /\ ~ NewPdo(s).reportedMissing /\ NewPdo(s).parent
  BY DEF NewPdo, NoPdo, Remembers

-----------------------------------------------------------------------------
(* Serial numbers.  A step that adds no disk. *)
LEMMA SerialStep ==
  ASSUME DataTypes, SerialOK, Listed' \subseteq Listed,
         \A p \in Pdos : Remembers(pdo'[p]),
         \A p \in Listed' : /\ pdo'[p].serial = pdo[p].serial
                            /\ pdo[p].surprised => pdo'[p].surprised,
         \A c \in Callers :
           call'[c].at \in {"check", "insert"} =>
             /\ call'[c].serial = call[c].serial
             /\ call'[c].at = call[c].at
  PROVE  SerialOK'
<1>1. SurprisedOK'
  BY DEF SurprisedOK, Remembers
<1>2. FreeOK'
  BY DEF SerialOK, FreeOK
<1>3. ApartOK'
  BY DEF SerialOK, ApartOK
<1>4. UniqueSerial'
  BY DEF SerialOK, UniqueSerial
<1> QED
  BY <1>1, <1>2, <1>3, <1>4 DEF SerialOK

(* One that changes neither the disks nor the IOCTLs. *)
LEMMA SerialSame ==
  ASSUME DataTypes, SerialOK, UNCHANGED <<list, pdo>>,
         \A c \in Callers :
           call'[c].at \in {"check", "insert"} =>
             /\ call'[c].serial = call[c].serial
             /\ call'[c].at = call[c].at
  PROVE  SerialOK'
<1>1. Listed' = Listed
  BY DEF Listed
<1>2. \A p \in Pdos : Remembers(pdo[p])
  BY DEF SerialOK, SurprisedOK, Remembers
<1> QED
  BY <1>1, <1>2, SerialStep

LEMMA IoctlSerial ==
  ASSUME DataTypes, SerialOK, NEW c \in Callers, Ioctl(c)
  PROVE  SerialOK'
<1>0. PICK at, s : Enter(c, at, s)
  BY DEF Ioctl, AddDisk, RemoveDisk, GetRequest
<1>1. /\ call' = [call EXCEPT ![c] = [at |-> at, serial |-> s, pdo |-> None]]
      /\ UNCHANGED <<list, pdo>> /\ at # "insert"
  BY <1>0, PnpAssumption DEF Enter, pdoVars
<1>2. /\ call'[c].at = at /\ call'[c].serial = s
      /\ \A d \in Callers \ {c} : call'[d] = call[d]
  BY <1>1 DEF DataTypes
<1>3. CASE at # "check"
  BY <1>1, <1>2, <1>3, SerialSame
<1>4. CASE at = "check"
  <2>1. \A d \in Callers : call[d].at \in {"check", "insert"} => call[d].serial # s
    BY <1>0, <1>4 DEF Enter
  <2>2. ApartOK'
    BY <1>2, <2>1 DEF SerialOK, ApartOK
  <2>3. SurprisedOK' /\ UniqueSerial' /\ FreeOK'
    BY <1>1, <1>2 DEF SerialOK, SurprisedOK, UniqueSerial, FreeOK, Listed
  <2> QED
    BY <2>2, <2>3 DEF SerialOK
<1> QED
  BY <1>3, <1>4

(* The IOCTL of thread c moves on, and adds no disk. *)
LEMMA InIoctlSerial ==
  ASSUME DataTypes, StructOK, SerialOK, NEW c \in Callers,
         InIoctl(c), \A p \in Pdos : ~ InsertPdo(c, p)
  PROVE  SerialOK'
<1>1. ASSUME Leave(c), UNCHANGED <<list, pdo>> PROVE SerialOK'
  <2>1. call'[c].at = "user" /\ \A d \in Callers \ {c} : call'[d] = call[d]
    BY <1>1 DEF Leave, DataTypes, User
  <2> QED
    BY <1>1, <2>1, SerialSame
<1>2. CASE AddFails(c) \/ Invalidate(c) \/ FindDisk(c) \/ WalkDone(c)
  BY <1>1, <1>2 DEF AddFails, Invalidate, FindDisk, WalkDone, pdoVars
<1>3. ASSUME NEW q \in Pdos, WalkTo(c, q) PROVE SerialOK'
  <2>1. /\ call[c].at = "walk" /\ UNCHANGED <<list, pdo>>
        /\ call' = [call EXCEPT ![c].pdo = q]
    BY <1>3 DEF WalkTo, fdoVars, pdoVars
  <2>2. call'[c].at = "walk" /\ \A d \in Callers \ {c} : call'[d] = call[d]
    BY <2>1 DEF DataTypes
  <2> QED
    BY <2>1, <2>2, SerialSame
<1>4. CASE CheckUnique(c)
  <2> DEFINE taken == \E p \in Listed : pdo[p].serial = call[c].serial
                                       /\ pdo[p].now # "SurpriseRemovePending"
  <2>0. UNCHANGED <<list, pdo>>
    BY <1>4 DEF CheckUnique, pdoVars
  <2>1. CASE taken
    BY <1>1, <1>4, <2>0, <2>1 DEF CheckUnique
  <2>2. CASE ~ taken
    <3>1. /\ call[c].at = "check"
          /\ call' = [call EXCEPT ![c].at = "insert"]
      BY <1>4, <2>2 DEF CheckUnique
    <3>2. /\ call'[c].at = "insert" /\ call'[c].serial = call[c].serial
          /\ \A d \in Callers \ {c} : call'[d] = call[d]
      BY <3>1 DEF DataTypes
    <3>3. \A p \in Listed : pdo[p].serial = call[c].serial => pdo[p].surprised
      BY <2>2, ListedTypes DEF SerialOK, SurprisedOK
    <3> HIDE DEF taken
    <3>4. FreeOK'
      BY <2>0, <3>2, <3>3 DEF SerialOK, FreeOK, Listed
    <3>5. ApartOK'
      BY <3>1, <3>2 DEF SerialOK, ApartOK
    <3> QED
      BY <2>0, <3>4, <3>5 DEF SerialOK, SurprisedOK, UniqueSerial, Listed
  <2> QED
    BY <2>1, <2>2
<1> QED
  BY <1>2, <1>3, <1>4 DEF InIoctl

LEMMA InsertSerial ==
  ASSUME DataTypes, StructOK, SerialOK, NEW c \in Callers, NEW q \in Pdos,
         InsertPdo(c, q)
  PROVE  SerialOK'
<1>1. /\ call[c].at = "insert" /\ list' = Append(list, q) /\ pdo[q].object = "none"
      /\ pdo' = [pdo EXCEPT ![q] = NewPdo(call[c].serial)]
      /\ call' = [call EXCEPT ![c].at = "invalidate"]
  BY DEF InsertPdo
<1>2. Listed' = Listed \cup {q} /\ q \notin Listed
  <2>1. list \in Seq(Pdos)
    BY DEF DataTypes
  <2>2. Listed' = Listed \cup {q}
    BY <1>1, <2>1, AppendInjectiveList DEF Listed
  <2>3. q \notin Listed
    BY <1>1 DEF StructOK, ListOK, Alive
  <2> QED
    BY <2>2, <2>3
<1>3. /\ pdo'[q] = NewPdo(call[c].serial)
      /\ \A p \in Pdos \ {q} : pdo'[p] = pdo[p]
  BY <1>1 DEF DataTypes
<1>4. /\ call'[c].at = "invalidate"
      /\ \A d \in Callers \ {c} : call'[d] = call[d]
  BY <1>1 DEF DataTypes
<1>5. SurprisedOK'
  BY <1>3, NewPdoFlags DEF SerialOK, SurprisedOK, Remembers
<1>6. \A p \in Listed : /\ p \in Pdos /\ p # q /\ pdo'[p] = pdo[p]
                        /\ pdo[p].serial = call[c].serial => pdo[p].surprised
  BY <1>1, <1>2, <1>3, ListedTypes DEF SerialOK, FreeOK
<1>7. pdo'[q].serial = call[c].serial
  BY <1>3, NewPdoFlags
<1>8. FreeOK'
  BY <1>1, <1>2, <1>4, <1>6, <1>7 DEF SerialOK, FreeOK, ApartOK
<1>9. ApartOK'
  BY <1>4 DEF SerialOK, ApartOK
<1>10. UniqueSerial'
  BY <1>2, <1>6, <1>7 DEF SerialOK, UniqueSerial
<1> QED
  BY <1>5, <1>8, <1>9, <1>10 DEF SerialOK

(* The IRPs of a disk. *)
LEMMA PdoFlagsKept ==
  ASSUME DataTypes, SurprisedOK, NEW p \in Pdos, PdoPnp(p)
  PROVE  /\ list' = list /\ call' = call
         /\ \A q \in Pdos \ {p} : pdo'[q] = pdo[q]
         /\ Remembers(pdo'[p]) /\ pdo'[p].serial = pdo[p].serial
         /\ pdo[p].surprised => pdo'[p].surprised
         /\ pdo'[p].object = pdo[p].object /\ pdo'[p].parent = pdo[p].parent
         /\ pdo'[p].reportedMissing = pdo[p].reportedMissing
         /\ pdo'[p].present => pdo[p].present
<1> DEFINE Kept(e) ==
             /\ Remembers(e) /\ e.serial = pdo[p].serial
             /\ pdo[p].surprised => e.surprised
             /\ e.object = pdo[p].object /\ e.parent = pdo[p].parent
             /\ e.reportedMissing = pdo[p].reportedMissing
             /\ e.present => pdo[p].present
<1>s. /\ "Started" \in PnpStates /\ "StopPending" \in PnpStates
      /\ "Stopped" \in PnpStates /\ "RemovePending" \in PnpStates
      /\ "NotStarted" \in PnpStates /\ "Deleted" \in PnpStates
      /\ "SurpriseRemovePending" \in PnpStates
  BY DEF PnpStates
<1>0. pdo[p] \in PdoTypes /\ Remembers(pdo[p])
  BY DEF DataTypes, SurprisedOK, Remembers
<1>1. list' = list /\ call' = call
  BY DEF PdoPnp, StartPdo, QueryStopPdo, CancelStopPdo, StopPdo, QueryRemovePdo,
     CancelRemovePdo, SurpriseRemovalPdo, EjectPdo, RemovePdo, Handled, fdoVars,
     serviceVars
<1>2. ASSUME NEW e, pdo' = [pdo EXCEPT ![p] = e]
      PROVE  pdo'[p] = e /\ \A q \in Pdos \ {p} : pdo'[q] = pdo[q]
  BY <1>2 DEF DataTypes
<1>3. ASSUME NEW s \in PnpStates \ {"SurpriseRemovePending"}
      PROVE  Kept(SetNew(pdo[p], s)) /\ Kept(Cancel(pdo[p], s))
  BY <1>0, <1>3, StatesKeepFlags DEF SameFlags
<1>4. \E e : pdo' = [pdo EXCEPT ![p] = e] /\ Kept(e)
  <2>1. CASE StartPdo(p)
    BY <1>s, <1>3, <2>1 DEF StartPdo, Handled
  <2>2. CASE QueryStopPdo(p)
    BY <1>s, <1>3, <2>2 DEF QueryStopPdo, Handled
  <2>3. CASE CancelStopPdo(p)
    BY <1>s, <1>3, <2>3 DEF CancelStopPdo, Handled
  <2>4. CASE StopPdo(p)
    BY <1>s, <1>3, <2>4 DEF StopPdo, Handled
  <2>5. CASE QueryRemovePdo(p)
    BY <1>s, <1>3, <2>5 DEF QueryRemovePdo, Handled
  <2>6. CASE CancelRemovePdo(p)
    BY <1>s, <1>3, <2>6 DEF CancelRemovePdo
  <2>7. CASE SurpriseRemovalPdo(p)
    <3> DEFINE e == [SetNew(pdo[p], "SurpriseRemovePending") EXCEPT !.surprised = TRUE]
    <3>1. pdo' = [pdo EXCEPT ![p] = e]
      BY <2>7 DEF SurpriseRemovalPdo, Handled
    <3>2. Kept(e)
      <4>1. \A d : d = e => Kept(d)
        BY <1>0, SurprisedKeepsFlags DEF Remembers
      <4> QED
        BY <4>1
    <3> HIDE DEF e, Kept
    <3> QED
      BY <3>1, <3>2
  <2>8. CASE EjectPdo(p)
    <3> DEFINE e == [pdo[p] EXCEPT !.present = FALSE]
    <3>1. pdo' = [pdo EXCEPT ![p] = e]
      BY <2>8 DEF EjectPdo
    <3>2. Kept(e)
      BY <1>0 DEF PdoTypes, Remembers
    <3> HIDE DEF e, Kept
    <3> QED
      BY <3>1, <3>2
  <2>9. CASE RemovePdo(p)
    <3>1. PICK d \in {pdo[p], SetNew(pdo[p], "Deleted"), SetNew(pdo[p], "NotStarted")} :
            pdo' = [pdo EXCEPT ![p] = d]
      BY <2>9 DEF RemovePdo
    <3>2. Kept(pdo[p])
      BY <1>0
    <3> HIDE DEF Kept
    <3> QED
      BY <1>s, <1>3, <3>1, <3>2
  <2> QED
    BY <2>1, <2>2, <2>3, <2>4, <2>5, <2>6, <2>7, <2>8, <2>9 DEF PdoPnp
<1> QED
  BY <1>1, <1>2, <1>4

(* A step that only marks extensions. *)
LEMMA MarkedSerial ==
  ASSUME DataTypes, SerialOK, Listed' \subseteq Listed, call' = call,
         \A p \in Pdos : pdo'[p] \in Marks(pdo[p])
  PROVE  SerialOK'
<1>1. \A p \in Pdos : /\ pdo'[p].serial = pdo[p].serial
                      /\ pdo'[p].surprised = pdo[p].surprised
                      /\ pdo'[p].now = pdo[p].now /\ pdo'[p].prev = pdo[p].prev
  BY FlagsOfMarked DEF DataTypes
<1>2. \A p \in Pdos : Remembers(pdo'[p])
  BY <1>1 DEF SerialOK, SurprisedOK, Remembers
<1> QED
  BY <1>1, <1>2, SerialStep, ListedTypes

LEMMA FdoSerial ==
  ASSUME DataTypes, SerialOK, FdoPnp
  PROVE  SerialOK'
<1>0. ASSUME UNCHANGED <<list, pdo, call>> PROVE SerialOK'
  BY <1>0, SerialSame
<1>1. CASE StartFdo \/ QueryStopFdo \/ CancelStopFdo \/ StopFdo \/ QueryRemoveFdo
           \/ CancelRemoveFdo
  BY <1>0, <1>1 DEF StartFdo, QueryStopFdo, CancelStopFdo, StopFdo, QueryRemoveFdo,
     CancelRemoveFdo, FdoUnchanged, pdoVars, serviceVars
<1>2. CASE BusVanishes \/ ReleaseFdo \/ DeleteFdo \/ QueryRelationsFails
  BY <1>0, <1>2 DEF BusVanishes, ReleaseFdo, DeleteFdo, QueryRelationsFails, fdoVars,
     pdoVars, serviceVars
<1>3. CASE SurpriseRemovalFdo
  <2>1. \A p \in Pdos : pdo'[p] \in Marks(pdo[p])
    BY <1>3 DEF SurpriseRemovalFdo, Marks
  <2>2. list' = <<>> /\ call' = call
    BY <1>3 DEF SurpriseRemovalFdo, serviceVars
  <2>3. Listed' = {}
    BY <2>2 DEF Listed, ToSet
  <2> QED
    BY <2>1, <2>2, <2>3, MarkedSerial
<1>4. CASE QueryRelations
  <2>1. \A p \in Pdos : pdo'[p] \in Marks(pdo[p])
    BY <1>4 DEF QueryRelations, Marks
  <2>2. Listed' = Listed /\ call' = call
    BY <1>4 DEF QueryRelations, fdoVars, serviceVars, Listed
  <2> QED
    BY <2>1, <2>2, MarkedSerial
<1>5. CASE RemoveFdo
  <2>1. \A p \in Pdos : pdo'[p] \in Marks(pdo[p]) \cup {Freed(pdo[p])}
    BY <1>5 DEF RemoveFdo, Marks
  <2>4. list' = <<>> /\ call' = call
    BY <1>5 DEF RemoveFdo, serviceVars
  <2>5. Listed' = {}
    BY <2>4 DEF Listed, ToSet
  <2>2. ASSUME NEW p \in Pdos PROVE Remembers(pdo'[p])
    <3>1. pdo[p] \in PdoTypes /\ Remembers(pdo[p])
      BY DEF DataTypes, SerialOK, SurprisedOK, Remembers
    <3>2. CASE pdo'[p] = Freed(pdo[p])
      BY <3>1, <3>2, FreedForgets
    <3>3. CASE pdo'[p] \in Marks(pdo[p])
      BY <3>1, <3>3, FlagsOfMarked DEF Remembers
    <3> QED
      BY <2>1, <3>2, <3>3
  <2> QED
    BY <2>2, <2>4, <2>5, SerialStep
<1> QED
  BY <1>1, <1>2, <1>3, <1>4, <1>5 DEF FdoPnp

LEMMA RemovalSerial ==
  ASSUME DataTypes, StructOK, SerialOK, RemovalStep
  PROVE  SerialOK'
<1>1. CASE CountPdos \/ SignalReady
  BY <1>1, SerialSame DEF CountPdos, SignalReady, fdoVars, pdoVars, serviceVars
<1>2. CASE UnlinkPdo
  <2>1. PICK k \in DOMAIN list : list' = RemoveAt(list, k)
    BY <1>2 DEF UnlinkPdo, RemoveEntryList
  <2>2. Listed' \subseteq Listed
    BY <2>1, RemoveAtInjectiveList DEF DataTypes, StructOK, ListOK, Listed
  <2>3. pdo' = pdo /\ call' = call
    BY <1>2 DEF UnlinkPdo, pdoVars, serviceVars
  <2> QED
    BY <2>2, <2>3, MarkedSerial DEF Marks
<1>3. CASE DestroyPdo
  <2>1. /\ mgr.pdo \in Pdos \ Listed
        /\ pdo' = [pdo EXCEPT ![mgr.pdo] = Freed(pdo[mgr.pdo])]
        /\ list' = list /\ call' = call
    BY <1>3 DEF DestroyPdo, fdoVars, serviceVars, StructOK, RemovalOK
  <2>2. /\ Remembers(pdo'[mgr.pdo])
        /\ \A p \in Pdos \ {mgr.pdo} : pdo'[p] = pdo[p]
    BY <2>1, FreedForgets DEF DataTypes
  <2>3. \A p \in Pdos : Remembers(pdo'[p])
    BY <2>2 DEF SerialOK, SurprisedOK, Remembers
  <2>4. Listed' = Listed /\ Listed \subseteq Pdos
    BY <2>1, ListedTypes DEF Listed
  <2> QED
    BY <2>1, <2>2, <2>3, <2>4, SerialStep
<1> QED
  BY <1>1, <1>2, <1>3 DEF RemovalStep

LEMMA NextSerial == DataTypes /\ StructOK /\ SerialOK /\ [Next]_vars => SerialOK'
<1> SUFFICES ASSUME DataTypes, StructOK, SerialOK, [Next]_vars PROVE SerialOK'
  OBVIOUS
<1>0. ASSUME UNCHANGED <<list, pdo, call>> PROVE SerialOK'
  BY <1>0, SerialSame
<1>1. CASE UNCHANGED vars
  BY <1>0, <1>1 DEF vars, fdoVars, pdoVars, serviceVars
<1>2. CASE OpenHandle \/ CloseHandle \/ Close
  BY <1>0, <1>2 DEF OpenHandle, CloseHandle, Close, Bus_CreateClose, fdoVars, pdoVars
<1>3. CASE CleanupCheck \/ CleanupReset \/ CleanupWait
  BY <1>0, <1>3 DEF CleanupCheck, CleanupReset, CleanupWait, fdoVars, pdoVars
<1>4. CASE Bus_RemoveAllDisks
  <2>1. /\ Listed' = Listed /\ call' = call
        /\ \A p \in Pdos : pdo'[p] \in Marks(pdo[p])
    BY <1>4 DEF Bus_RemoveAllDisks, fdoVars, Listed, Marks
  <2> QED
    BY <2>1, MarkedSerial
<1>5. ASSUME NEW p \in Pdos, PdoPnp(p) PROVE SerialOK'
  <2>1. SurprisedOK /\ \A q \in Pdos : Remembers(pdo[q])
    BY DEF SerialOK, SurprisedOK, Remembers
  <2>2. Listed' = Listed /\ Listed \subseteq Pdos
    BY <1>5, <2>1, PdoFlagsKept, ListedTypes DEF Listed
  <2> QED
    BY <1>5, <2>1, <2>2, PdoFlagsKept, SerialStep
<1>6. ASSUME NEW c \in Callers, InIoctl(c) PROVE SerialOK'
  BY <1>6, InIoctlSerial, InsertSerial
<1> QED
  BY <1>1, <1>2, <1>3, <1>4, <1>5, <1>6, IoctlSerial, FdoSerial, RemovalSerial
     DEF Next, Cleanup, Stopped

(* The serial number under which Windows and the service know a disk is    *)
(* its own, although Bus_AddDisk checks it (pnp.c:1204) and inserts    *)
(* the disk in two acquisitions of the mutex.  It needs that the service   *)
(* makes the AddDisk calls for one number one at a time.                   *)
THEOREM SerialCorrect == Spec => []UniqueSerial
<1>1. Init => SerialOK
  BY DEF Init, SerialOK, SurprisedOK, FreeOK, ApartOK, UniqueSerial, NoPdo, User, Listed,
     ToSet
<1>2. SerialOK => UniqueSerial
  BY DEF SerialOK
<1> QED
  BY <1>1, <1>2, NextSerial, StructInvariant, PTL DEF Spec

-----------------------------------------------------------------------------
(* Which disks are removed.  A step that leaves disk p where it is: it     *)
(* marks no disk, and the manager learns of no disk.                       *)
Unmarked(p) ==
  /\ Alive(p)' => Alive(p)
  /\ pdo'[p].parent = pdo[p].parent
  /\ pdo'[p].reportedMissing => pdo[p].reportedMissing
  /\ pdo'[p].present => pdo[p].present
  /\ dev'[p].node # "unknown" => dev[p].node # "unknown"
  /\ dev'[p].node = "gone" => dev[p].node = "gone"
  /\ dev[p].missing => dev'[p].missing

(* The FDO's state while a surprise removal is under way.                  *)
BusKept ==
  /\ bus.missing => bus'.missing
  /\ (bus'.node = "surprise") = (bus.node = "surprise")
  /\ FdoDone' = FdoDone
  /\ bus.node = "surprise" => fdo' = fdo

LEMMA MarkStep ==
  ASSUME DataTypes, StructOK, MarkOK, mgr' = mgr, BusKept, Listed' \subseteq Listed,
         \A p \in Pdos : Unmarked(p),
         \A p \in Pdos : pdo[p].object = "destroyed" => pdo'[p].object = "destroyed"
  PROVE  MarkOK'
<1>1. PresentOK'
  BY ListedTypes DEF MarkOK, PresentOK, Unmarked
<1>2. MissingOK'
  BY DEF MarkOK, MissingOK, Unmarked, BusKept, Lost
<1>3. GoingOK'
  BY DEF MarkOK, GoingOK, Unmarked, BusKept, Lost, StructOK, RemovalOK
<1>4. OrphanOK'
  BY DEF MarkOK, OrphanOK, Unmarked, BusKept
<1> QED
  BY <1>1, <1>2, <1>3, <1>4 DEF MarkOK

(* A step that leaves disks and devices alone. *)
LEMMA MarkSame ==
  ASSUME DataTypes, StructOK, MarkOK, UNCHANGED <<list, pdo, mgr, dev>>, BusKept
  PROVE  MarkOK'
<1>1. Listed' = Listed
  BY DEF Listed
<1>2. \A p \in Pdos : Unmarked(p)
  BY DEF Unmarked, Alive
<1> QED
  BY <1>1, <1>2, MarkStep

LEMMA SameBus ==
  ASSUME UNCHANGED <<fdo, mgr, bus>>
  PROVE  BusKept
  BY DEF BusKept, FdoDone

LEMMA IoctlMark ==
  ASSUME DataTypes, StructOK, MarkOK, NEW c \in Callers, Ioctl(c) \/ InIoctl(c)
  PROVE  MarkOK'
<1>1. CASE Ioctl(c)
  BY <1>1, MarkSame, SameBus
     DEF Ioctl, AddDisk, RemoveDisk, GetRequest, Enter, pdoVars, mgrVars
<1>2. CASE CheckUnique(c) \/ AddFails(c) \/ WalkDone(c)
  BY <1>2, MarkSame, SameBus DEF CheckUnique, AddFails, WalkDone, pdoVars, mgrVars
<1>3. ASSUME NEW q \in Pdos, WalkTo(c, q) PROVE MarkOK'
  BY <1>3, MarkSame, SameBus DEF WalkTo, fdoVars, pdoVars, mgrVars
<1>4. CASE Invalidate(c)
  <2>1. bus'.node = bus.node /\ bus'.missing = bus.missing
    BY <1>4 DEF Invalidate, DataTypes
  <2>2. UNCHANGED <<list, pdo, mgr, dev, fdo>>
    BY <1>4 DEF Invalidate, pdoVars
  <2>3. BusKept
    BY <2>1, <2>2 DEF BusKept, FdoDone
  <2> QED
    BY <2>2, <2>3, MarkSame
<1>5. CASE FindDisk(c)
  <2>1. UNCHANGED <<list, pdo, mgr, bus, fdo>>
    BY <1>5 DEF FindDisk
  <2>2. \A p \in Pdos : dev'[p].node = dev[p].node /\ dev'[p].missing = dev[p].missing
    BY <1>5 DEF FindDisk, DataTypes
  <2>3. Listed' = Listed /\ \A p \in Pdos : Unmarked(p)
    BY <2>1, <2>2 DEF Listed, Unmarked, Alive
  <2> QED
    BY <2>1, <2>3, SameBus, MarkStep
<1>6. ASSUME NEW q \in Pdos, InsertPdo(c, q) PROVE MarkOK'
  <2>1. /\ list' = Append(list, q) /\ pdo[q].object = "none"
        /\ pdo' = [pdo EXCEPT ![q] = NewPdo(call[c].serial)]
        /\ UNCHANGED <<mgr, dev, bus, fdo>>
    BY <1>6 DEF InsertPdo, mgrVars
  <2>2. /\ pdo'[q] = NewPdo(call[c].serial)
        /\ \A p \in Pdos \ {q} : pdo'[p] = pdo[p]
    BY <2>1 DEF DataTypes
  <2>3. ~ pdo'[q].reportedMissing /\ pdo'[q].parent
    BY <2>2, NewPdoFlags
  <2>4. Listed' = Listed \cup {q} /\ Listed \subseteq Pdos
    BY <2>1, AppendInjectiveList, ListedTypes DEF DataTypes, Listed
  <2>5. PresentOK'
    BY <2>2, <2>3, <2>4 DEF MarkOK, PresentOK
  <2>6. MissingOK'
    BY <2>1, <2>2, <2>3 DEF MarkOK, MissingOK, Alive, Lost, FdoDone
  <2>7. GoingOK'
    BY <2>1, <2>2 DEF MarkOK, GoingOK, Lost, StructOK, RemovalOK
  <2>8. OrphanOK'
    BY <2>1, <2>2, <2>3 DEF MarkOK, OrphanOK, Alive, FdoDone
  <2> QED
    BY <2>5, <2>6, <2>7, <2>8 DEF MarkOK
<1> QED
  BY <1>1, <1>2, <1>3, <1>4, <1>5, <1>6 DEF InIoctl

LEMMA HandleMark ==
  ASSUME DataTypes, StructOK, MarkOK, OpenHandle \/ CloseHandle \/ Cleanup \/ Close
  PROVE  MarkOK'
<1>1. CASE OpenHandle \/ CloseHandle \/ Close
  BY <1>1, MarkSame, SameBus
     DEF OpenHandle, CloseHandle, Close, Bus_CreateClose, fdoVars, pdoVars, mgrVars
<1>2. CASE CleanupCheck \/ CleanupReset \/ CleanupWait
  BY <1>2, MarkSame, SameBus
     DEF CleanupCheck, CleanupReset, CleanupWait, fdoVars, pdoVars, mgrVars
<1>3. CASE Bus_RemoveAllDisks
  <2>1. UNCHANGED <<list, mgr, dev, fdo>>
    BY <1>3 DEF Bus_RemoveAllDisks, fdoVars
  <2>2. bus'.node = bus.node /\ bus'.missing = bus.missing
    BY <1>3 DEF Bus_RemoveAllDisks, DataTypes
  <2>3. \A p \in Pdos : pdo'[p] \in {pdo[p], [pdo[p] EXCEPT !.present = FALSE]}
    BY <1>3 DEF Bus_RemoveAllDisks
  <2>9. \A p \in Pdos : pdo[p] \in PdoTypes
    BY DEF DataTypes
  <2>4. \A p \in Pdos : /\ pdo'[p].object = pdo[p].object
                        /\ pdo'[p].parent = pdo[p].parent
                        /\ pdo'[p].reportedMissing = pdo[p].reportedMissing
                        /\ pdo'[p].present => pdo[p].present
    <3>1. SUFFICES ASSUME NEW p \in Pdos
                   PROVE  /\ pdo'[p].object = pdo[p].object
                          /\ pdo'[p].parent = pdo[p].parent
                          /\ pdo'[p].reportedMissing = pdo[p].reportedMissing
                          /\ pdo'[p].present => pdo[p].present
      OBVIOUS
    <3>2. CASE pdo'[p] = pdo[p]
      BY <3>2
    <3>3. CASE pdo'[p] = [pdo[p] EXCEPT !.present = FALSE]
      <4>1. pdo[p] \in PdoTypes
        BY <2>9
      <4> QED
        BY <3>3, <4>1, FlagsOfOneMark
    <3> QED
      BY <2>3, <3>2, <3>3
  <2>5. BusKept
    BY <2>1, <2>2 DEF BusKept, FdoDone
  <2>6. Listed' = Listed /\ \A p \in Pdos : Unmarked(p)
    BY <2>1, <2>4 DEF Listed, Unmarked, Alive
  <2> QED
    BY <2>1, <2>4, <2>5, <2>6, MarkStep
<1> QED
  BY <1>1, <1>2, <1>3 DEF Cleanup

LEMMA FdoMark ==
  ASSUME DataTypes, StructOK, MarkOK, FdoPnp
  PROVE  MarkOK'
<1>1. ASSUME FdoUnchanged, mgr.at = "idle", bus.node \notin {"surprise", "gone"},
             bus'.node \notin {"surprise", "gone"}, bus.missing => bus'.missing
      PROVE  MarkOK'
  <2>1. UNCHANGED <<list, pdo, mgr, dev>>
    BY <1>1 DEF FdoUnchanged, pdoVars
  <2>2. BusKept
    BY <1>1, <2>1 DEF BusKept, FdoDone
  <2> QED
    BY <2>1, <2>2, MarkSame
<1>2. ASSUME NEW node \in BusNodes, BusTo(node)
      PROVE  bus'.node = node /\ bus'.missing = bus.missing
  BY <1>2 DEF BusTo, DataTypes
<1>s. /\ "started" \in BusNodes /\ "stopPending" \in BusNodes /\ "stopped" \in BusNodes
      /\ "removePending" \in BusNodes /\ "surprise" \in BusNodes /\ "gone" \in BusNodes
  BY DEF BusNodes
<1>3. CASE StartFdo
  <2>1. CASE BusTo("started")
    BY <1>s, <1>1, <1>2, <1>3, <2>1 DEF StartFdo
  <2>2. CASE bus' = [bus EXCEPT !.missing = TRUE]
    <3>1. bus'.node = bus.node /\ bus'.missing
      BY <2>2 DEF DataTypes
    <3> QED
      BY <1>1, <1>3, <3>1 DEF StartFdo
  <2> QED
    BY <1>3, <2>1, <2>2 DEF StartFdo
<1>4. CASE QueryStopFdo
  BY <1>s, <1>1, <1>2, <1>4 DEF QueryStopFdo
<1>5. CASE CancelStopFdo
  BY <1>s, <1>1, <1>2, <1>5 DEF CancelStopFdo
<1>6. CASE StopFdo
  BY <1>s, <1>1, <1>2, <1>6 DEF StopFdo
<1>7. CASE QueryRemoveFdo
  BY <1>s, <1>1, <1>2, <1>7 DEF QueryRemoveFdo
<1>8. CASE CancelRemoveFdo
  BY <1>s, <1>1, <1>2, <1>8 DEF CancelRemoveFdo
<1>9. CASE BusVanishes \/ QueryRelationsFails
  <2>1. UNCHANGED <<list, pdo, mgr, dev, fdo>>
    BY <1>9 DEF BusVanishes, QueryRelationsFails, fdoVars, pdoVars
  <2>2. bus'.node = bus.node /\ (bus.missing => bus'.missing)
    BY <1>9 DEF BusVanishes, QueryRelationsFails, DataTypes
  <2>3. BusKept
    BY <2>1, <2>2 DEF BusKept, FdoDone
  <2> QED
    BY <2>1, <2>3, MarkSame
<1>14. CASE ReleaseFdo
  <2>1. /\ mgr.at = "fdoRelease" /\ mgr'.at = "fdoWait"
        /\ UNCHANGED <<list, pdo, dev, bus, fdo>>
    BY <1>14 DEF ReleaseFdo, fdoVars, pdoVars, DataTypes
  <2> QED
    BY <2>1 DEF MarkOK, PresentOK, MissingOK, GoingOK, OrphanOK, FdoDone, Listed, Alive,
       Lost
<1>10. CASE DeleteFdo
  <2>1. bus'.node = "gone" /\ mgr'.at = "idle"
    BY <1>s, <1>2, <1>10 DEF DeleteFdo, NoRemoval
  <2>2. list' = list /\ pdo' = pdo /\ dev' = dev
    BY <1>10 DEF DeleteFdo, pdoVars
  <2> QED
    BY <2>1, <2>2 DEF MarkOK, PresentOK, MissingOK, GoingOK, OrphanOK, FdoDone, Listed
<1>11. CASE SurpriseRemovalFdo
  <2>1. bus'.node = "surprise" /\ bus'.missing
    BY <1>s, <1>2, <1>11 DEF SurpriseRemovalFdo
  <2>2. mgr'.at = "idle" /\ list' = <<>> /\ fdo'.now = "SurpriseRemovePending"
    BY <1>11 DEF SurpriseRemovalFdo, SetNew, DataTypes
  <2>3. Listed' = {}
    BY <2>2 DEF Listed, ToSet
  <2>4. dev' = dev /\ \A p \in Pdos : pdo'[p].object = pdo[p].object
    BY <1>11, MarkedPdo DEF SurpriseRemovalFdo, DataTypes
  <2> QED
    BY <2>1, <2>2, <2>3, <2>4 DEF MarkOK, PresentOK, MissingOK, GoingOK, OrphanOK, Lost
<1>12. CASE RemoveFdo
  <2>1. mgr'.at = "fdoRelease" /\ list' = <<>>
    BY <1>12 DEF RemoveFdo, NoRemoval
  <2>2. Listed' = {}
    BY <2>1 DEF Listed, ToSet
  <2>3. dev' = dev /\ \A p \in Pdos : p \notin Listed => pdo'[p] = pdo[p]
    BY <1>12 DEF RemoveFdo
  <2>4. \A p \in Pdos : pdo[p].object = "destroyed" => p \notin Listed
    BY DEF StructOK, ListOK, Alive
  <2> QED
    BY <2>1, <2>2, <2>3, <2>4 DEF MarkOK, PresentOK, MissingOK, GoingOK, OrphanOK, FdoDone
<1>13. CASE QueryRelations
  <2> DEFINE Reported == {p \in Listed : pdo[p].present}
  <2>1. /\ mgr.at = "idle" /\ bus.node = "started"
        /\ UNCHANGED <<list, mgr, fdo>>
        /\ bus'.node = bus.node /\ bus'.missing = bus.missing
    BY <1>13 DEF QueryRelations, fdoVars, DataTypes
  <2>2. Listed' = Listed /\ Listed \subseteq Pdos
    BY <2>1, ListedTypes DEF Listed
  <2>3. \A p \in Pdos :
          pdo'[p] = IF p \in Listed \ Reported
                    THEN [pdo[p] EXCEPT !.reportedMissing = TRUE] ELSE pdo[p]
    BY <1>13 DEF QueryRelations
  <2>4. \A p \in Pdos :
          /\ dev'[p].node = IF dev[p].node = "unknown" /\ p \in Reported
                            THEN "reported" ELSE dev[p].node
          /\ dev'[p].missing = (dev[p].missing
                                 \/ (dev[p].node \notin {"unknown", "gone"}
                                      /\ p \notin Reported))
    BY <1>13 DEF QueryRelations, DataTypes
  <2>5. \A p \in Pdos : /\ pdo'[p].object = pdo[p].object
                        /\ pdo'[p].parent = pdo[p].parent
                        /\ pdo'[p].present = pdo[p].present
                        /\ pdo'[p].reportedMissing <=>
                             (pdo[p].reportedMissing \/ p \in Listed \ Reported)
    <3> HIDE DEF Reported
    <3>1. SUFFICES ASSUME NEW p \in Pdos
                   PROVE  /\ pdo'[p].object = pdo[p].object
                          /\ pdo'[p].parent = pdo[p].parent
                          /\ pdo'[p].present = pdo[p].present
                          /\ pdo'[p].reportedMissing <=>
                               (pdo[p].reportedMissing \/ p \in Listed \ Reported)
      OBVIOUS
    <3>2. pdo[p] \in PdoTypes
      BY DEF DataTypes
    <3>3. CASE p \in Listed \ Reported
      BY <2>3, <3>2, <3>3, FlagsOfOneMark
    <3>4. CASE p \notin Listed \ Reported
      <4>1. pdo'[p] = pdo[p]
        BY <2>3, <3>4
      <4> QED
        BY <3>4, <4>1
    <3> QED
      BY <3>3, <3>4
  <2>6. PresentOK'
    BY <2>2, <2>5 DEF MarkOK, PresentOK
  <2>7. MissingOK'
    <3>1. SUFFICES ASSUME NEW p \in Pdos, Alive(p)', pdo'[p].reportedMissing,
                          dev'[p].node # "unknown"
                   PROVE  Lost(p)' \/ FdoDone'
      BY DEF MissingOK
    <3>2. Alive(p) /\ ~ FdoDone
      BY <2>1, <2>5, <3>1 DEF Alive, FdoDone
    <3>3. CASE p \in Reported
      <4>1. pdo[p].reportedMissing /\ pdo[p].present /\ p \in Listed
        BY <2>5, <3>1, <3>3
      <4> QED
        BY <4>1 DEF MarkOK, PresentOK
    <3>4. CASE p \notin Reported /\ dev[p].node # "gone"
      <4>1. dev[p].node # "unknown"
        BY <2>4, <3>1, <3>4
      <4> QED
        BY <2>4, <3>4, <4>1 DEF Lost
    <3>5. CASE p \notin Reported /\ dev[p].node = "gone"
      BY <3>2, <3>5 DEF MarkOK, GoingOK, Alive
    <3> QED
      BY <3>3, <3>4, <3>5
  <2>8. GoingOK' /\ OrphanOK'
    <3>1. \A p \in Pdos : dev'[p].node = "gone" => dev[p].node = "gone"
      BY <2>4
    <3> HIDE DEF Reported
    <3> QED
      BY <2>1, <2>5, <3>1 DEF MarkOK, GoingOK, OrphanOK, Alive, FdoDone
  <2> QED
    BY <2>6, <2>7, <2>8 DEF MarkOK
<1> QED
  BY <1>3, <1>4, <1>5, <1>6, <1>7, <1>8, <1>9, <1>10, <1>11, <1>12, <1>13, <1>14
     DEF FdoPnp

(* REMOVE_DEVICE of a disk that was reported missing begins. *)
LEMMA RemovalBegins ==
  ASSUME DataTypes, StructOK, SerialOK, MarkOK, NEW p \in Pdos, RemovePdo(p),
         pdo[p].reportedMissing
  PROVE  MarkOK'
<1>1. /\ mgr.at = "idle" /\ mgr'.at \in {"unlink", "destroy"}
      /\ mgr'.pdo = p /\ mgr'.fdoData = pdo[p].parent
      /\ UNCHANGED <<list, dev, bus, fdo>>
  BY DEF RemovePdo, MayRemovePdo, fdoVars
<1>2. Alive(p) /\ ~ FdoDone /\ dev[p].node # "unknown"
  BY ServedDiskLives DEF RemovePdo, MayRemovePdo, Settled
<1>3. ~ FdoDone' /\ Listed' = Listed
  BY <1>1, <1>2 DEF FdoDone, Listed
<1>4. PdoPnp(p) /\ SurprisedOK
  BY DEF PdoPnp, SerialOK
<1>5. \A q \in Pdos : Unmarked(q)
  BY <1>1, <1>4, PdoFlagsKept DEF Unmarked, Alive
<1>6. PresentOK'
  BY <1>3, <1>5, ListedTypes DEF MarkOK, PresentOK, Unmarked
<1>7. MissingOK'
  BY <1>1, <1>2, <1>5 DEF MarkOK, MissingOK, Unmarked, Lost
<1>8. GoingOK'
  <2>1. Lost(p)
    BY <1>2 DEF MarkOK, MissingOK
  <2>2. \A q \in Pdos : pdo'[q].object = pdo[q].object
    BY <1>4, PdoFlagsKept
  <2> QED
    BY <1>1, <2>1, <2>2 DEF MarkOK, GoingOK, Lost
<1>9. OrphanOK'
  BY <1>1, <1>2, <1>3, <1>5 DEF MarkOK, OrphanOK, Unmarked
<1> QED
  BY <1>6, <1>7, <1>8, <1>9 DEF MarkOK

(* The other IRPs of a disk. *)
LEMMA PdoMark ==
  ASSUME DataTypes, StructOK, SerialOK, MarkOK, NEW p \in Pdos, PdoPnp(p)
  PROVE  MarkOK'
<1>1. CASE RemovePdo(p) /\ pdo[p].reportedMissing
  BY <1>1, RemovalBegins
<1>2. CASE ~ (RemovePdo(p) /\ pdo[p].reportedMissing)
  <2>1. mgr' = mgr /\ fdo' = fdo /\ list' = list
    BY <1>2 DEF PdoPnp, StartPdo, QueryStopPdo, CancelStopPdo, StopPdo, QueryRemovePdo,
       CancelRemovePdo, SurpriseRemovalPdo, EjectPdo, RemovePdo, Handled, fdoVars
  <2>2. bus'.node = bus.node /\ bus'.missing = bus.missing
    <3>1. CASE EjectPdo(p)
      BY <3>1 DEF EjectPdo, DataTypes
    <3>2. CASE ~ EjectPdo(p)
      BY <3>2 DEF PdoPnp, StartPdo, QueryStopPdo, CancelStopPdo, StopPdo, QueryRemovePdo,
         CancelRemovePdo, SurpriseRemovalPdo, RemovePdo, Handled
    <3> QED
      BY <3>1, <3>2
  <2>3. dev[p].node # "unknown"
    BY DEF PdoPnp, StartPdo, QueryStopPdo, CancelStopPdo, StopPdo, QueryRemovePdo,
       CancelRemovePdo, SurpriseRemovalPdo, EjectPdo, RemovePdo, MayRemovePdo
  <2>4. /\ dev'[p].missing = dev[p].missing
        /\ dev'[p].node = "gone" => dev[p].node = "gone"
        /\ \A q \in Pdos \ {p} : dev'[q] = dev[q]
    <3>2. CASE StartPdo(p) \/ QueryStopPdo(p) \/ CancelStopPdo(p) \/ StopPdo(p)
               \/ QueryRemovePdo(p) \/ SurpriseRemovalPdo(p)
      BY <3>2 DEF StartPdo, QueryStopPdo, CancelStopPdo, StopPdo, QueryRemovePdo,
         SurpriseRemovalPdo, Handled, DataTypes
    <3>3. CASE CancelRemovePdo(p) \/ EjectPdo(p)
      BY <3>3 DEF CancelRemovePdo, EjectPdo, DataTypes
    <3>4. CASE RemovePdo(p)
      BY <1>2, <3>4 DEF RemovePdo, DataTypes
    <3> QED
      BY <3>2, <3>3, <3>4 DEF PdoPnp
  <2>5. SurprisedOK
    BY DEF SerialOK
  <2>6. \A q \in Pdos : Unmarked(q)
    BY <2>3, <2>4, <2>5, PdoFlagsKept DEF Unmarked, Alive
  <2>7. \A q \in Pdos : pdo'[q].object = pdo[q].object
    BY <2>5, PdoFlagsKept
  <2>8. BusKept
    BY <2>1, <2>2 DEF BusKept, FdoDone
  <2>9. Listed' = Listed
    BY <2>1 DEF Listed
  <2> QED
    BY <2>1, <2>6, <2>7, <2>8, <2>9, MarkStep
<1> QED
  BY <1>1, <1>2

LEMMA RemovalMark ==
  ASSUME DataTypes, StructOK, MarkOK, RemovalStep
  PROVE  MarkOK'
<1>0. bus' = bus /\ fdo' = fdo /\ (FdoDone' <=> FdoDone)
  BY DEF RemovalStep, UnlinkPdo, DestroyPdo, CountPdos, SignalReady, fdoVars, FdoDone,
     RemoveDone, NoRemoval, DataTypes
<1>1. CASE UnlinkPdo
  <2>1. /\ mgr.at = "unlink" /\ mgr'.at = "destroy"
        /\ mgr'.pdo = mgr.pdo /\ mgr'.fdoData = mgr.fdoData
    BY <1>1 DEF UnlinkPdo, DataTypes
  <2>2. pdo' = pdo /\ dev' = dev
    BY <1>1 DEF UnlinkPdo, pdoVars
  <2>3. Listed' \subseteq Listed
    <3>1. PICK k \in DOMAIN list : list' = RemoveAt(list, k)
      BY <1>1 DEF UnlinkPdo, RemoveEntryList
    <3> QED
      BY <3>1, RemoveAtInjectiveList DEF DataTypes, StructOK, ListOK, Listed
  <2>4. PresentOK' /\ MissingOK'
    BY <1>0, <2>2, <2>3 DEF MarkOK, PresentOK, MissingOK, Alive, Lost
  <2>5. GoingOK' /\ OrphanOK'
    BY <1>0, <2>1, <2>2 DEF MarkOK, GoingOK, OrphanOK, Alive, Lost
  <2> QED
    BY <2>4, <2>5 DEF MarkOK
<1>2. CASE DestroyPdo
  <2>1. /\ mgr.at = "destroy" /\ mgr'.at = "count"
        /\ mgr'.pdo = mgr.pdo /\ mgr'.fdoData = mgr.fdoData
        /\ mgr.pdo \in Pdos \ Listed
    BY <1>2 DEF DestroyPdo, DataTypes, StructOK, RemovalOK
  <2>2. /\ pdo' = [pdo EXCEPT ![mgr.pdo] = Freed(pdo[mgr.pdo])]
        /\ list' = list /\ dev' = dev
    BY <1>2 DEF DestroyPdo, fdoVars
  <2>3. /\ pdo'[mgr.pdo].object = "destroyed"
        /\ \A p \in Pdos \ {mgr.pdo} : pdo'[p] = pdo[p]
    BY <2>1, <2>2, FreedPdo DEF DataTypes
  <2>4. PresentOK'
    BY <2>1, <2>2, <2>3, ListedTypes DEF MarkOK, PresentOK, Listed
  <2>5. MissingOK'
    BY <1>0, <2>2, <2>3 DEF MarkOK, MissingOK, Alive, Lost
  <2>6. GoingOK' /\ OrphanOK'
    BY <1>0, <2>1, <2>2, <2>3 DEF MarkOK, GoingOK, OrphanOK, Alive
  <2> QED
    BY <2>4, <2>5, <2>6 DEF MarkOK
<1>3. CASE CountPdos
  <2>1. mgr.at = "count" /\ mgr'.at \in {"idle", "signal"} /\ mgr.pdo \in Pdos
    BY <1>3 DEF CountPdos, RemoveDone, NoRemoval, DataTypes, StructOK, RemovalOK
  <2>2. /\ dev' = [dev EXCEPT ![mgr.pdo] = Gone]
        /\ list' = list /\ pdo' = pdo
    BY <1>3 DEF CountPdos, fdoVars, pdoVars
  <2>3. /\ pdo[mgr.pdo].object = "destroyed"
        /\ \A p \in Pdos \ {mgr.pdo} : dev'[p] = dev[p]
    BY <2>1, <2>2 DEF MarkOK, GoingOK, DataTypes
  <2>4. PresentOK'
    BY <2>2 DEF MarkOK, PresentOK, Listed
  <2>5. MissingOK'
    BY <1>0, <2>2, <2>3 DEF MarkOK, MissingOK, Alive, Lost
  <2>6. GoingOK' /\ OrphanOK'
    BY <1>0, <2>1, <2>2, <2>3 DEF MarkOK, GoingOK, OrphanOK, Alive
  <2> QED
    BY <2>4, <2>5, <2>6 DEF MarkOK
<1>4. CASE SignalReady
  <2>1. mgr'.at = "idle" /\ UNCHANGED <<list, pdo, dev>>
    BY <1>4 DEF SignalReady, RemoveDone, NoRemoval, pdoVars
  <2> QED
    BY <1>0, <2>1 DEF MarkOK, PresentOK, MissingOK, GoingOK, OrphanOK, Alive, Lost, Listed
<1> QED
  BY <1>1, <1>2, <1>3, <1>4 DEF RemovalStep

LEMMA NextMark == DataTypes /\ StructOK /\ SerialOK /\ MarkOK /\ [Next]_vars => MarkOK'
<1> SUFFICES ASSUME DataTypes, StructOK, SerialOK, MarkOK, [Next]_vars PROVE MarkOK'
  OBVIOUS
<1>1. CASE UNCHANGED vars
  BY <1>1, MarkSame, SameBus DEF vars, fdoVars, pdoVars, mgrVars
<1> QED
  BY <1>1, IoctlMark, HandleMark, FdoMark, PdoMark, RemovalMark DEF Next, Stopped

LEMMA MarkInvariant == Spec => [](DataTypes /\ StructOK /\ SerialOK /\ MarkOK)
<1>1. Init => SerialOK
  BY DEF Init, SerialOK, SurprisedOK, FreeOK, ApartOK, UniqueSerial, NoPdo, User, Listed,
     ToSet
<1>2. Init => MarkOK
  BY DEF Init, MarkOK, PresentOK, MissingOK, GoingOK, OrphanOK, NoPdo, NoRemoval, Alive,
     Listed, ToSet
<1> QED
  BY <1>1, <1>2, NextSerial, NextMark, StructInvariant, PTL DEF Spec

(* What a step destroys was missing, and the uninitialised fdoData is used *)
(* only after the surprise removal of the bus.                             *)
LEMMA DestroyStep ==
  ASSUME DataTypes, StructOK, MarkOK, [Next]_vars
  PROVE  /\ \A p \in Pdos :
              pdo[p].object = "live" /\ pdo'[p].object = "destroyed" =>
                dev[p].missing \/ bus.missing \/ fdo'.now = "Deleted"
         /\ stray' # stray => fdo.now = "SurpriseRemovePending"
<1>1. ASSUME NEW p \in Pdos, pdo[p].object = "live", pdo'[p].object = "destroyed"
      PROVE  dev[p].missing \/ bus.missing \/ fdo'.now = "Deleted"
  <2>1. CASE Still
    BY <1>1, <2>1 DEF Still, SameDisks
  <2>2. CASE (\E c \in Callers : FindDisk(c)) \/ UnlinkPdo
    BY <1>1, <2>2 DEF FindDisk, UnlinkPdo, pdoVars
  <2>3. ASSUME NEW c \in Callers, NEW q \in Pdos, InsertPdo(c, q)
        PROVE  FALSE
    <3>1. p # q /\ pdo'[p] = pdo[p]
      BY <1>1, <2>3 DEF InsertPdo, DataTypes
    <3> QED
      BY <1>1, <3>1
  <2>4. CASE SurpriseRemovalFdo
    BY <1>1, <2>4, MarkedPdo DEF SurpriseRemovalFdo, DataTypes
  <2>5. CASE RemoveFdo
    BY <2>5 DEF RemoveFdo, SetNew, DataTypes
  <2>6. CASE DestroyPdo
    <3>1. p = mgr.pdo /\ mgr.at = "destroy"
      BY <1>1, <2>6 DEF DestroyPdo, DataTypes
    <3> QED
      BY <3>1 DEF MarkOK, GoingOK, Lost
  <2> QED
    BY <2>1, <2>2, <2>3, <2>4, <2>5, <2>6, DiskSteps
<1>2. ASSUME stray' # stray PROVE fdo.now = "SurpriseRemovePending"
  <2>1. CountPdos
    BY <1>2 DEF Next, Ioctl, InIoctl, AddDisk, RemoveDisk, GetRequest, Enter, CheckUnique,
       AddFails, Invalidate, FindDisk, WalkDone, InsertPdo, WalkTo, OpenHandle, CloseHandle,
       Cleanup, CleanupCheck, CleanupReset, Bus_RemoveAllDisks, CleanupWait, Close, FdoPnp,
       StartFdo, QueryStopFdo, CancelStopFdo, StopFdo, QueryRemoveFdo, CancelRemoveFdo,
       BusVanishes, SurpriseRemovalFdo, RemoveFdo, ReleaseFdo, DeleteFdo, QueryRelations,
       Bus_CreateClose, QueryRelationsFails, FdoUnchanged, PdoPnp, StartPdo, QueryStopPdo, CancelStopPdo,
       StopPdo, QueryRemovePdo, CancelRemovePdo, SurpriseRemovalPdo, EjectPdo, RemovePdo,
       Handled, RemovalStep, UnlinkPdo, DestroyPdo, SignalReady, Stopped, vars, mgrVars
  <2>2. mgr.at = "count" /\ ~ mgr.fdoData
    BY <1>2, <2>1 DEF CountPdos
  <2>3. bus.node = "surprise"
    BY <2>2 DEF MarkOK, OrphanOK
  <2>4. ~ FdoDone
    BY <2>2, <2>3 DEF FdoDone
  <2> QED
    BY <2>3, <2>4 DEF MarkOK, OrphanOK
<1> QED
  BY <1>1, <1>2

(* The driver deletes a disk only when the PnP manager has been told that  *)
(* it is missing, or with its bus, which no other order of EJECT,          *)
(* RemoveDisk, QUERY_RELATIONS and REMOVE_DEVICE can bring about; and      *)
(* REMOVE_DEVICE reads through an unset fdoData (buspdo.c:212) only after  *)
(* the bus was surprise removed.                                           *)
THEOREM DestroyedCorrect == Spec => DestroyedWhenMissing
<1>1. DataTypes /\ StructOK /\ MarkOK /\ [Next]_vars =>
        [/\ \A p \in Pdos :
              pdo[p].object = "live" /\ pdo'[p].object = "destroyed" =>
                dev[p].missing \/ bus.missing \/ fdo'.now = "Deleted"
         /\ stray' # stray => fdo.now = "SurpriseRemovePending"]_vars
  BY DestroyStep
<1> QED
  BY <1>1, MarkInvariant, PTL DEF Spec, DestroyedWhenMissing

-----------------------------------------------------------------------------
(* The states.  What a query has saved as the previous state is Started.   *)
Agree(d, node) ==
  /\ d.now = StateOf(node)
  /\ node \in {"stopPending", "removePending"} => d.prev = "Started"

Removing(p) == mgr.at \in {"unlink", "destroy"} /\ mgr.pdo = p

AgreeOK ==
  /\ ~ DeletingFdo => Agree(fdo, bus.node)
  /\ DeletingFdo => fdo.now = "Deleted"
  /\ \A p \in Pdos : Alive(p) /\ dev[p].node # "removed" /\ ~ Removing(p) =>
                       Agree(pdo[p], dev[p].node)

FdoTypes == [now : PnpStates, prev : PnpStates]

LEMMA StateMacros ==
  ASSUME NEW d \in PdoTypes \cup FdoTypes, NEW s \in PnpStates
  PROVE  /\ SetNew(d, s).now = s /\ SetNew(d, s).prev = d.now
         /\ d.now = s => Cancel(d, s).now = d.prev
         /\ d.now # s => Cancel(d, s) = d
<1>1. /\ SetNew(d, s).now = s /\ SetNew(d, s).prev = d.now /\ Restore(d).now = d.prev
  BY DEF SetNew, Restore, PdoTypes, FdoTypes
<1> QED
  BY <1>1 DEF Cancel

(* A query, its cancellation, and what follows, of the FDO or of a disk. *)
LEMMA Transitions ==
  ASSUME NEW d \in PdoTypes \cup FdoTypes
  PROVE  /\ Agree(SetNew(d, "Started"), "started")
         /\ Agree(d, "started") => Agree(SetNew(d, "StopPending"), "stopPending")
         /\ Agree(d, "started") => Agree(SetNew(d, "RemovePending"), "removePending")
         /\ Agree(SetNew(d, "Stopped"), "stopped")
         /\ Agree(SetNew(d, "SurpriseRemovePending"), "surprise")
         /\ Agree(d, "stopPending") \/ Agree(d, "started") =>
              Agree(Cancel(d, "StopPending"), "started")
         /\ Agree(d, "removePending") \/ Agree(d, "started") =>
              Agree(Cancel(d, "RemovePending"), "started")
<1>1. /\ "Started" \in PnpStates /\ "StopPending" \in PnpStates
      /\ "Stopped" \in PnpStates /\ "RemovePending" \in PnpStates
      /\ "SurpriseRemovePending" \in PnpStates
  BY DEF PnpStates
<1>2. /\ StateOf("started") = "Started" /\ StateOf("stopPending") = "StopPending"
      /\ StateOf("stopped") = "Stopped" /\ StateOf("removePending") = "RemovePending"
      /\ StateOf("surprise") = "SurpriseRemovePending"
  BY DEF StateOf
<1> QED
  BY <1>1, <1>2, StateMacros DEF Agree

(* A step that leaves the states alone: the disks are marked or freed. *)
LEMMA AgreeSame ==
  ASSUME DataTypes, StructOK, AgreeOK, mgr' = mgr, fdo' = fdo, bus'.node = bus.node,
         \A p \in Pdos : Alive(p)' =>
           /\ Alive(p)
           /\ pdo'[p].now = pdo[p].now /\ pdo'[p].prev = pdo[p].prev
           /\ \/ dev'[p].node = dev[p].node
              \/ dev[p].node = "unknown" /\ dev'[p].node = "reported"
  PROVE  AgreeOK'
<1>1. StateOf("unknown") = StateOf("reported")
  BY DEF StateOf
<1> QED
  BY <1>1 DEF AgreeOK, Agree, Removing, DeletingFdo

(* What QUERY_RELATIONS makes of the manager's view of a disk. *)
LEMMA RelationsDevices ==
  ASSUME DataTypes, QueryRelations, NEW p \in Pdos
  PROVE  /\ dev'[p].eject = dev[p].eject
         /\ \/ dev'[p].node = dev[p].node
            \/ dev[p].node = "unknown" /\ dev'[p].node = "reported"
<1> DEFINE reported == p \in {q \in Listed : pdo[q].present}
           node == IF dev[p].node = "unknown" /\ reported THEN "reported"
                                                         ELSE dev[p].node
           missing == \/ dev[p].missing
                      \/ dev[p].node \notin {"unknown", "gone"} /\ ~ reported
<1>1. dev[p] \in [node : Nodes, missing : BOOLEAN, eject : BOOLEAN]
  BY DEF DataTypes
<1>2. dev'[p] = [dev[p] EXCEPT !.node = node, !.missing = missing]
  <2>1. dev' = [q \in Pdos |->
                 [dev[q] EXCEPT
                    !.node = IF @ = "unknown" /\ q \in {r \in Listed : pdo[r].present}
                             THEN "reported" ELSE @,
                    !.missing = @ \/ /\ dev[q].node \notin {"unknown", "gone"}
                                     /\ q \notin {r \in Listed : pdo[r].present}]]
    BY DEF QueryRelations
  <2> QED
    BY ONLY <2>1, Zenon
<1>3. \/ node = dev[p].node
      \/ dev[p].node = "unknown" /\ node = "reported"
  OBVIOUS
<1> HIDE DEF node, missing
<1> QED
  BY <1>1, <1>2, <1>3

LEMMA FdoAgree ==
  ASSUME DataTypes, StructOK, AgreeOK, FdoPnp
  PROVE  AgreeOK'
<1>0. fdo \in FdoTypes
  BY DEF DataTypes, FdoTypes
<1>1. ASSUME NEW node \in BusNodes, FdoUnchanged, mgr.at = "idle", BusTo(node),
             Agree(fdo', node)
      PROVE  AgreeOK'
  <2>1. bus'.node = node /\ UNCHANGED <<pdo, dev, mgr>>
    BY <1>1 DEF BusTo, DataTypes, FdoUnchanged, pdoVars
  <2> QED
    BY <1>1, <2>1 DEF AgreeOK, Alive, Removing, DeletingFdo
<1>2. ASSUME mgr.at = "idle" PROVE Agree(fdo, bus.node)
  BY <1>2 DEF AgreeOK, DeletingFdo
<1>s. /\ "started" \in BusNodes /\ "stopPending" \in BusNodes /\ "stopped" \in BusNodes
      /\ "removePending" \in BusNodes /\ "surprise" \in BusNodes /\ "gone" \in BusNodes
  BY DEF BusNodes
<1>u. ASSUME UNCHANGED <<pdo, mgr, fdo, dev>>, bus'.node = bus.node PROVE AgreeOK'
  BY <1>u, AgreeSame DEF Alive
<1>3. CASE StartFdo
  <2>1. CASE fdo' = SetNew(fdo, "Started") /\ BusTo("started")
    BY <1>0, <1>s, <1>1, <1>3, <2>1, Transitions DEF StartFdo
  <2>2. CASE UNCHANGED fdo /\ bus' = [bus EXCEPT !.missing = TRUE]
    <3>1. bus'.node = bus.node
      BY <2>2 DEF DataTypes
    <3> QED
      BY <1>u, <1>3, <2>2, <3>1 DEF StartFdo, FdoUnchanged, pdoVars
  <2> QED
    BY <1>3, <2>1, <2>2 DEF StartFdo
<1>4. CASE QueryStopFdo
  BY <1>0, <1>s, <1>1, <1>2, <1>4, Transitions DEF QueryStopFdo
<1>5. CASE CancelStopFdo
  BY <1>0, <1>s, <1>1, <1>2, <1>5, Transitions DEF CancelStopFdo
<1>6. CASE StopFdo
  BY <1>0, <1>s, <1>1, <1>6, Transitions DEF StopFdo
<1>7. CASE QueryRemoveFdo
  BY <1>0, <1>s, <1>1, <1>2, <1>7, Transitions DEF QueryRemoveFdo
<1>8. CASE CancelRemoveFdo
  BY <1>0, <1>s, <1>1, <1>2, <1>8, Transitions DEF CancelRemoveFdo
<1>9. CASE BusVanishes \/ QueryRelationsFails
  <2>1. bus'.node = bus.node
    BY <1>9 DEF BusVanishes, QueryRelationsFails, DataTypes
  <2> QED
    BY <1>u, <1>9, <2>1 DEF BusVanishes, QueryRelationsFails, fdoVars, pdoVars
<1>14. CASE ReleaseFdo
  <2>1. /\ mgr.at = "fdoRelease" /\ mgr'.at = "fdoWait"
        /\ UNCHANGED <<pdo, dev, bus, fdo>>
    BY <1>14 DEF ReleaseFdo, fdoVars, pdoVars, DataTypes
  <2> QED
    BY <2>1 DEF AgreeOK, Alive, Removing, DeletingFdo
<1>10. CASE DeleteFdo
  <2>1. /\ mgr.at = "fdoWait" /\ mgr'.at = "idle" /\ bus'.node = "gone"
        /\ UNCHANGED <<fdo, pdo, dev>>
    BY <1>10 DEF DeleteFdo, BusTo, NoRemoval, DataTypes, pdoVars
  <2>2. StateOf("gone") = "Deleted"
    BY DEF StateOf
  <2> QED
    BY <2>1, <2>2 DEF AgreeOK, Agree, Alive, Removing, DeletingFdo
<1>11. CASE SurpriseRemovalFdo
  <2>1. /\ mgr.at = "idle" /\ mgr' = mgr /\ dev' = dev /\ bus'.node = "surprise"
        /\ fdo' = SetNew(fdo, "SurpriseRemovePending")
    BY <1>11 DEF SurpriseRemovalFdo, BusTo, DataTypes
  <2>2. \A p \in Pdos : pdo'[p] \in Marks(pdo[p])
    BY <1>11 DEF SurpriseRemovalFdo, Marks
  <2>3. \A p \in Pdos : /\ pdo'[p].object = pdo[p].object
                        /\ pdo'[p].now = pdo[p].now /\ pdo'[p].prev = pdo[p].prev
    BY <2>2, FlagsOfMarked DEF DataTypes
  <2> QED
    BY <1>0, <2>1, <2>3, Transitions DEF AgreeOK, Agree, Alive, Removing, DeletingFdo
<1>12. CASE RemoveFdo
  <2>1. mgr'.at = "fdoRelease" /\ mgr.at = "idle" /\ dev' = dev /\ fdo'.now = "Deleted"
    BY <1>12 DEF RemoveFdo, NoRemoval, SetNew, DataTypes
  <2>2. \A p \in Pdos : pdo'[p] \in Marks(pdo[p]) \/ pdo'[p] = Freed(pdo[p])
    BY <1>12 DEF RemoveFdo, Marks
  <2>3. ASSUME NEW p \in Pdos, Alive(p)'
        PROVE  Alive(p) /\ pdo'[p].now = pdo[p].now /\ pdo'[p].prev = pdo[p].prev
    BY <2>2, <2>3, FlagsOfMarked, FreedPdo DEF DataTypes, Alive
  <2> QED
    BY <2>1, <2>3 DEF AgreeOK, Agree, Removing, DeletingFdo
<1>13. CASE QueryRelations
  <2>1. UNCHANGED <<mgr, fdo>> /\ bus'.node = bus.node
    BY <1>13 DEF QueryRelations, fdoVars, DataTypes
  <2>2. \A p \in Pdos : pdo'[p] \in Marks(pdo[p])
    BY <1>13 DEF QueryRelations, Marks
  <2>3. \A p \in Pdos : /\ pdo'[p].object = pdo[p].object
                        /\ pdo'[p].now = pdo[p].now /\ pdo'[p].prev = pdo[p].prev
    BY <2>2, FlagsOfMarked DEF DataTypes
  <2>4. \A p \in Pdos : \/ dev'[p].node = dev[p].node
                        \/ dev[p].node = "unknown" /\ dev'[p].node = "reported"
    BY <1>13, RelationsDevices
  <2> QED
    BY <2>1, <2>3, <2>4, AgreeSame DEF Alive
<1> QED
  BY <1>3, <1>4, <1>5, <1>6, <1>7, <1>8, <1>9, <1>10, <1>11, <1>12, <1>13, <1>14
     DEF FdoPnp

LEMMA PdoAgree ==
  ASSUME DataTypes, StructOK, AgreeOK, NEW p \in Pdos, PdoPnp(p)
  PROVE  AgreeOK'
<1>0. pdo[p] \in PdoTypes
  BY DEF DataTypes
<1>1. ASSUME NEW d, d.object = pdo[p].object, NEW node,
             mgr.at = "idle", UNCHANGED <<mgr, fdo>>, bus'.node = bus.node,
             pdo' = [pdo EXCEPT ![p] = d],
             dev'[p].node = node, \A q \in Pdos \ {p} : dev'[q] = dev[q],
             node # "removed" => Agree(d, node)
      PROVE  AgreeOK'
  <2>1. /\ pdo'[p] = d /\ \A q \in Pdos \ {p} : pdo'[q] = pdo[q]
    BY <1>1 DEF DataTypes
  <2> QED
    BY <1>1, <2>1 DEF AgreeOK, Alive, Removing, DeletingFdo
<1>2. ASSUME NEW d, NEW node, Handled(p, d, node), mgr.at = "idle",
             d.object = pdo[p].object, Agree(d, node)
      PROVE  AgreeOK'
  <2>1. dev'[p].node = node /\ \A q \in Pdos \ {p} : dev'[q] = dev[q]
    BY <1>2 DEF Handled, DataTypes
  <2> QED
    BY <1>1, <1>2, <2>1 DEF Handled, fdoVars
<1>3. ASSUME mgr.at = "idle", dev[p].node \notin {"unknown", "removed", "gone"},
             ~ FdoDone
      PROVE  Agree(pdo[p], dev[p].node)
  BY <1>3 DEF AgreeOK, StructOK, KnownOK, Removing, DeletingFdo
<1>4. ASSUME mgr.at = "idle", dev[p].node \notin {"unknown", "removed", "gone"}
      PROVE  Agree(pdo[p], dev[p].node)
  BY <1>3, <1>4, ServedDiskLives DEF Settled
<1>s. /\ "Started" \in PnpStates /\ "StopPending" \in PnpStates
      /\ "Stopped" \in PnpStates /\ "RemovePending" \in PnpStates
      /\ "NotStarted" \in PnpStates /\ "Deleted" \in PnpStates
      /\ "SurpriseRemovePending" \in PnpStates
  BY DEF PnpStates
<1>5. CASE StartPdo(p)
  BY <1>0, <1>s, <1>2, <1>5, Transitions, PdoStates DEF StartPdo, Serving
<1>6. CASE QueryStopPdo(p)
  BY <1>0, <1>s, <1>2, <1>4, <1>6, Transitions, PdoStates DEF QueryStopPdo, Serving
<1>7. CASE CancelStopPdo(p)
  BY <1>0, <1>s, <1>2, <1>4, <1>7, Transitions, PdoStates DEF CancelStopPdo, Serving
<1>8. CASE StopPdo(p)
  BY <1>0, <1>s, <1>2, <1>8, Transitions, PdoStates DEF StopPdo, Serving
<1>9. CASE QueryRemovePdo(p)
  BY <1>0, <1>s, <1>2, <1>4, <1>9, Transitions, PdoStates DEF QueryRemovePdo, Serving
<1>10. CASE CancelRemovePdo(p)
  <2>1. dev'[p].node = "started" /\ \A q \in Pdos \ {p} : dev'[q] = dev[q]
    BY <1>10 DEF CancelRemovePdo, DataTypes
  <2>2. Agree(Cancel(pdo[p], "RemovePending"), "started")
    BY <1>0, <1>4, <1>10, Transitions DEF CancelRemovePdo, Serving
  <2>3. Cancel(pdo[p], "RemovePending").object = pdo[p].object
    BY <1>0, <1>s, PdoStates
  <2> QED
    BY <1>1, <1>10, <2>1, <2>2, <2>3 DEF CancelRemovePdo, Serving, fdoVars
<1>11. CASE SurpriseRemovalPdo(p)
  <2> DEFINE e == SetNew(pdo[p], "SurpriseRemovePending")
             d == [e EXCEPT !.surprised = TRUE]
  <2>1. e \in PdoTypes /\ e.object = pdo[p].object /\ Agree(e, "surprise")
    BY <1>0, <1>s, PdoStates, Transitions
  <2>2. Handled(p, d, "surprise") /\ mgr.at = "idle"
    BY <1>11 DEF SurpriseRemovalPdo
  <2> HIDE DEF e
  <2>3. d.object = pdo[p].object /\ d.now = e.now /\ d.prev = e.prev
    BY <2>1 DEF PdoTypes
  <2>4. Agree(d, "surprise")
    BY <2>1, <2>3 DEF Agree
  <2> HIDE DEF d
  <2> QED
    BY <1>2, <2>2, <2>3, <2>4
<1>12. CASE EjectPdo(p)
  <2>1. dev'[p].node = "removed" /\ \A q \in Pdos \ {p} : dev'[q] = dev[q]
    BY <1>12 DEF EjectPdo, DataTypes
  <2>2. [pdo[p] EXCEPT !.present = FALSE].object = pdo[p].object
    BY <1>0 DEF PdoTypes
  <2>3. bus'.node = bus.node
    BY <1>12 DEF EjectPdo, DataTypes
  <2> QED
    BY <1>1, <1>12, <2>1, <2>2, <2>3 DEF EjectPdo, fdoVars
<1>13. CASE RemovePdo(p) /\ ~ pdo[p].reportedMissing
  <2>1. dev'[p].node = "removed" /\ \A q \in Pdos \ {p} : dev'[q] = dev[q]
    BY <1>13 DEF RemovePdo, DataTypes
  <2>2. PICK d \in {pdo[p], SetNew(pdo[p], "NotStarted")} : pdo' = [pdo EXCEPT ![p] = d]
    BY <1>13 DEF RemovePdo
  <2>3. d.object = pdo[p].object
    <3>1. CASE d = pdo[p]
      BY <3>1
    <3>2. CASE d = SetNew(pdo[p], "NotStarted")
      BY <1>0, <1>s, <3>2, PdoStates
    <3> QED
      BY <2>2, <3>1, <3>2
  <2> QED
    BY <1>1, <1>13, <2>1, <2>2, <2>3 DEF RemovePdo, MayRemovePdo, fdoVars
<1>14. CASE RemovePdo(p) /\ pdo[p].reportedMissing
  <2>1. /\ mgr.at = "idle" /\ mgr'.at \in {"unlink", "destroy"} /\ mgr'.pdo = p
        /\ UNCHANGED <<dev, bus, fdo>>
        /\ pdo' = [pdo EXCEPT ![p] = SetNew(pdo[p], "Deleted")]
    BY <1>14 DEF RemovePdo, MayRemovePdo, fdoVars
  <2>2. \A q \in Pdos \ {p} : pdo'[q] = pdo[q]
    BY <2>1 DEF DataTypes
  <2> QED
    BY <2>1, <2>2 DEF AgreeOK, Alive, Removing, DeletingFdo
<1> QED
  BY <1>5, <1>6, <1>7, <1>8, <1>9, <1>10, <1>11, <1>12, <1>13, <1>14 DEF PdoPnp

LEMMA ServiceAgree ==
  ASSUME DataTypes, StructOK, MarkOK, AgreeOK, NEW c \in Callers, Ioctl(c) \/ InIoctl(c)
  PROVE  AgreeOK'
<1>1. CASE Ioctl(c)
  BY <1>1, AgreeSame
     DEF Ioctl, AddDisk, RemoveDisk, GetRequest, Enter, pdoVars, mgrVars, Alive
<1>2. CASE CheckUnique(c) \/ AddFails(c) \/ WalkDone(c)
  BY <1>2, AgreeSame DEF CheckUnique, AddFails, WalkDone, pdoVars, mgrVars, Alive
<1>3. ASSUME NEW q \in Pdos, WalkTo(c, q) PROVE AgreeOK'
  BY <1>3, AgreeSame DEF WalkTo, fdoVars, pdoVars, mgrVars, Alive
<1>4. CASE Invalidate(c)
  <2>1. bus'.node = bus.node
    BY <1>4 DEF Invalidate, DataTypes
  <2> QED
    BY <1>4, <2>1, AgreeSame DEF Invalidate, pdoVars, Alive
<1>5. CASE FindDisk(c)
  <2>1. \A p \in Pdos : dev'[p].node = dev[p].node
    BY <1>5 DEF FindDisk, DataTypes
  <2> QED
    BY <1>5, <2>1, AgreeSame DEF FindDisk, Alive
<1>6. ASSUME NEW q \in Pdos, InsertPdo(c, q) PROVE AgreeOK'
  <2>1. /\ pdo[q].object = "none" /\ call[c].at = "insert"
        /\ pdo' = [pdo EXCEPT ![q] = NewPdo(call[c].serial)]
        /\ UNCHANGED <<mgr, dev, bus, fdo>>
    BY <1>6 DEF InsertPdo, mgrVars
  <2>2. /\ pdo'[q] = NewPdo(call[c].serial)
        /\ \A p \in Pdos \ {q} : pdo'[p] = pdo[p]
    BY <2>1 DEF DataTypes
  <2>3. ~ FdoDone
    BY <2>1 DEF StructOK, FdoOK, HandleOK, User
  <2>4. dev[q].node = "unknown"
    BY <2>1, <2>3 DEF StructOK, KnownOK, MarkOK, GoingOK, Alive
  <2>5. Agree(pdo'[q], "unknown")
    BY <2>2 DEF Agree, StateOf, NewPdo, NoPdo
  <2> QED
    BY <2>1, <2>2, <2>4, <2>5 DEF AgreeOK, Alive, Removing, DeletingFdo
<1> QED
  BY <1>1, <1>2, <1>3, <1>4, <1>5, <1>6 DEF InIoctl

LEMMA HandleAgree ==
  ASSUME DataTypes, StructOK, AgreeOK, OpenHandle \/ CloseHandle \/ Cleanup \/ Close
  PROVE  AgreeOK'
<1>1. CASE OpenHandle \/ CloseHandle \/ Close
  BY <1>1, AgreeSame
     DEF OpenHandle, CloseHandle, Close, Bus_CreateClose, fdoVars, pdoVars, mgrVars, Alive
<1>2. CASE CleanupCheck \/ CleanupReset \/ CleanupWait
  BY <1>2, AgreeSame
     DEF CleanupCheck, CleanupReset, CleanupWait, fdoVars, pdoVars, mgrVars, Alive
<1>3. CASE Bus_RemoveAllDisks
  <2>1. UNCHANGED <<mgr, dev, fdo>>
    BY <1>3 DEF Bus_RemoveAllDisks, fdoVars
  <2>2. bus'.node = bus.node
    BY <1>3 DEF Bus_RemoveAllDisks, DataTypes
  <2>3. \A p \in Pdos : pdo'[p] \in Marks(pdo[p])
    BY <1>3 DEF Bus_RemoveAllDisks, Marks
  <2>4. \A p \in Pdos : /\ pdo'[p].object = pdo[p].object
                        /\ pdo'[p].now = pdo[p].now /\ pdo'[p].prev = pdo[p].prev
    BY <2>3, FlagsOfMarked DEF DataTypes
  <2> QED
    BY <2>1, <2>2, <2>4, AgreeSame DEF Alive
<1> QED
  BY <1>1, <1>2, <1>3 DEF Cleanup

LEMMA RemovalAgree ==
  ASSUME DataTypes, StructOK, MarkOK, AgreeOK, RemovalStep
  PROVE  AgreeOK'
<1>1. CASE UnlinkPdo
  <2>1. /\ mgr.at = "unlink" /\ mgr'.at = "destroy" /\ mgr'.pdo = mgr.pdo
        /\ UNCHANGED <<pdo, dev, bus, fdo>>
    BY <1>1 DEF UnlinkPdo, DataTypes, pdoVars
  <2> QED
    BY <2>1 DEF AgreeOK, Alive, Removing, DeletingFdo
<1>2. CASE DestroyPdo
  <2>1. /\ mgr.at = "destroy" /\ mgr'.at = "count" /\ mgr.pdo \in Pdos
        /\ pdo' = [pdo EXCEPT ![mgr.pdo] = Freed(pdo[mgr.pdo])]
        /\ UNCHANGED <<dev, bus, fdo>>
    BY <1>2 DEF DestroyPdo, DataTypes, StructOK, RemovalOK, fdoVars
  <2>2. /\ pdo'[mgr.pdo].object = "destroyed"
        /\ \A p \in Pdos \ {mgr.pdo} : pdo'[p] = pdo[p]
    BY <2>1, FreedPdo DEF DataTypes
  <2> QED
    BY <2>1, <2>2 DEF AgreeOK, Alive, Removing, DeletingFdo
<1>3. CASE CountPdos
  <2>1. /\ mgr.at = "count" /\ mgr'.at \in {"idle", "signal"} /\ mgr.pdo \in Pdos
        /\ dev' = [dev EXCEPT ![mgr.pdo] = Gone]
        /\ UNCHANGED <<pdo, bus, fdo>>
    BY <1>3 DEF CountPdos, RemoveDone, NoRemoval, DataTypes, StructOK, RemovalOK, fdoVars,
       pdoVars
  <2>2. /\ pdo[mgr.pdo].object = "destroyed"
        /\ \A p \in Pdos \ {mgr.pdo} : dev'[p] = dev[p]
    BY <2>1 DEF MarkOK, GoingOK, DataTypes
  <2> QED
    BY <2>1, <2>2 DEF AgreeOK, Alive, Removing, DeletingFdo
<1>4. CASE SignalReady
  <2>1. /\ mgr.at = "signal" /\ mgr'.at = "idle"
        /\ UNCHANGED <<pdo, dev, bus, fdo>>
    BY <1>4 DEF SignalReady, RemoveDone, NoRemoval, pdoVars
  <2> QED
    BY <2>1 DEF AgreeOK, Alive, Removing, DeletingFdo
<1> QED
  BY <1>1, <1>2, <1>3, <1>4 DEF RemovalStep

LEMMA AgreeInvariant == Spec => [](DataTypes /\ StructOK /\ MarkOK /\ AgreeOK)
<1>1. Init => AgreeOK
  BY DEF Init, AgreeOK, Agree, StateOf, NotStarted, NoRemoval, NoPdo, Alive, DeletingFdo
<1>2. DataTypes /\ StructOK /\ MarkOK /\ AgreeOK /\ [Next]_vars => AgreeOK'
  <2> SUFFICES ASSUME DataTypes, StructOK, MarkOK, AgreeOK, [Next]_vars PROVE AgreeOK'
    OBVIOUS
  <2>1. CASE UNCHANGED vars
    BY <2>1, AgreeSame DEF vars, fdoVars, pdoVars, mgrVars, Alive
  <2> QED
    BY <2>1, ServiceAgree, HandleAgree, FdoAgree, PdoAgree, RemovalAgree DEF Next, Stopped
<1> QED
  BY <1>1, <1>2, MarkInvariant, PTL DEF Spec

(* The driver and the PnP manager agree on the states, whatever queries    *)
(* are cancelled and whatever the driver does in between.                  *)
THEOREM StatesCorrect == Spec => []StatesAgree
<1>1. AgreeOK => StatesAgree
  BY DEF AgreeOK, Agree, StatesAgree, Alive, Removing, DeletingFdo
<1> QED
  BY <1>1, AgreeInvariant, PTL

-----------------------------------------------------------------------------
(* What the IRPs of a disk do to the fields that the rest looks at: only   *)
(* EJECT clears present, only REMOVE_DEVICE begins a removal.              *)
LEMMA StatesKeepPresent ==
  ASSUME NEW d \in PdoTypes, NEW s \in PnpStates
  PROVE  SetNew(d, s).present = d.present /\ Cancel(d, s).present = d.present
<1>1. SetNew(d, s).present = d.present /\ Restore(d).present = d.present
  BY DEF SetNew, Restore, PdoTypes
<1> QED
  BY <1>1 DEF Cancel

PresentKept ==
  \A q \in Pdos :
    /\ pdo'[q].present = pdo[q].present
    /\ dev'[q].eject => dev[q].eject
    /\ dev'[q].node = "unknown" => dev[q].node = "unknown"

LEMMA PdoPresent ==
  ASSUME DataTypes, NEW p \in Pdos, PdoPnp(p), ~ EjectPdo(p)
  PROVE  PresentKept /\ bus' = bus
<1>s. /\ "Started" \in PnpStates /\ "StopPending" \in PnpStates
      /\ "Stopped" \in PnpStates /\ "RemovePending" \in PnpStates
      /\ "NotStarted" \in PnpStates
      /\ "SurpriseRemovePending" \in PnpStates /\ "Deleted" \in PnpStates
  BY DEF PnpStates
<1>0. pdo[p] \in PdoTypes
  BY DEF DataTypes
<1>n. \A node : node \in {"started", "stopPending", "stopped", "removePending",
                         "removed", "surprise"} => node # "unknown"
  OBVIOUS
<1>d. ASSUME NEW d, d.present = pdo[p].present, pdo' = [pdo EXCEPT ![p] = d],
             NEW node, node # "unknown", NEW e \in {FALSE, dev[p].eject},
             dev' = [dev EXCEPT ![p].node = node, ![p].eject = e]
      PROVE  PresentKept
  BY <1>d DEF PresentKept, DataTypes
<1>h. ASSUME NEW d, NEW node, Handled(p, d, node), node # "unknown",
             d.present = pdo[p].present
      PROVE  PresentKept /\ bus' = bus
  BY <1>h DEF Handled, PresentKept, DataTypes
<1>1. CASE StartPdo(p)
  BY <1>s, <1>0, <1>h, <1>1, StatesKeepPresent DEF StartPdo
<1>2. CASE QueryStopPdo(p)
  BY <1>s, <1>0, <1>h, <1>2, StatesKeepPresent DEF QueryStopPdo
<1>3. CASE CancelStopPdo(p)
  BY <1>s, <1>0, <1>h, <1>3, StatesKeepPresent DEF CancelStopPdo
<1>4. CASE StopPdo(p)
  BY <1>s, <1>0, <1>h, <1>4, StatesKeepPresent DEF StopPdo
<1>5. CASE QueryRemovePdo(p)
  BY <1>s, <1>0, <1>h, <1>5, StatesKeepPresent DEF QueryRemovePdo
<1>6. CASE CancelRemovePdo(p)
  <2>1. Cancel(pdo[p], "RemovePending").present = pdo[p].present
    BY <1>s, <1>0, StatesKeepPresent
  <2> QED
    BY <1>d, <1>6, <2>1 DEF CancelRemovePdo
<1>7. CASE SurpriseRemovalPdo(p)
  <2> DEFINE e == SetNew(pdo[p], "SurpriseRemovePending")
             d == [e EXCEPT !.surprised = TRUE]
  <2>1. e \in PdoTypes /\ e.present = pdo[p].present
    BY <1>s, <1>0, PdoStates, StatesKeepPresent
  <2>2. Handled(p, d, "surprise")
    BY <1>7 DEF SurpriseRemovalPdo
  <2> HIDE DEF e
  <2>3. d.present = pdo[p].present
    BY <2>1 DEF PdoTypes
  <2> HIDE DEF d
  <2> QED
    BY <1>h, <2>2, <2>3
<1>8. CASE RemovePdo(p)
  <2>1. PICK d \in {pdo[p], SetNew(pdo[p], "Deleted"), SetNew(pdo[p], "NotStarted")} :
          pdo' = [pdo EXCEPT ![p] = d]
    BY <1>8 DEF RemovePdo
  <2>2. d.present = pdo[p].present
    BY <1>s, <1>0, <2>1, StatesKeepPresent
  <2>3. dev' \in {dev, [dev EXCEPT ![p].node = "removed"]}
    BY <1>8 DEF RemovePdo
  <2>4. \A q \in Pdos : pdo'[q].present = pdo[q].present
    BY <2>1, <2>2 DEF DataTypes
  <2>5. \A q \in Pdos : /\ dev'[q].eject => dev[q].eject
                        /\ dev'[q].node = "unknown" => dev[q].node = "unknown"
    BY <2>3 DEF DataTypes
  <2> QED
    BY <1>8, <2>4, <2>5 DEF PresentKept, RemovePdo
<1> QED
  BY <1>1, <1>2, <1>3, <1>4, <1>5, <1>6, <1>7, <1>8 DEF PdoPnp

-----------------------------------------------------------------------------
(* The cleanup.  What it is told of is a removal that began with a disk on *)
(* the list: fdoData says so.                                              *)
DataOK ==
  /\ mgr.at = "idle" => ~ mgr.fdoData
  /\ mgr.at = "signal" => mgr.fdoData
  /\ mgr.at \in {"unlink", "destroy"} => mgr.fdoData = pdo[mgr.pdo].parent

NoCalls == \A c \in Callers : call[c] = User
NoLive == \A p \in Pdos : ~ Alive(p)
Undisturbed ==
  /\ ~ mgr.fdoData
  /\ \A p \in Listed : pdo[p].present /\ ~ dev[p].eject

(* Until Bus_RemoveAllDisks no disk is removed, so that the event is reset *)
(* before anything sets it; then it is set only when the last one is gone. *)
CleanOK ==
  /\ handle # "open" => NoCalls
  /\ handle \in {"check", "reset", "removeAll"} => Undisturbed
  /\ handle \in {"reset", "removeAll"} => numPdos > 0
  /\ handle = "removeAll" => ~ ready
  /\ handle = "wait" /\ ~ ready => numPdos > 0 \/ mgr.fdoData
  /\ handle = "wait" /\ (ready \/ mgr.at = "signal") => NoLive
  /\ handle \in {"close", "closed"} => NoLive

(* When NumPDOs is zero, no disk lives but one that leaves. *)
LEMMA NoneLeft ==
  ASSUME DataTypes, StructOK, CountOK, numPdos = 0
  PROVE  /\ Listed = {}
         /\ \A p \in Pdos : Alive(p) => pdo[p].parent /\ Leaving(p)
<1>1. /\ Len(list) \in Nat /\ Cardinality(Orphans) \in Nat
      /\ IsFiniteSet(Listed) /\ Cardinality(Listed) = Len(list)
  BY ListedHaveParents, FS_CardinalityType DEF CountOK
<1>2. Len(list) = 0 /\ Cardinality(Orphans) = 0
  BY <1>1 DEF CountOK, CountIsList
<1>3. Listed = {} /\ Orphans = {}
  BY <1>1, <1>2, FS_EmptySet DEF CountOK
<1> QED
  BY <1>3 DEF Orphans, Alive, StructOK, ListOK

LEMMA CountedIsNat ==
  ASSUME DataTypes, StructOK, CountOK
  PROVE  numPdos \in Nat /\ (Listed # {} => numPdos > 0)
<1>1. /\ Len(list) \in Nat /\ Cardinality(Orphans) \in Nat
      /\ IsFiniteSet(Listed) /\ Cardinality(Listed) = Len(list)
  BY ListedHaveParents, FS_CardinalityType DEF CountOK
<1>2. Listed # {} => Cardinality(Listed) # 0
  BY <1>1, FS_EmptySet
<1> QED
  BY <1>1, <1>2 DEF CountOK, CountIsList

(* A step that begins no removal, adds no disk and leaves the handle. *)
LEMMA CleanSame ==
  ASSUME DataTypes, StructOK, DataOK, CleanOK,
         UNCHANGED <<handle, call, numPdos, ready, mgr>>, Listed' \subseteq Listed,
         \A p \in Pdos : Alive(p)' => Alive(p),
         mgr.at # "idle" => \A p \in Pdos : pdo'[p].parent = pdo[p].parent,
         handle \in {"check", "reset", "removeAll"} =>
           \A p \in Listed' : /\ pdo[p].present => pdo'[p].present
                              /\ dev'[p].eject => dev[p].eject
  PROVE  DataOK' /\ CleanOK'
<1>1. DataOK'
  BY DEF DataOK, StructOK, RemovalOK
<1>2. CleanOK'
  BY DEF CleanOK, NoCalls, NoLive, Undisturbed
<1> QED
  BY <1>1, <1>2

(* The service. *)
LEMMA ServiceClean ==
  ASSUME DataTypes, StructOK, DataOK, CleanOK, NEW c \in Callers, Ioctl(c) \/ InIoctl(c)
  PROVE  DataOK' /\ CleanOK'
<1>1. handle = "open" /\ handle' = "open"
  <2>1. CASE Ioctl(c)
    BY <2>1 DEF Ioctl, AddDisk, RemoveDisk, GetRequest, Enter
  <2>2. CASE InIoctl(c)
    <3>1. call[c].at # "user" /\ handle' = handle
      BY <2>2 DEF InIoctl, CheckUnique, AddFails, Invalidate, FindDisk, WalkDone,
         InsertPdo, WalkTo
    <3> QED
      BY <3>1 DEF CleanOK, NoCalls, User
  <2> QED
    BY <2>1, <2>2
<1>2. mgr' = mgr
  BY DEF Ioctl, AddDisk, RemoveDisk, GetRequest, Enter, InIoctl, CheckUnique, AddFails,
     Invalidate, FindDisk, WalkDone, InsertPdo, WalkTo, mgrVars
<1>3. mgr.at \in {"unlink", "destroy"} => pdo'[mgr.pdo].parent = pdo[mgr.pdo].parent
  <2>1. ASSUME NEW q \in Pdos, InsertPdo(c, q) 
        PROVE  \A p \in Pdos : Alive(p) => pdo'[p] = pdo[p]
    BY <2>1 DEF InsertPdo, DataTypes, Alive
  <2>2. mgr.at \in {"unlink", "destroy"} => mgr.pdo \in Pdos /\ Alive(mgr.pdo)
    BY ListedTypes DEF StructOK, RemovalOK, ListOK
  <2>3. pdo' = pdo \/ \E q \in Pdos : InsertPdo(c, q)
    BY DEF Ioctl, AddDisk, RemoveDisk, GetRequest, Enter, InIoctl, CheckUnique, AddFails,
       Invalidate, FindDisk, WalkDone, WalkTo, pdoVars
  <2> QED
    BY <2>1, <2>2, <2>3
<1>4. DataOK'
  BY <1>2, <1>3 DEF DataOK
<1>5. CleanOK'
  BY <1>1 DEF CleanOK
<1> QED
  BY <1>4, <1>5

(* The handle.  When it is closed nothing is under way. *)
LEMMA HandleClean ==
  ASSUME MayCloseWhile \subseteq {"unenumerated"},
         DataTypes, StructOK, CountOK, AgreeOK, DataOK, CleanOK,
         OpenHandle \/ CloseHandle \/ Cleanup \/ Close
  PROVE  DataOK' /\ CleanOK'
<1>n. numPdos \in Nat
  BY CountedIsNat
<1>1. mgr' = mgr /\ call' = call /\ list' = list /\ dev' = dev
  BY DEF OpenHandle, CloseHandle, Cleanup, CleanupCheck, CleanupReset, CleanupWait,
     Bus_RemoveAllDisks, Close, Bus_CreateClose, mgrVars, fdoVars
<1>2. CASE Bus_RemoveAllDisks
  <2>1. /\ handle = "removeAll" /\ handle' = "wait"
        /\ UNCHANGED <<numPdos, ready>>
    BY <1>2 DEF Bus_RemoveAllDisks, fdoVars
  <2>2. \A p \in Pdos : pdo'[p].parent = pdo[p].parent
    <3>1. \A p \in Pdos : pdo'[p] \in {pdo[p], [pdo[p] EXCEPT !.present = FALSE]}
      BY <1>2 DEF Bus_RemoveAllDisks
    <3> QED
      BY <3>1, FlagsOfOneMark DEF DataTypes
  <2>3. DataOK'
    BY <1>1, <2>2 DEF DataOK, StructOK, RemovalOK, DataTypes
  <2>4. ~ ready /\ mgr.at # "signal" /\ numPdos > 0
    BY <2>1 DEF CleanOK, Undisturbed, DataOK
  <2> QED
    BY <1>1, <2>1, <2>3, <2>4 DEF CleanOK, NoCalls
<1>3. CASE ~ Bus_RemoveAllDisks
  <2>1. UNCHANGED <<pdo, numPdos>>
    BY <1>3 DEF OpenHandle, CloseHandle, Cleanup, CleanupCheck, CleanupReset, CleanupWait,
       Close, Bus_CreateClose, pdoVars, fdoVars
  <2>2. DataOK'
    BY <1>1, <2>1 DEF DataOK
  <2>3. (Undisturbed' <=> Undisturbed) /\ (NoLive' <=> NoLive) /\ (NoCalls' <=> NoCalls)
    BY <1>1, <2>1 DEF Undisturbed, NoLive, NoCalls, Alive, Listed
  <2>4. CASE OpenHandle
    <3>1. handle = "closed" /\ handle' \in {"closed", "open"}
      BY <2>4 DEF OpenHandle
    <3> QED
      BY <2>2, <2>3, <3>1 DEF CleanOK
  <2>5. CASE CloseHandle
    <3>1. fdo.now # "Deleted"
      <4>1. handle = "open" /\ ~ FdoDone
        BY <2>5 DEF CloseHandle, StructOK, FdoOK
      <4>2. fdo.now = StateOf(bus.node) /\ bus.node \in BusNodes \ {"gone"}
        BY <4>1 DEF FdoDone, DeletingFdo, AgreeOK, Agree, DataTypes
      <4> QED
        BY <4>2 DEF StateOf, BusNodes
    <3>2. handle' = "check"
      BY <2>5, <3>1 DEF CloseHandle
    <3>3. Quiet("adding") /\ Quiet("removing")
      BY <2>5 DEF CloseHandle, Circumstances
    <3>4. NoCalls /\ Undisturbed
      BY <3>3 DEF Quiet, NoCalls, Undisturbed, DataOK
    <3> QED
      BY <2>2, <2>3, <3>2, <3>4 DEF CleanOK
  <2>6. CASE CleanupCheck
    <3>1. /\ handle = "check" /\ handle' = IF numPdos > 0 THEN "reset" ELSE "close"
          /\ ready' = ready /\ NoCalls /\ Undisturbed
      BY <2>6 DEF CleanupCheck, fdoVars, CleanOK
    <3>2. CASE numPdos > 0
      BY <2>1, <2>2, <2>3, <3>1, <3>2 DEF CleanOK
    <3>3. CASE ~ numPdos > 0
      <4>1. NoLive
        <5>1. numPdos = 0
          BY <1>n, <3>3
        <5>2. \A p \in Pdos : Alive(p) => pdo[p].parent /\ Leaving(p)
          BY <5>1, NoneLeft
        <5> QED
          BY <3>1, <5>2 DEF NoLive, Leaving, Undisturbed, DataOK
      <4> QED
        BY <2>2, <2>3, <3>1, <3>3, <4>1 DEF CleanOK
    <3> QED
      BY <3>2, <3>3
  <2>7. CASE CleanupReset
    <3>1. /\ handle = "reset" /\ handle' = "removeAll" /\ ready' = FALSE
          /\ NoCalls /\ Undisturbed /\ numPdos > 0
      BY <2>7 DEF CleanupReset, CleanOK
    <3> QED
      BY <2>1, <2>2, <2>3, <3>1 DEF CleanOK
  <2>8. CASE CleanupWait
    <3>1. handle' = "close" /\ NoCalls /\ NoLive
      BY <2>8 DEF CleanupWait, CleanOK
    <3> QED
      BY <2>2, <2>3, <3>1 DEF CleanOK
  <2>9. CASE Close
    <3>1. handle' = "closed" /\ NoCalls /\ NoLive
      BY <2>9 DEF Close, CleanOK
    <3> QED
      BY <2>2, <2>3, <3>1 DEF CleanOK
  <2> QED
    BY <1>3, <2>4, <2>5, <2>6, <2>7, <2>8, <2>9 DEF Cleanup
<1> QED
  BY <1>2, <1>3

(* The manager and the FDO. *)
LEMMA FdoClean ==
  ASSUME DataTypes, StructOK, CountOK, DataOK, CleanOK, FdoPnp
  PROVE  DataOK' /\ CleanOK'
<1>1. ASSUME UNCHANGED <<pdo, list, handle, call, numPdos, ready, mgr, dev>>
      PROVE  DataOK' /\ CleanOK'
  BY <1>1, CleanSame DEF Listed, Alive
<1>2. CASE StartFdo \/ QueryStopFdo \/ CancelStopFdo \/ StopFdo \/ QueryRemoveFdo
           \/ CancelRemoveFdo
  BY <1>1, <1>2 DEF StartFdo, QueryStopFdo, CancelStopFdo, StopFdo, QueryRemoveFdo,
     CancelRemoveFdo, FdoUnchanged, pdoVars, serviceVars
<1>3. CASE BusVanishes \/ QueryRelationsFails
  BY <1>1, <1>3 DEF BusVanishes, QueryRelationsFails, fdoVars, pdoVars, serviceVars
<1>4. CASE QueryRelations
  <2>1. /\ UNCHANGED <<handle, call, numPdos, ready, mgr, list>> /\ Listed' = Listed
        /\ mgr.at = "idle"
    BY <1>4 DEF QueryRelations, fdoVars, serviceVars, Listed
  <2>2. \A p \in Pdos : /\ pdo'[p].present = pdo[p].present
                        /\ pdo'[p].object = pdo[p].object
    <3>1. \A p \in Pdos : pdo'[p] \in {pdo[p], [pdo[p] EXCEPT !.reportedMissing = TRUE]}
      BY <1>4 DEF QueryRelations
    <3> QED
      BY <3>1, FlagsOfOneMark DEF DataTypes
  <2>3. \A p \in Pdos : dev'[p].eject = dev[p].eject
    BY <1>4, RelationsDevices
  <2> QED
    BY <2>1, <2>2, <2>3, CleanSame, ListedTypes DEF Alive
<1>5. CASE SurpriseRemovalFdo
  <2>1. /\ UNCHANGED <<handle, call, numPdos, ready, mgr>> /\ list' = <<>>
        /\ mgr.at = "idle"
    BY <1>5 DEF SurpriseRemovalFdo, serviceVars
  <2>2. Listed' = {}
    BY <2>1 DEF Listed, ToSet
  <2>3. \A p \in Pdos : pdo'[p].object = pdo[p].object
    <3>1. \A p \in Pdos : pdo'[p] \in Marks(pdo[p])
      BY <1>5 DEF SurpriseRemovalFdo, Marks
    <3> QED
      BY <3>1, FlagsOfMarked DEF DataTypes
  <2> QED
    BY <2>1, <2>2, <2>3, CleanSame DEF Alive
<1>6. CASE RemoveFdo
  <2>1. /\ handle = "closed" /\ UNCHANGED <<handle, call>>
        /\ mgr'.at = "fdoRelease" /\ ~ mgr'.fdoData
    BY <1>6 DEF RemoveFdo, serviceVars, NoRemoval
  <2>2. \A p \in Pdos : Alive(p)' => Alive(p)
    <3>1. \A p \in Pdos :
            pdo'[p] \in {Freed(pdo[p]), pdo[p],
                         [pdo[p] EXCEPT !.parent = FALSE, !.reportedMissing = TRUE]}
      BY <1>6 DEF RemoveFdo
    <3> QED
      BY <3>1, MarkedPdo, FreedPdo DEF DataTypes, Alive
  <2> QED
    BY <2>1, <2>2 DEF DataOK, CleanOK, NoLive, NoCalls
<1>8. CASE ReleaseFdo
  <2>1. /\ mgr.at = "fdoRelease" /\ mgr' = [mgr EXCEPT !.at = "fdoWait"]
        /\ UNCHANGED <<handle, call, pdo>>
    BY <1>8 DEF ReleaseFdo, pdoVars, serviceVars
  <2>2. handle = "closed"
    BY <2>1 DEF StructOK, FdoOK, FdoDone
  <2>3. mgr'.at = "fdoWait" /\ mgr'.fdoData = mgr.fdoData
    BY <2>1 DEF DataTypes
  <2> QED
    BY <2>1, <2>2, <2>3 DEF DataOK, CleanOK, NoLive, NoCalls, Alive
<1>7. CASE DeleteFdo
  <2>1. /\ mgr.at = "fdoWait" /\ mgr' = NoRemoval
        /\ UNCHANGED <<handle, call, pdo>>
    BY <1>7 DEF DeleteFdo, pdoVars, serviceVars
  <2>2. handle = "closed"
    BY <2>1 DEF StructOK, FdoOK, FdoDone
  <2> QED
    BY <2>1, <2>2 DEF DataOK, CleanOK, NoLive, NoCalls, NoRemoval, Alive
<1> QED
  BY <1>2, <1>3, <1>4, <1>5, <1>6, <1>7, <1>8 DEF FdoPnp

(* The manager and a disk.  While the handle's cleanup has not marked the  *)
(* disks, none on the list is removed or ejected.                          *)
LEMMA PdoClean ==
  ASSUME DataTypes, StructOK, SerialOK, MarkOK, DataOK, CleanOK,
         NEW p \in Pdos, PdoPnp(p)
  PROVE  DataOK' /\ CleanOK'
<1>1. /\ UNCHANGED <<handle, call, numPdos, ready>> /\ mgr.at = "idle"
      /\ ~ EjectPdo(p) /\ ~ RemovePdo(p) => mgr' = mgr
  BY DEF PdoPnp, StartPdo, QueryStopPdo, CancelStopPdo, StopPdo, QueryRemovePdo,
     CancelRemovePdo, SurpriseRemovalPdo, EjectPdo, RemovePdo, Handled, Serving,
     MayRemovePdo, fdoVars, serviceVars
<1>2. SameDisks /\ Listed' = Listed /\ \A q \in Pdos : Alive(q)' <=> Alive(q)
  BY PdoSameDisks DEF SameDisks, Listed, Alive
<1>3. CASE EjectPdo(p)
  <2>1. /\ mgr' = mgr /\ dev[p].eject
        /\ pdo' = [pdo EXCEPT ![p].present = FALSE]
        /\ dev' = [dev EXCEPT ![p].eject = FALSE]
    BY <1>3 DEF EjectPdo
  <2>2. \A q \in Pdos \ {p} : pdo'[q] = pdo[q] /\ dev'[q] = dev[q]
    BY <2>1 DEF DataTypes
  <2>3. handle \in {"check", "reset", "removeAll"} => p \notin Listed
    BY <2>1 DEF CleanOK, Undisturbed
  <2> QED
    BY <1>1, <1>2, <2>1, <2>2, <2>3, CleanSame, ListedTypes
<1>4. CASE RemovePdo(p) /\ pdo[p].reportedMissing
  <2>1. /\ mgr'.at = IF pdo[p].parent THEN "unlink" ELSE "destroy"
        /\ mgr'.pdo = p /\ mgr'.fdoData = pdo[p].parent
    BY <1>4 DEF RemovePdo
  <2>2. DataOK'
    BY <1>2, <2>1 DEF DataOK, SameDisks
  <2>3. PresentKept
    <3>1. ~ EjectPdo(p)
      BY <1>1, <2>1 DEF EjectPdo
    <3> QED
      BY <3>1, PdoPresent
  <2>4. ~ mgr.fdoData
    BY <1>1 DEF DataOK
  <2>5. ASSUME handle \in {"check", "reset", "removeAll"}
        PROVE  Undisturbed'
    <3>1. \A q \in Listed : pdo[q].present /\ ~ dev[q].eject
      BY <2>5 DEF CleanOK, Undisturbed
    <3>2. Alive(p)
      <4>1. ~ FdoDone
        BY <2>5 DEF StructOK, FdoOK
      <4>2. dev[p].node \notin {"unknown", "gone"}
        BY <1>4 DEF RemovePdo, MayRemovePdo
      <4> QED
        BY <1>1, <4>1, <4>2 DEF StructOK, KnownOK
    <3>3. ~ pdo[p].parent
      <4>1. p \notin Listed
        BY <1>4, <3>1 DEF MarkOK, PresentOK
      <4> QED
        BY <1>1, <3>2, <4>1 DEF StructOK, ListOK, Leaving
    <3> QED
      BY <1>2, <2>1, <2>3, <3>1, <3>3, ListedTypes DEF Undisturbed, PresentKept
  <2>6. CleanOK'
    BY <1>1, <1>2, <2>1, <2>4, <2>5 DEF CleanOK, NoCalls, NoLive
  <2> QED
    BY <2>2, <2>6
<1>5. CASE ~ EjectPdo(p) /\ ~ (RemovePdo(p) /\ pdo[p].reportedMissing)
  <2>1. mgr' = mgr
    BY <1>1, <1>5 DEF RemovePdo
  <2>2. PresentKept
    BY <1>5, PdoPresent
  <2> QED
    BY <1>1, <1>2, <2>1, <2>2, CleanSame, ListedTypes DEF PresentKept
<1> QED
  BY <1>3, <1>4, <1>5

(* The steps of a removal.  The event is set when the count is zero, and   *)
(* then no disk is left.                                                   *)
LEMMA RemovalClean ==
  ASSUME DataTypes, StructOK, CountOK, DataOK, CleanOK, RemovalStep
  PROVE  DataOK' /\ CleanOK'
<1>n. numPdos \in Nat /\ (Listed # {} => numPdos > 0)
  BY CountedIsNat
<1>1. CASE UnlinkPdo
  <2>1. /\ mgr.at = "unlink" /\ mgr'.at = "destroy" /\ mgr'.pdo = mgr.pdo
        /\ mgr'.fdoData = mgr.fdoData /\ UNCHANGED <<pdo, ready, handle, call>>
    BY <1>1 DEF UnlinkPdo, DataTypes, pdoVars, serviceVars
  <2>2. mgr.fdoData
    BY <2>1 DEF StructOK, RemovalOK, ListOK, DataOK
  <2>3. DataOK'
    BY <2>1 DEF DataOK
  <2>4. handle \notin {"check", "reset", "removeAll"}
    BY <2>2 DEF CleanOK, Undisturbed
  <2> QED
    BY <2>1, <2>2, <2>3, <2>4 DEF CleanOK, NoCalls, NoLive, Alive
<1>2. CASE DestroyPdo
  <2>1. /\ mgr.at = "destroy" /\ mgr'.at = "count" /\ mgr'.fdoData = mgr.fdoData
        /\ mgr.pdo \in Pdos \ Listed
        /\ pdo' = [pdo EXCEPT ![mgr.pdo] = Freed(pdo[mgr.pdo])]
        /\ UNCHANGED <<list, ready, numPdos, handle, call, dev>>
    BY <1>2 DEF DestroyPdo, DataTypes, fdoVars, serviceVars, StructOK, RemovalOK
  <2>2. /\ pdo'[mgr.pdo].object = "destroyed"
        /\ \A q \in Pdos \ {mgr.pdo} : pdo'[q] = pdo[q]
    BY <2>1, FreedPdo DEF DataTypes
  <2>3. DataOK'
    BY <2>1 DEF DataOK
  <2>4. NoLive => NoLive'
    BY <2>2 DEF NoLive, Alive
  <2>5. Undisturbed => Undisturbed'
    BY <2>1, <2>2, ListedTypes DEF Undisturbed, Listed
  <2> QED
    BY <2>1, <2>3, <2>4, <2>5 DEF CleanOK, NoCalls
<1>3. CASE CountPdos
  <2>1. /\ mgr.at = "count" /\ mgr.pdo \in Pdos
        /\ dev' = [dev EXCEPT ![mgr.pdo] = Gone]
        /\ UNCHANGED <<list, pdo, ready, numPdos, handle, call>>
    BY <1>3 DEF CountPdos, fdoVars, pdoVars, serviceVars, StructOK, RemovalOK
  <2>2. (NoLive' <=> NoLive) /\ (NoCalls' <=> NoCalls) /\ Listed' = Listed
    BY <2>1 DEF NoLive, NoCalls, Alive, Listed
  <2>3. \A q \in Listed : dev'[q].eject => dev[q].eject
    BY <2>1, ListedTypes DEF Gone, DataTypes
  <2>4. CASE mgr.fdoData /\ numPdos = 0
    <3>1. mgr'.at = "signal" /\ mgr'.fdoData
      BY <1>3, <2>4 DEF CountPdos, DataTypes
    <3>2. NoLive
      BY <2>1, <2>4, NoneLeft DEF NoLive, Leaving
    <3>3. handle \notin {"check", "reset", "removeAll"}
      BY <2>4 DEF CleanOK, Undisturbed
    <3> QED
      BY <2>1, <2>2, <3>1, <3>2, <3>3 DEF DataOK, CleanOK
  <2>5. CASE ~ (mgr.fdoData /\ numPdos = 0)
    <3>1. mgr' = NoRemoval /\ mgr'.at = "idle" /\ ~ mgr'.fdoData
      BY <1>3, <2>5 DEF CountPdos, RemoveDone, NoRemoval
    <3>2. mgr.fdoData => numPdos > 0
      BY <1>n, <2>5
    <3>3. Undisturbed => Undisturbed'
      BY <2>1, <2>2, <2>3, <3>1 DEF Undisturbed
    <3> QED
      BY <2>1, <2>2, <3>1, <3>2, <3>3 DEF DataOK, CleanOK
  <2> QED
    BY <2>4, <2>5
<1>4. CASE SignalReady
  <2>1. /\ mgr.at = "signal" /\ mgr' = NoRemoval /\ ready'
        /\ UNCHANGED <<list, pdo, numPdos, handle, call, dev>>
    BY <1>4 DEF SignalReady, RemoveDone, pdoVars, serviceVars
  <2>2. mgr.fdoData /\ mgr'.at = "idle" /\ ~ mgr'.fdoData
    BY <2>1 DEF DataOK, NoRemoval
  <2>3. handle \notin {"check", "reset", "removeAll"}
    BY <2>2 DEF CleanOK, Undisturbed
  <2> QED
    BY <2>1, <2>2, <2>3 DEF DataOK, CleanOK, NoCalls, NoLive, Alive
<1> QED
  BY <1>1, <1>2, <1>3, <1>4 DEF RemovalStep

LEMMA CleanInvariant ==
  ASSUME MayCloseWhile \subseteq {"unenumerated"}
  PROVE  Spec => [](DataTypes /\ StructOK /\ CountOK /\ DataOK /\ CleanOK)
<1>1. Init => DataOK /\ CleanOK
  BY DEF Init, DataOK, CleanOK, NoRemoval, NoCalls, NoLive, Alive, NoPdo
<1>2. DataTypes /\ StructOK /\ SerialOK /\ MarkOK /\ AgreeOK /\ CountOK /\ DataOK /\ CleanOK
      /\ [Next]_vars => (DataOK /\ CleanOK)'
  <2> SUFFICES ASSUME DataTypes, StructOK, SerialOK, MarkOK, AgreeOK, CountOK, DataOK,
                      CleanOK, [Next]_vars
               PROVE  DataOK' /\ CleanOK'
    OBVIOUS
  <2>1. CASE UNCHANGED vars
    BY <2>1, CleanSame
       DEF vars, fdoVars, pdoVars, serviceVars, mgrVars, Listed, Alive
  <2>2. CASE OpenHandle \/ CloseHandle \/ Cleanup \/ Close
    BY <2>2, HandleClean
  <2> QED
    BY <2>1, <2>2, ServiceClean, FdoClean, PdoClean, RemovalClean DEF Next, Stopped
<1> QED
  BY <1>1, <1>2, MarkInvariant, AgreeInvariant, CountInvariant, PTL DEF Spec

(* When IRP_MJ_CLEANUP has returned no disk is left, whatever the PnP      *)
(* manager is doing, provided that no IOCTL and no removal was under way   *)
(* when the handle was closed (a disk not yet enumerated does no harm):    *)
(* that Bus_FDO_Cleanup counts, resets its event, marks the disks and      *)
(* waits in steps of their own is then sound.                              *)
THEOREM CleanupCorrect ==
  ASSUME MayCloseWhile \subseteq {"unenumerated"}
  PROVE  Spec => []CleanupLeavesNone
<1>1. CleanOK => CleanupLeavesNone
  BY DEF CleanOK, CleanupLeavesNone, NoLive, Alive
<1> QED
  BY <1>1, CleanInvariant, PTL

(* As long as Bus_FDO_Cleanup waits, somebody is going to set its event:   *)
(* a disk is left to be removed, or the removal of the last one is about   *)
(* to look at NumPDOs or to signal.                                        *)
THEOREM AwaitedCorrect ==
  ASSUME MayCloseWhile \subseteq {"unenumerated"}
  PROVE  Spec => []CleanupIsAwaited
<1>1. DataTypes /\ StructOK /\ CountOK /\ DataOK /\ CleanOK => CleanupIsAwaited
  <2> SUFFICES ASSUME DataTypes, StructOK, CountOK, DataOK, CleanOK,
                      handle = "wait", ~ ready, ~ numPdos > 0
               PROVE  mgr.at \in {"destroy", "count", "signal"} /\ mgr.fdoData
    BY DEF CleanupIsAwaited
  <2>1. mgr.fdoData /\ mgr.at # "idle"
    BY DEF CleanOK, DataOK
  <2>2. mgr.at # "unlink"
    BY CountedIsNat DEF StructOK, RemovalOK
  <2>3. mgr.at \notin {"fdoRelease", "fdoWait"}
    BY DEF StructOK, FdoOK, FdoDone
  <2> QED
    BY <2>1, <2>2, <2>3 DEF DataTypes, RemovePlaces
<1> QED
  BY <1>1, CleanInvariant, PTL

-----------------------------------------------------------------------------
(* What the manager is told.  A step that takes no news away. *)
LEMMA AnnouncedStep ==
  ASSUME DataTypes, ChangesAreAnnounced, leaks' = 0 => leaks = 0,
         Listed' \subseteq Listed,
         \A p \in Listed' :
           /\ pdo'[p].present = pdo[p].present
           /\ pdo[p].reportedMissing => pdo'[p].reportedMissing
           /\ dev'[p].node = "unknown" => dev[p].node = "unknown",
         bus.stale => bus'.stale,
         \A c \in Callers : call[c].at = "invalidate" =>
                              call'[c].at = "invalidate" \/ bus'.stale
  PROVE  ChangesAreAnnounced'
  BY DEF ChangesAreAnnounced

(* One after which there is nothing to tell, or the manager has been told. *)
LEMMA ToldOrEmpty ==
  ASSUME bus'.stale \/ Listed' = {}
  PROVE  ChangesAreAnnounced'
  BY DEF ChangesAreAnnounced

LEMMA ServiceAnnounced ==
  ASSUME DataTypes, StructOK, MarkOK, ChangesAreAnnounced,
         NEW c \in Callers, Ioctl(c) \/ InIoctl(c)
  PROVE  ChangesAreAnnounced'
<1>0. leaks' = leaks
  BY DEF Ioctl, AddDisk, RemoveDisk, GetRequest, Enter, InIoctl, CheckUnique, AddFails,
     Invalidate, FindDisk, WalkDone, InsertPdo, WalkTo, fdoVars
<1>1. ASSUME UNCHANGED <<list, pdo, bus>>, \A p \in Pdos : dev'[p].node = dev[p].node,
             call[c].at # "invalidate", NEW e, call' = [call EXCEPT ![c] = e]
      PROVE  ChangesAreAnnounced'
  <2>1. Listed' = Listed
    BY <1>1 DEF Listed
  <2>2. \A d \in Callers : call[d].at = "invalidate" => call'[d] = call[d]
    BY <1>1 DEF DataTypes
  <2> QED
    BY <1>0, <1>1, <2>1, <2>2, AnnouncedStep, ListedTypes
<1>2. CASE Ioctl(c)
  <2>1. PICK at, s : Enter(c, at, s)
    BY <1>2 DEF Ioctl, AddDisk, RemoveDisk, GetRequest
  <2>2. /\ call[c].at # "invalidate" /\ UNCHANGED <<list, pdo, bus, dev>>
        /\ call' = [call EXCEPT ![c] = [at |-> at, serial |-> s, pdo |-> None]]
    BY <2>1 DEF Enter, User, pdoVars, mgrVars
  <2> QED
    BY <1>1, <2>2
<1>3. CASE CheckUnique(c)
  <2>1. call[c].at = "check" /\ UNCHANGED <<list, pdo, bus, dev>>
    BY <1>3 DEF CheckUnique, pdoVars, mgrVars
  <2>2. \E e : call' = [call EXCEPT ![c] = e]
    BY <1>3 DEF CheckUnique, Leave
  <2> QED
    BY <1>1, <2>1, <2>2
<1>4. CASE AddFails(c) \/ WalkDone(c)
  BY <1>1, <1>4 DEF AddFails, WalkDone, Leave, pdoVars, mgrVars
<1>5. CASE FindDisk(c)
  <2>1. \A p \in Pdos : dev'[p].node = dev[p].node
    BY <1>5 DEF FindDisk, DataTypes
  <2> QED
    BY <1>1, <1>5, <2>1 DEF FindDisk, Leave
<1>6. ASSUME NEW q \in Pdos, WalkTo(c, q) PROVE ChangesAreAnnounced'
  BY <1>1, <1>6 DEF WalkTo, fdoVars, pdoVars, mgrVars
<1>7. CASE Invalidate(c)
  <2>1. bus'.stale
    BY <1>7 DEF Invalidate, DataTypes
  <2> QED
    BY <2>1, ToldOrEmpty
<1>8. ASSUME NEW q \in Pdos, InsertPdo(c, q) PROVE ChangesAreAnnounced'
  <2>1. /\ call[c].at = "insert" /\ list' = Append(list, q) /\ pdo[q].object = "none"
        /\ pdo' = [pdo EXCEPT ![q] = NewPdo(call[c].serial)]
        /\ call' = [call EXCEPT ![c].at = "invalidate"]
        /\ UNCHANGED <<bus, dev>>
    BY <1>8 DEF InsertPdo, mgrVars
  <2>2. Listed' = Listed \cup {q} /\ q \notin Listed
    <3>1. list \in Seq(Pdos)
      BY DEF DataTypes
    <3>2. Listed' = Listed \cup {q}
      BY <2>1, <3>1, AppendInjectiveList DEF Listed
    <3> QED
      BY <2>1, <3>2 DEF StructOK, ListOK, Alive
  <2>3. /\ pdo'[q] = NewPdo(call[c].serial)
        /\ \A p \in Pdos \ {q} : pdo'[p] = pdo[p]
    BY <2>1 DEF DataTypes
  <2>4. call'[c].at = "invalidate"
    BY <2>1 DEF DataTypes
  <2>5. pdo'[q].present
    BY <2>3 DEF NewPdo, NoPdo
  <2>6. \A p \in Listed : pdo'[p] = pdo[p]
    BY <2>2, <2>3, ListedTypes
  <2> QED
    BY <1>0, <2>1, <2>2, <2>4, <2>5, <2>6 DEF ChangesAreAnnounced
<1> QED
  BY <1>2, <1>3, <1>4, <1>5, <1>6, <1>7, <1>8 DEF InIoctl

LEMMA HandleAnnounced ==
  ASSUME DataTypes, LockOK, ChangesAreAnnounced,
         OpenHandle \/ CloseHandle \/ Cleanup \/ Close
  PROVE  ChangesAreAnnounced'
<1>1. CASE OpenHandle \/ CloseHandle \/ Close
  <2>1. leaks \in Nat /\ leaks' \in {leaks, leaks + 1}
    BY <1>1 DEF OpenHandle, CloseHandle, Close, Bus_CreateClose, fdoVars, LockOK
  <2>2. leaks' = 0 => leaks = 0
    BY <2>1
  <2> QED
    BY <1>1, <2>2, AnnouncedStep
       DEF OpenHandle, CloseHandle, Close, Bus_CreateClose, fdoVars, pdoVars, mgrVars,
       Listed
<1>2. CASE CleanupCheck \/ CleanupReset \/ CleanupWait
  BY <1>2, AnnouncedStep
     DEF CleanupCheck, CleanupReset, CleanupWait, fdoVars, pdoVars, mgrVars, Listed
<1>3. CASE Bus_RemoveAllDisks
  <2>1. UNCHANGED <<list, dev, call, leaks>> /\ Listed' = Listed
    BY <1>3 DEF Bus_RemoveAllDisks, fdoVars, Listed
  <2>2. CASE UNCHANGED <<pdo, bus>>
    BY <2>1, <2>2, AnnouncedStep
  <2>3. CASE ~ UNCHANGED <<pdo, bus>>
    <3>1. bus' = [bus EXCEPT !.stale = @ \/ list # <<>>]
      BY <1>3, <2>3 DEF Bus_RemoveAllDisks
    <3>2. list # <<>> => bus'.stale
      BY <3>1 DEF DataTypes
    <3>3. list = <<>> => Listed' = {}
      BY <2>1 DEF Listed, ToSet
    <3> QED
      BY <3>2, <3>3, ToldOrEmpty
  <2> QED
    BY <2>2, <2>3
<1> QED
  BY <1>1, <1>2, <1>3 DEF Cleanup

LEMMA FdoAnnounced ==
  ASSUME DataTypes, LockOK, ChangesAreAnnounced, FdoPnp
  PROVE  ChangesAreAnnounced'
<1>1. ASSUME UNCHANGED <<list, pdo, dev, call, leaks>>, bus.stale => bus'.stale
      PROVE  ChangesAreAnnounced'
  BY <1>1, AnnouncedStep DEF Listed
<1>2. ASSUME FdoUnchanged, NEW node, BusTo(node)
      PROVE  ChangesAreAnnounced'
  <2>1. bus'.stale = bus.stale
    BY <1>2 DEF BusTo, DataTypes
  <2> QED
    BY <1>1, <1>2, <2>1 DEF FdoUnchanged, pdoVars, serviceVars
<1>3. ASSUME UNCHANGED <<list, pdo, dev, call, leaks>>,
             bus' = [bus EXCEPT !.missing = TRUE]
      PROVE  ChangesAreAnnounced'
  <2>1. bus'.stale = bus.stale
    BY <1>3 DEF DataTypes
  <2> QED
    BY <1>1, <1>3, <2>1
<1>4. CASE StartFdo
  BY <1>2, <1>3, <1>4 DEF StartFdo, FdoUnchanged, pdoVars, serviceVars
<1>5. CASE QueryStopFdo \/ CancelStopFdo \/ StopFdo \/ QueryRemoveFdo \/ CancelRemoveFdo
  BY <1>2, <1>5 DEF QueryStopFdo, CancelStopFdo, StopFdo, QueryRemoveFdo, CancelRemoveFdo
<1>6. CASE BusVanishes
  BY <1>3, <1>6 DEF BusVanishes, fdoVars, pdoVars, serviceVars
<1>7. CASE SurpriseRemovalFdo \/ RemoveFdo
  <2>1. list' = <<>>
    BY <1>7 DEF SurpriseRemovalFdo, RemoveFdo
  <2>2. Listed' = {}
    BY <2>1 DEF Listed, ToSet
  <2> QED
    BY <2>2, ToldOrEmpty
<1>11. CASE ReleaseFdo
  BY <1>1, <1>11 DEF ReleaseFdo, fdoVars, pdoVars, serviceVars
<1>8. CASE DeleteFdo
  <2>1. bus'.stale = bus.stale
    BY <1>8 DEF DeleteFdo, BusTo, DataTypes
  <2> QED
    BY <1>1, <1>8, <2>1 DEF DeleteFdo, pdoVars, serviceVars
<1>9. CASE QueryRelations
  <2> DEFINE marked(p) == p \in Listed /\ ~ pdo[p].present
  <2>1. Listed' = Listed
    BY <1>9 DEF QueryRelations, fdoVars, Listed
  <2>2. \A p \in Pdos : pdo'[p] = IF marked(p)
                                 THEN [pdo[p] EXCEPT !.reportedMissing = TRUE]
                                 ELSE pdo[p]
    BY <1>9 DEF QueryRelations
  <2> HIDE DEF marked
  <2>3. \A p \in Pdos : /\ pdo'[p].present = pdo[p].present
                        /\ marked(p) => pdo'[p].reportedMissing
    <3>1. \A p \in Pdos : pdo[p] \in PdoTypes
      BY DEF DataTypes
    <3> QED
      BY <2>2, <3>1, FlagsOfOneMark
  <2>4. \A p \in Listed : pdo[p].present => dev'[p].node # "unknown"
    BY <1>9, ListedTypes DEF QueryRelations, DataTypes
  <2> QED
    BY <2>1, <2>3, <2>4, ListedTypes DEF ChangesAreAnnounced, marked
<1>10. CASE QueryRelationsFails
  <2>1. leaks' # 0
    BY <1>10 DEF QueryRelationsFails, LockOK
  <2> QED
    BY <2>1 DEF ChangesAreAnnounced
<1> QED
  BY <1>4, <1>5, <1>6, <1>7, <1>8, <1>9, <1>10, <1>11 DEF FdoPnp

LEMMA PdoAnnounced ==
  ASSUME DataTypes, SurprisedOK, ChangesAreAnnounced, NEW p \in Pdos, PdoPnp(p)
  PROVE  ChangesAreAnnounced'
<1>1. CASE EjectPdo(p)
  <2>1. bus'.stale
    BY <1>1 DEF EjectPdo, DataTypes
  <2> QED
    BY <2>1, ToldOrEmpty
<1>2. CASE ~ EjectPdo(p)
  <2>1. PresentKept /\ bus' = bus
    BY <1>2, PdoPresent
  <2>2. /\ list' = list /\ call' = call
        /\ \A q \in Pdos : pdo'[q].reportedMissing = pdo[q].reportedMissing
    BY PdoFlagsKept
  <2>3. leaks' = leaks
    BY DEF PdoPnp, StartPdo, QueryStopPdo, CancelStopPdo, StopPdo, QueryRemovePdo,
       CancelRemovePdo, SurpriseRemovalPdo, EjectPdo, RemovePdo, Handled, fdoVars
  <2>4. Listed' = Listed
    BY <2>2 DEF Listed
  <2> QED
    BY <2>1, <2>2, <2>3, <2>4, AnnouncedStep, ListedTypes DEF PresentKept
<1> QED
  BY <1>1, <1>2

LEMMA RemovalAnnounced ==
  ASSUME DataTypes, StructOK, ChangesAreAnnounced, RemovalStep
  PROVE  ChangesAreAnnounced'
<1>1. bus' = bus /\ call' = call /\ leaks' = leaks
  BY DEF RemovalStep, UnlinkPdo, DestroyPdo, CountPdos, SignalReady, fdoVars, serviceVars
<1>2. CASE UnlinkPdo
  <2>1. Listed' \subseteq Listed
    <3>1. PICK k \in DOMAIN list : list' = RemoveAt(list, k)
      BY <1>2 DEF UnlinkPdo, RemoveEntryList
    <3> QED
      BY <3>1, RemoveAtInjectiveList DEF DataTypes, StructOK, ListOK, Listed
  <2> QED
    BY <1>1, <1>2, <2>1, AnnouncedStep DEF UnlinkPdo, pdoVars
<1>3. CASE DestroyPdo
  <2>1. /\ mgr.pdo \in Pdos \ Listed
        /\ pdo' = [pdo EXCEPT ![mgr.pdo] = Freed(pdo[mgr.pdo])]
        /\ list' = list /\ dev' = dev
    BY <1>3 DEF DestroyPdo, fdoVars, StructOK, RemovalOK
  <2>2. \A q \in Pdos \ {mgr.pdo} : pdo'[q] = pdo[q]
    BY <2>1 DEF DataTypes
  <2> QED
    BY <1>1, <2>1, <2>2, AnnouncedStep, ListedTypes DEF Listed
<1>4. CASE CountPdos
  <2>1. /\ mgr.pdo \in Pdos /\ dev' = [dev EXCEPT ![mgr.pdo] = Gone]
        /\ list' = list /\ pdo' = pdo
    BY <1>4 DEF CountPdos, fdoVars, pdoVars, StructOK, RemovalOK
  <2>2. \A q \in Pdos : dev'[q].node = "unknown" => dev[q].node = "unknown"
    BY <2>1 DEF DataTypes, Gone
  <2> QED
    BY <1>1, <2>1, <2>2, AnnouncedStep, ListedTypes DEF Listed
<1>5. CASE SignalReady
  BY <1>1, <1>5, AnnouncedStep DEF SignalReady, pdoVars, Listed
<1> QED
  BY <1>2, <1>3, <1>4, <1>5 DEF RemovalStep

(* The PnP manager is asked to enumerate the bus again whenever a disk on  *)
(* the list is new to it, or has gone without being marked: AddDisk,       *)
(* EJECT and Bus_RemoveAllDisks invalidate the relations after the change, *)
(* and no QUERY_RELATIONS in between takes the news away, unless its       *)
(* allocation failed.                                                      *)
THEOREM AnnouncedCorrect == Spec => []ChangesAreAnnounced
<1>1. Init => ChangesAreAnnounced
  BY DEF Init, ChangesAreAnnounced, Listed, ToSet
<1>2. DataTypes /\ StructOK /\ SerialOK /\ MarkOK /\ LockOK /\ ChangesAreAnnounced
      /\ [Next]_vars => ChangesAreAnnounced'
  <2> SUFFICES ASSUME DataTypes, StructOK, SerialOK, MarkOK, LockOK, ChangesAreAnnounced,
                      [Next]_vars
               PROVE  ChangesAreAnnounced'
    OBVIOUS
  <2>1. CASE UNCHANGED vars
    BY <2>1, AnnouncedStep DEF vars, fdoVars, pdoVars, serviceVars, mgrVars, Listed
  <2> QED
    BY <2>1, ServiceAnnounced, HandleAnnounced, FdoAnnounced, PdoAnnounced,
       RemovalAnnounced DEF Next, Stopped, SerialOK
<1> QED
  BY <1>1, <1>2, MarkInvariant, LockInvariant, PTL DEF Spec
=============================================================================
