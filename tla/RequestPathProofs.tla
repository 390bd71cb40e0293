------------------------- MODULE RequestPathProofs --------------------------
(***************************************************************************)
(* Proofs about RequestPath, for any disks, requests, GET_REQUEST IRPs and *)
(* with or without cancellation and removal.  The inductive invariant is   *)
(* built in layers, each proved from the ones before it:                   *)
(*   TypeOK, ThreadOK   what a thread's local pointers are, by its place;  *)
(*   LockOK             the holder of a PDOLock;                           *)
(*   TargetOK           an IRP is only found at the PDO it was sent to;    *)
(*   ServiceOK          the service's requests against CurrentIrp;         *)
(*   PlaceOK            an IRP is in one place, and not completed there.   *)
(***************************************************************************)
EXTENDS RequestPath, SequenceLemmas

InPdo == {"found", "taken", "next", "rqTaken", "irpTaken"}

ThreadOK ==
  /\ \A t \in Threads : pc[t] \in InPdo => at[t] \in Pdos
  /\ \A t \in Threads : pc[t] \in {"rqTaken", "irpTaken"} => rqIrp[t] \in Reqs
  /\ \A t \in Threads : held[t] # None <=> pc[t] \in {"taken", "irpTaken"}
  /\ \A p \in Pdos : pc[p] # "walk"
  /\ \A p \in Pdos : pc[p] \in InPdo => at[p] = p
  /\ \A p \in Pdos : pc[p] = "found" => replying[p] # None
  /\ \A r \in Reqs : pc[r] \notin {"found", "taken"}

LockOK ==
  \A p \in Pdos, t \in Threads :
    pdoLock[p] = t <=> pc[t] \in LockPlaces /\ at[t] = p

QueueTarget ==
  \A p \in Pdos : \A k \in DOMAIN irpQueue[p] : Target[irpQueue[p][k]] = p
CurrentTarget == \A p \in Pdos : currentIrp[p] # None => Target[currentIrp[p]] = p
HeldTarget == \A t \in Threads : held[t] # None => Target[held[t]] = at[t]
WorkerTarget ==
  \A p \in Pdos :
    /\ slot[p] # None => Target[slot[p]] = p
    /\ replying[p] # None => Target[replying[p]] = p
TargetOK == QueueTarget /\ CurrentTarget /\ HeldTarget /\ WorkerTarget

IdleWhileStarting ==
  \A t \in Threads : pc[t] \in LockPlaces => currentIrp[at[t]] = None

ServiceOK == IdleWhileStarting /\ InServiceIsCurrent

(* The places an IRP can be, and what its completions are there. *)
IrpPlace(i) ==
  /\ i \notin issued =>
       i \notin dispatched /\ ~Queued(i) /\ ~Started(i) /\ completions[i] = 0
  /\ i \in dispatched => ~Queued(i) /\ ~Started(i) /\ completions[i] = 0
  /\ Queued(i) => ~Started(i) /\ completions[i] = 0
  /\ Started(i) /\ i \notin cancelFlag => completions[i] = 0
  /\ currentIrp[Target[i]] = i => \A t \in Threads : held[t] # i
  /\ \A t, u \in Threads : held[t] = i /\ held[u] = i => t = u
  /\ cancelRoutine[i] = "current" => currentIrp[Target[i]] = i
  /\ i \notin cancelFlag => completions[i] <= 1

QueueInjective ==
  \A p \in Pdos : \A k, m \in DOMAIN irpQueue[p] :
    irpQueue[p][k] = irpQueue[p][m] => k = m

PlaceOK == QueueInjective /\ \A i \in Irps : IrpPlace(i)

-----------------------------------------------------------------------------
(* The types and the threads' local pointers are right initially. *)
LEMMA InitTypeThread == Init => TypeOK /\ ThreadOK
  BY RequestPathAssumption DEF Init, TypeOK, ThreadOK, Threads, Statuses,
     PnpStates, Places, InPdo

(* One step for each action: types and local pointers are preserved. *)
LEMMA NextTypeThread ==
  TypeOK /\ ThreadOK /\ [Next]_vars => TypeOK' /\ ThreadOK'
<1> SUFFICES ASSUME TypeOK, ThreadOK, [Next]_vars
             PROVE  TypeOK' /\ ThreadOK'
  OBVIOUS
<1> USE RequestPathAssumption, HeadTailProperties, AppendProperties
<1> USE DEF Threads, TypeOK, ThreadOK, InPdo, Places, Statuses, PnpStates,
        irpVars, pdoVars, requestVars, threadVars, serviceVars
<1>1. ASSUME NEW i \in Irps, Bus_Scsi(i)
      PROVE  TypeOK' /\ ThreadOK'
  BY <1>1 DEF Bus_Scsi
<1>2. ASSUME NEW i \in Irps, Bus_ScsiDeleted(i)
      PROVE  TypeOK' /\ ThreadOK'
  BY <1>2 DEF Bus_ScsiDeleted, Complete
<1>3. ASSUME NEW i \in Irps, QueuePacket(i)
      PROVE  TypeOK' /\ ThreadOK'
  BY <1>3 DEF QueuePacket
<1>4. ASSUME NEW i \in Irps, QueueCancelledPacket(i)
      PROVE  TypeOK' /\ ThreadOK'
  BY <1>4 DEF QueueCancelledPacket, Complete
<1>5. ASSUME NEW i \in Irps, StartPacket(i)
      PROVE  TypeOK' /\ ThreadOK'
  BY <1>5 DEF StartPacket, HandOver
<1>6. ASSUME NEW i \in Irps, CancelQueued(i)
      PROVE  TypeOK' /\ ThreadOK'
  <2>1. PICK k \in DOMAIN irpQueue[Target[i]] :
          irpQueue' = [irpQueue EXCEPT ![Target[i]] = RemoveAt(@, k)]
    BY <1>6 DEF CancelQueued
  <2>2. RemoveAt(irpQueue[Target[i]], k) \in Seq(Irps)
    BY <2>1, RemoveAtProperties
  <2>3. irpQueue' \in [Pdos -> Seq(Irps)]
    BY <2>1, <2>2
  <2>4. ThreadOK'
    BY <1>6 DEF CancelQueued
  <2>5. /\ cancelFlag' = cancelFlag \cup {i}
        /\ cancelRoutine' = [cancelRoutine EXCEPT ![i] = None]
        /\ Complete(i, "cancelled")
        /\ UNCHANGED <<issued, dispatched, lockTags, currentIrp, pdoLock, pnp>>
        /\ UNCHANGED <<requestVars, threadVars, serviceVars>>
    BY <1>6 DEF CancelQueued
  <2> HIDE HeadTailProperties, AppendProperties
  <2>6. /\ cancelFlag' \in SUBSET Irps
        /\ cancelRoutine' \in [Irps -> {None, "csq", "current"}]
    BY <1>6, <2>5
  <2>7. ioStatus' \in [Irps -> Statuses] /\ completions' \in [Irps -> Nat]
    BY <2>5 DEF Complete
  <2>8. TypeOK'
    BY <2>3, <2>5, <2>6, <2>7
  <2> QED
    BY <2>4, <2>8
<1>7. ASSUME NEW i \in Irps, Bus_CancelIrp(i)
      PROVE  TypeOK' /\ ThreadOK'
  BY <1>7 DEF Bus_CancelIrp, Complete, MayCancelIrp
<1>8. ASSUME NEW i \in Irps, CancelInHand(i)
      PROVE  TypeOK' /\ ThreadOK'
  BY <1>8 DEF CancelInHand, MayCancelIrp
<1>9. ASSUME NEW r \in Reqs, GetRequest(r)
      PROVE  TypeOK' /\ ThreadOK'
  BY <1>9 DEF GetRequest, Listed
<1>10. ASSUME NEW r \in Reqs, NEW p \in Pdos, WalkTo(r, p)
      PROVE  TypeOK' /\ ThreadOK'
  BY <1>10 DEF WalkTo, Listed
<1>11. ASSUME NEW r \in Reqs, WalkDone(r)
      PROVE  TypeOK' /\ ThreadOK'
  BY <1>11 DEF WalkDone, Listed
<1>12. ASSUME NEW r \in Reqs, ProcessRequest(r)
      PROVE  TypeOK' /\ ThreadOK'
  BY <1>12 DEF ProcessRequest
<1>13. ASSUME NEW t \in Threads, NothingToStart(t)
      PROVE  TypeOK' /\ ThreadOK'
  BY <1>13 DEF NothingToStart, AfterStartNext
<1>14. ASSUME NEW t \in Threads, TakeRequest(t)
      PROVE  TypeOK' /\ ThreadOK'
  BY <1>14 DEF TakeRequest
<1>15. ASSUME NEW t \in Threads, PutBackRequest(t)
      PROVE  TypeOK' /\ ThreadOK'
  BY <1>15 DEF PutBackRequest, AfterStartNext
<1>16. ASSUME NEW t \in Threads, TakeQueuedIrp(t)
      PROVE  TypeOK' /\ ThreadOK'
  <2> DEFINE q == irpQueue[at[t]]
  <2>1. q \in Seq(Irps) /\ q # <<>> /\ at[t] \in Pdos
    BY <1>16 DEF TakeQueuedIrp
  <2>2. Head(q) \in Irps /\ Tail(q) \in Seq(Irps)
    BY <2>1
  <2>3. /\ irpQueue' = [irpQueue EXCEPT ![at[t]] = Tail(q)]
        /\ cancelRoutine' = [cancelRoutine EXCEPT ![Head(q)] = None]
        /\ held' = [held EXCEPT ![t] = Head(q)]
        /\ lockTags' = [lockTags EXCEPT ![Head(q)] = @ + 1]
        /\ pc' = [pc EXCEPT ![t] = "irpTaken"]
        /\ UNCHANGED <<issued, dispatched, cancelFlag, ioStatus, completions>>
        /\ UNCHANGED <<currentIrp, pdoLock, pnp, at, rqIrp, todo>>
        /\ UNCHANGED <<requestVars, serviceVars>>
    BY <1>16 DEF TakeQueuedIrp
  <2> HIDE HeadTailProperties, AppendProperties DEF q
  <2>4. TypeOK'
    <3>1. /\ irpQueue' \in [Pdos -> Seq(Irps)]
          /\ cancelRoutine' \in [Irps -> {None, "csq", "current"}]
      BY <2>1, <2>2, <2>3
    <3>2. held' \in [Threads -> Irps \cup {None}] /\ lockTags' \in [Irps -> Int]
      BY <2>2, <2>3
    <3>3. pc' \in [Threads -> Places]
      BY <2>3
    <3> QED
      BY <2>3, <3>1, <3>2, <3>3
  <2>5. pc[t] = "rqTaken" /\ Head(q) # None
    BY <1>16, <2>2 DEF TakeQueuedIrp
  <2>6. ThreadOK'
    BY <2>2, <2>3, <2>5
  <2> QED
    BY <2>4, <2>6
<1>17. ASSUME NEW t \in Threads, StartTakenIrp(t)
      PROVE  TypeOK' /\ ThreadOK'
  <2>1. rqIrp[t] \in Reqs /\ held[t] \in Irps /\ Target[held[t]] \in Pdos
    BY <1>17 DEF StartTakenIrp
  <2>2. /\ carried' \in [Reqs -> Irps \cup {None}]
        /\ currentIrp' \in [Pdos -> Irps \cup {None}]
        /\ cancelRoutine' \in [Irps -> {None, "csq", "current"}]
    BY <1>17, <2>1 DEF StartTakenIrp, HandOver
  <2>3. /\ pc' = [pc EXCEPT ![t] = AfterStartNext(t)]
        /\ at' = [at EXCEPT ![t] = None]
        /\ rqIrp' = [rqIrp EXCEPT ![t] = None]
        /\ held' = [held EXCEPT ![t] = None]
        /\ pdoLock' = [pdoLock EXCEPT ![at[t]] = None]
        /\ UNCHANGED <<issued, dispatched, cancelFlag, ioStatus, completions, lockTags>>
        /\ UNCHANGED <<irpQueue, pnp, requestQueue, outstanding, todo, serviceVars>>
    BY <1>17 DEF StartTakenIrp
  <2>4. TypeOK'
    BY <2>2, <2>3 DEF AfterStartNext
  <2>5. ThreadOK'
    BY <2>3 DEF AfterStartNext
  <2> QED
    BY <2>4, <2>5
<1>18. ASSUME NEW p \in Pdos, SendReply(p)
      PROVE  TypeOK' /\ ThreadOK'
  <2>1. TypeOK'
    BY <1>18 DEF SendReply, Listed
  <2>2. \A t \in Threads :
          /\ pc'[t] \in InPdo => at'[t] \in Pdos
          /\ pc'[t] \in {"rqTaken", "irpTaken"} => rqIrp'[t] \in Reqs
    BY <1>18 DEF SendReply, Listed
  <2>3. \A t \in Threads : held'[t] # None <=> pc'[t] \in {"taken", "irpTaken"}
    BY <1>18 DEF SendReply, Listed
  <2>4. \A q \in Pdos :
          /\ pc'[q] # "walk"
          /\ pc'[q] \in InPdo => at'[q] = q
          /\ pc'[q] = "found" => replying'[q] # None
    BY <1>18 DEF SendReply, Listed
  <2>5. \A r \in Reqs : pc'[r] \notin {"found", "taken"}
    BY <1>18 DEF SendReply, Listed
  <2> QED
    BY <2>1, <2>2, <2>3, <2>4, <2>5
<1>19. ASSUME NEW p \in Pdos, SendReplyRefused(p)
      PROVE  TypeOK' /\ ThreadOK'
  BY <1>19 DEF SendReplyRefused
<1>20. ASSUME NEW p \in Pdos, ReplyWithoutIrp(p)
      PROVE  TypeOK' /\ ThreadOK'
  <2>1. TypeOK'
    BY <1>20 DEF ReplyWithoutIrp
  <2>2. \A t \in Threads :
          /\ pc'[t] \in InPdo => at'[t] \in Pdos
          /\ pc'[t] \in {"rqTaken", "irpTaken"} => rqIrp'[t] \in Reqs
    BY <1>20 DEF ReplyWithoutIrp
  <2>3. \A t \in Threads : held'[t] # None <=> pc'[t] \in {"taken", "irpTaken"}
    BY <1>20 DEF ReplyWithoutIrp
  <2>4. \A q \in Pdos :
          /\ pc'[q] # "walk"
          /\ pc'[q] \in InPdo => at'[q] = q
          /\ pc'[q] = "found" => replying'[q] # None
    BY <1>20 DEF ReplyWithoutIrp
  <2>5. \A r \in Reqs : pc'[r] \notin {"found", "taken"}
    BY <1>20 DEF ReplyWithoutIrp
  <2> QED
    BY <2>1, <2>2, <2>3, <2>4, <2>5
<1>21. ASSUME NEW p \in Pdos, TakeCurrentIrp(p)
      PROVE  TypeOK' /\ ThreadOK'
  BY <1>21 DEF TakeCurrentIrp
<1>22. ASSUME NEW p \in Pdos, FinishReply(p)
      PROVE  TypeOK' /\ ThreadOK'
  BY <1>22 DEF FinishReply, Complete
<1>23. ASSUME NEW p \in Pdos, RemoveDiskFinal(p)
      PROVE  TypeOK' /\ ThreadOK'
  BY <1>23 DEF RemoveDiskFinal
<1>24. ASSUME NEW p \in Pdos, RemovePdo(p)
      PROVE  TypeOK' /\ ThreadOK'
  BY <1>24 DEF RemovePdo
<1>25. ASSUME NEW p \in Pdos, DestroyCurrentIrp(p)
      PROVE  TypeOK' /\ ThreadOK'
  <2>1. currentIrp[p] \in Irps
    BY <1>25 DEF DestroyCurrentIrp
  <2>2. ThreadOK'
    BY <1>25 DEF DestroyCurrentIrp
  <2>3. /\ currentIrp' \in [Pdos -> Irps \cup {None}] /\ pnp' \in [Pdos -> PnpStates]
        /\ cancelRoutine' \in [Irps -> {None, "csq", "current"}]
    BY <1>25 DEF DestroyCurrentIrp
  <2>4. /\ ioStatus' \in [Irps -> Statuses] /\ completions' \in [Irps -> Nat]
        /\ lockTags' \in [Irps -> Int]
    BY <1>25, <2>1 DEF DestroyCurrentIrp, Complete
  <2>5. TypeOK'
    BY <1>25, <2>3, <2>4 DEF DestroyCurrentIrp
  <2> QED
    BY <2>2, <2>5
<1>26. ASSUME NEW p \in Pdos, DestroyNoIrp(p)
      PROVE  TypeOK' /\ ThreadOK'
  BY <1>26 DEF DestroyNoIrp
<1>27. ASSUME NEW p \in Pdos, DrainIrp(p)
      PROVE  TypeOK' /\ ThreadOK'
  <2>1. Tail(irpQueue[p]) \in Seq(Irps)
    BY <1>27 DEF DrainIrp
  <2>2. ThreadOK'
    BY <1>27 DEF DrainIrp
  <2>3. TypeOK'
    BY <1>27, <2>1 DEF DrainIrp, Complete
  <2> QED
    BY <2>2, <2>3
<1>28. ASSUME NEW p \in Pdos, DeletePdo(p)
      PROVE  TypeOK' /\ ThreadOK'
  BY <1>28 DEF DeletePdo
<1>29. CASE UNCHANGED vars
  BY <1>29 DEF vars
<1> HIDE DEF TypeOK, ThreadOK
<1> QED
  BY <1>1, <1>2, <1>3, <1>4, <1>5, <1>6, <1>7, <1>8, <1>9, <1>10, <1>11, <1>12,
     <1>13, <1>14, <1>15, <1>16, <1>17, <1>18, <1>19, <1>20, <1>21, <1>22, <1>23, <1>24, <1>25, <1>26, <1>27, <1>28, <1>29
  DEF Next, Scsi, BusStartPacket, IoCancelIrp, Walk, BusStartNextPacket, Worker, DestroyPdo

(* Every variable always has its type. *)
THEOREM TypeCorrect == Spec => []TypeOK
<1>1. Init => TypeOK /\ ThreadOK
  BY InitTypeThread
<1>2. TypeOK /\ ThreadOK /\ [Next]_vars => (TypeOK /\ ThreadOK)'
  BY NextTypeThread
<1> QED
  BY <1>1, <1>2, PTL DEF Spec

-----------------------------------------------------------------------------
(* PDOLock: whoever is at a place that holds it is its one holder. *)
LEMMA InitLock == Init => LockOK
  BY RequestPathAssumption DEF Init, LockOK, LockPlaces, Threads

LEMMA NextLock ==
  TypeOK /\ ThreadOK /\ LockOK /\ [Next]_vars => LockOK'
<1> SUFFICES ASSUME TypeOK, ThreadOK, LockOK, [Next]_vars
             PROVE  LockOK'
  OBVIOUS
<1> USE RequestPathAssumption
<1> USE DEF TypeOK, ThreadOK, LockOK, Threads, InPdo, LockPlaces,
        irpVars, pdoVars, requestVars, threadVars, serviceVars
<1>1. ASSUME UNCHANGED <<pdoLock, pc, at>>
      PROVE  LockOK'
  BY <1>1
<1>2. ASSUME NEW i \in Irps, Scsi(i) \/ BusStartPacket(i) \/ IoCancelIrp(i)
      PROVE  LockOK'
  <2>1. UNCHANGED <<pdoLock, pc, at>>
    BY <1>2 DEF Scsi, BusStartPacket, IoCancelIrp, Bus_Scsi, Bus_ScsiDeleted, QueuePacket,
       QueueCancelledPacket, StartPacket, CancelQueued, Bus_CancelIrp, CancelInHand
  <2> QED
    BY <1>1, <2>1
<1>3. ASSUME NEW p \in Pdos, RemovePdo(p) \/ DestroyPdo(p) \/ RemoveDiskFinal(p)
                             \/ SendReplyRefused(p)
      PROVE  LockOK'
  <2>1. UNCHANGED <<pdoLock, pc, at>>
    BY <1>3 DEF RemovePdo, DestroyPdo, DestroyCurrentIrp, DestroyNoIrp, DrainIrp,
       DeletePdo, RemoveDiskFinal, SendReplyRefused
  <2> QED
    BY <1>1, <2>1
<1>4. ASSUME NEW r \in Reqs, GetRequest(r)
      PROVE  LockOK'
  BY <1>4 DEF GetRequest, Listed
<1>5. ASSUME NEW r \in Reqs, NEW p \in Pdos, WalkTo(r, p)
      PROVE  LockOK'
  BY <1>5 DEF WalkTo, Listed
<1>6. ASSUME NEW r \in Reqs, WalkDone(r)
      PROVE  LockOK'
  BY <1>6 DEF WalkDone, Listed
<1>7. ASSUME NEW r \in Reqs, ProcessRequest(r)
      PROVE  LockOK'
  BY <1>7 DEF ProcessRequest
<1>8. ASSUME NEW t \in Threads, NothingToStart(t)
      PROVE  LockOK'
  BY <1>8 DEF NothingToStart, AfterStartNext
<1>9. ASSUME NEW t \in Threads, TakeRequest(t)
      PROVE  LockOK'
  BY <1>9 DEF TakeRequest
<1>10. ASSUME NEW t \in Threads, PutBackRequest(t)
      PROVE  LockOK'
  BY <1>10 DEF PutBackRequest, AfterStartNext
<1>11. ASSUME NEW t \in Threads, TakeQueuedIrp(t)
      PROVE  LockOK'
  BY <1>11 DEF TakeQueuedIrp
<1>12. ASSUME NEW t \in Threads, StartTakenIrp(t)
      PROVE  LockOK'
  BY <1>12 DEF StartTakenIrp, HandOver, AfterStartNext
<1>13. ASSUME NEW p \in Pdos, SendReply(p)
      PROVE  LockOK'
  BY <1>13 DEF SendReply, Listed
<1>14. ASSUME NEW p \in Pdos, ReplyWithoutIrp(p)
      PROVE  LockOK'
  BY <1>14 DEF ReplyWithoutIrp
<1>15. ASSUME NEW p \in Pdos, TakeCurrentIrp(p)
      PROVE  LockOK'
  BY <1>15 DEF TakeCurrentIrp
<1>16. ASSUME NEW p \in Pdos, FinishReply(p)
      PROVE  LockOK'
  BY <1>16 DEF FinishReply, Complete
<1>17. CASE UNCHANGED vars
  BY <1>17 DEF vars
<1> HIDE DEF TypeOK, ThreadOK, LockOK
<1> QED
  BY <1>2, <1>3, <1>4, <1>5, <1>6, <1>7, <1>8, <1>9, <1>10, <1>11, <1>12, <1>13, <1>14, <1>15, <1>16, <1>17
  DEF Next, Walk, BusStartNextPacket, Worker

-----------------------------------------------------------------------------
(* Which steps change what: every other step leaves it alone.              *)
LEMMA QueueSteps ==
  ASSUME [Next]_vars
  PROVE  \/ UNCHANGED irpQueue
         \/ \E i \in Irps : QueuePacket(i) \/ CancelQueued(i)
         \/ \E t \in Threads : TakeQueuedIrp(t)
         \/ \E p \in Pdos : DrainIrp(p)
<1> USE DEF irpVars, pdoVars, requestVars, threadVars, serviceVars
<1> DEFINE Goal == \/ UNCHANGED irpQueue
                   \/ \E i \in Irps : QueuePacket(i) \/ CancelQueued(i)
                   \/ \E t \in Threads : TakeQueuedIrp(t)
                   \/ \E p \in Pdos : DrainIrp(p)
<1>1. ASSUME NEW i \in Irps, Scsi(i) \/ BusStartPacket(i) \/ IoCancelIrp(i)
      PROVE  Goal
  BY <1>1 DEF Scsi, BusStartPacket, IoCancelIrp,
     Bus_Scsi, Bus_ScsiDeleted, QueueCancelledPacket, StartPacket, Bus_CancelIrp,
     CancelInHand
<1>2. ASSUME NEW r \in Reqs, GetRequest(r) \/ Walk(r) \/ ProcessRequest(r)
      PROVE  Goal
  BY <1>2 DEF Walk, GetRequest, WalkTo, WalkDone, ProcessRequest
<1>3. ASSUME NEW t \in Threads, BusStartNextPacket(t)
      PROVE  Goal
  BY <1>3 DEF BusStartNextPacket,
     NothingToStart, TakeRequest, PutBackRequest, StartTakenIrp
<1>4. ASSUME NEW p \in Pdos, Worker(p) \/ RemovePdo(p) \/ DestroyPdo(p)
      PROVE  Goal
  BY <1>4 DEF Worker, DestroyPdo,
     SendReply, SendReplyRefused, ReplyWithoutIrp, TakeCurrentIrp, FinishReply,
     RemoveDiskFinal, RemovePdo, DestroyCurrentIrp, DestroyNoIrp, DeletePdo
<1>5. ASSUME UNCHANGED vars
      PROVE  Goal
  BY <1>5 DEF vars
<1> HIDE DEF Goal
<1>6. Goal
  BY <1>1, <1>2, <1>3, <1>4, <1>5 DEF Next
<1> QED
  BY <1>6 DEF Goal

LEMMA CurrentSteps ==
  ASSUME [Next]_vars
  PROVE  \/ UNCHANGED currentIrp
         \/ \E i \in Irps : StartPacket(i)
         \/ \E t \in Threads : StartTakenIrp(t)
         \/ \E p \in Pdos : TakeCurrentIrp(p) \/ DestroyCurrentIrp(p)
<1> USE DEF irpVars, pdoVars, requestVars, threadVars, serviceVars
<1> DEFINE Goal == \/ UNCHANGED currentIrp
                   \/ \E i \in Irps : StartPacket(i)
                   \/ \E t \in Threads : StartTakenIrp(t)
                   \/ \E p \in Pdos : TakeCurrentIrp(p) \/ DestroyCurrentIrp(p)
<1>1. ASSUME NEW i \in Irps, Scsi(i) \/ BusStartPacket(i) \/ IoCancelIrp(i)
      PROVE  Goal
  BY <1>1 DEF Scsi, BusStartPacket, IoCancelIrp,
     Bus_Scsi, Bus_ScsiDeleted, QueuePacket, QueueCancelledPacket, CancelQueued,
     Bus_CancelIrp, CancelInHand
<1>2. ASSUME NEW r \in Reqs, GetRequest(r) \/ Walk(r) \/ ProcessRequest(r)
      PROVE  Goal
  BY <1>2 DEF Walk, GetRequest, WalkTo, WalkDone, ProcessRequest
<1>3. ASSUME NEW t \in Threads, BusStartNextPacket(t)
      PROVE  Goal
  BY <1>3 DEF BusStartNextPacket,
     NothingToStart, TakeRequest, PutBackRequest, TakeQueuedIrp
<1>4. ASSUME NEW p \in Pdos, Worker(p) \/ RemovePdo(p) \/ DestroyPdo(p)
      PROVE  Goal
  BY <1>4 DEF Worker, DestroyPdo,
     SendReply, SendReplyRefused, ReplyWithoutIrp, FinishReply, RemoveDiskFinal,
     RemovePdo, DestroyNoIrp, DrainIrp, DeletePdo
<1>5. ASSUME UNCHANGED vars
      PROVE  Goal
  BY <1>5 DEF vars
<1> HIDE DEF Goal
<1>6. Goal
  BY <1>1, <1>2, <1>3, <1>4, <1>5 DEF Next
<1> QED
  BY <1>6 DEF Goal

LEMMA HeldSteps ==
  ASSUME [Next]_vars
  PROVE  \/ UNCHANGED <<held, at>>
         \/ \E t \in Threads : NothingToStart(t) \/ PutBackRequest(t) \/ TakeQueuedIrp(t) \/ StartTakenIrp(t)
         \/ \E p \in Pdos : SendReply(p) \/ ReplyWithoutIrp(p) \/ TakeCurrentIrp(p) \/ FinishReply(p)
         \/ \E r \in Reqs, p \in Pdos : WalkTo(r, p)
<1> USE DEF irpVars, pdoVars, requestVars, threadVars, serviceVars
<1> DEFINE Goal == \/ UNCHANGED <<held, at>>
                   \/ \E t \in Threads : NothingToStart(t) \/ PutBackRequest(t) \/ TakeQueuedIrp(t) \/ StartTakenIrp(t)
                   \/ \E p \in Pdos : SendReply(p) \/ ReplyWithoutIrp(p) \/ TakeCurrentIrp(p) \/ FinishReply(p)
                   \/ \E r \in Reqs, p \in Pdos : WalkTo(r, p)
<1>1. ASSUME NEW i \in Irps, Scsi(i) \/ BusStartPacket(i) \/ IoCancelIrp(i)
      PROVE  Goal
  BY <1>1 DEF Scsi, BusStartPacket, IoCancelIrp,
     Bus_Scsi, Bus_ScsiDeleted, QueuePacket, QueueCancelledPacket, StartPacket,
     CancelQueued, Bus_CancelIrp, CancelInHand
<1>2. ASSUME NEW r \in Reqs, GetRequest(r) \/ Walk(r) \/ ProcessRequest(r)
      PROVE  Goal
  BY <1>2 DEF Walk, GetRequest, WalkDone, ProcessRequest
<1>3. ASSUME NEW t \in Threads, BusStartNextPacket(t)
      PROVE  Goal
  BY <1>3 DEF BusStartNextPacket,
     TakeRequest
<1>4. ASSUME NEW p \in Pdos, Worker(p) \/ RemovePdo(p) \/ DestroyPdo(p)
      PROVE  Goal
  BY <1>4 DEF Worker, DestroyPdo,
     SendReplyRefused, RemoveDiskFinal, RemovePdo, DestroyCurrentIrp, DestroyNoIrp,
     DrainIrp, DeletePdo
<1>5. ASSUME UNCHANGED vars
      PROVE  Goal
  BY <1>5 DEF vars
<1> HIDE DEF Goal
<1>6. Goal
  BY <1>1, <1>2, <1>3, <1>4, <1>5 DEF Next
<1> QED
  BY <1>6 DEF Goal

LEMMA WorkerSteps ==
  ASSUME [Next]_vars
  PROVE  \/ UNCHANGED <<slot, replying>>
         \/ \E r \in Reqs : ProcessRequest(r)
         \/ \E p \in Pdos : SendReply(p) \/ SendReplyRefused(p) \/ ReplyWithoutIrp(p) \/ FinishReply(p)
<1> USE DEF irpVars, pdoVars, requestVars, threadVars, serviceVars
<1> DEFINE Goal == \/ UNCHANGED <<slot, replying>>
                   \/ \E r \in Reqs : ProcessRequest(r)
                   \/ \E p \in Pdos : SendReply(p) \/ SendReplyRefused(p) \/ ReplyWithoutIrp(p) \/ FinishReply(p)
<1>1. ASSUME NEW i \in Irps, Scsi(i) \/ BusStartPacket(i) \/ IoCancelIrp(i)
      PROVE  Goal
  BY <1>1 DEF Scsi, BusStartPacket, IoCancelIrp,
     Bus_Scsi, Bus_ScsiDeleted, QueuePacket, QueueCancelledPacket, StartPacket,
     CancelQueued, Bus_CancelIrp, CancelInHand
<1>2. ASSUME NEW r \in Reqs, GetRequest(r) \/ Walk(r) \/ ProcessRequest(r)
      PROVE  Goal
  BY <1>2 DEF Walk, GetRequest, WalkTo, WalkDone
<1>3. ASSUME NEW t \in Threads, BusStartNextPacket(t)
      PROVE  Goal
  BY <1>3 DEF BusStartNextPacket,
     NothingToStart, TakeRequest, PutBackRequest, TakeQueuedIrp, StartTakenIrp
<1>4. ASSUME NEW p \in Pdos, Worker(p) \/ RemovePdo(p) \/ DestroyPdo(p)
      PROVE  Goal
  BY <1>4 DEF Worker, DestroyPdo,
     TakeCurrentIrp, RemoveDiskFinal, RemovePdo, DestroyCurrentIrp, DestroyNoIrp,
     DrainIrp, DeletePdo
<1>5. ASSUME UNCHANGED vars
      PROVE  Goal
  BY <1>5 DEF vars
<1> HIDE DEF Goal
<1>6. Goal
  BY <1>1, <1>2, <1>3, <1>4, <1>5 DEF Next
<1> QED
  BY <1>6 DEF Goal

-----------------------------------------------------------------------------
(* An IRP is only found at the PDO it was sent to.                         *)
LEMMA InitTarget == Init => TargetOK
  BY RequestPathAssumption DEF Init, TargetOK, QueueTarget, CurrentTarget, HeldTarget,
     WorkerTarget, Threads

LEMMA NextQueueTarget ==
  ASSUME TypeOK, ThreadOK, QueueTarget, [Next]_vars
  PROVE  QueueTarget'
<1> USE RequestPathAssumption DEF TypeOK, QueueTarget
<1>1. CASE UNCHANGED irpQueue
  BY <1>1
<1>2. ASSUME NEW i \in Irps, QueuePacket(i)
      PROVE  QueueTarget'
  <2> DEFINE q == Target[i]
  <2>1. irpQueue' = [irpQueue EXCEPT ![q] = Append(irpQueue[q], i)]
    BY <1>2 DEF QueuePacket
  <2>2. \A k \in DOMAIN Append(irpQueue[q], i) : Target[Append(irpQueue[q], i)[k]] = q
    BY AppendElements
  <2> QED
    BY <2>1, <2>2
<1>3. ASSUME NEW i \in Irps, CancelQueued(i)
      PROVE  QueueTarget'
  <2> DEFINE q == Target[i]
  <2>1. PICK k \in DOMAIN irpQueue[q] :
          irpQueue' = [irpQueue EXCEPT ![q] = RemoveAt(irpQueue[q], k)]
    BY <1>3 DEF CancelQueued
  <2>2. \A m \in DOMAIN RemoveAt(irpQueue[q], k) : Target[RemoveAt(irpQueue[q], k)[m]] = q
    BY RemoveAtElements
  <2> QED
    BY <2>1, <2>2
<1>4. ASSUME NEW t \in Threads, TakeQueuedIrp(t)
      PROVE  QueueTarget'
  <2> DEFINE q == at[t]
  <2>1. /\ q \in Pdos /\ irpQueue[q] # <<>>
        /\ irpQueue' = [irpQueue EXCEPT ![q] = Tail(irpQueue[q])]
    BY <1>4 DEF TakeQueuedIrp, ThreadOK, InPdo
  <2>2. \A m \in DOMAIN Tail(irpQueue[q]) : Target[Tail(irpQueue[q])[m]] = q
    BY <2>1, TailElements
  <2> QED
    BY <2>1, <2>2
<1>5. ASSUME NEW q \in Pdos, DrainIrp(q)
      PROVE  QueueTarget'
  <2>1. irpQueue[q] # <<>> /\ irpQueue' = [irpQueue EXCEPT ![q] = Tail(irpQueue[q])]
    BY <1>5 DEF DrainIrp
  <2>2. \A m \in DOMAIN Tail(irpQueue[q]) : Target[Tail(irpQueue[q])[m]] = q
    BY <2>1, TailElements
  <2> QED
    BY <2>1, <2>2
<1> HIDE DEF TypeOK, QueueTarget
<1> QED
  BY <1>1, <1>2, <1>3, <1>4, <1>5, QueueSteps

LEMMA NextCurrentTarget ==
  ASSUME TypeOK, ThreadOK, CurrentTarget, HeldTarget, [Next]_vars
  PROVE  CurrentTarget'
<1> USE RequestPathAssumption DEF TypeOK, CurrentTarget, HandOver
<1>1. CASE UNCHANGED currentIrp
  BY <1>1
<1>2. ASSUME NEW i \in Irps, StartPacket(i)
      PROVE  CurrentTarget'
  BY <1>2 DEF StartPacket
<1>3. ASSUME NEW t \in Threads, StartTakenIrp(t)
      PROVE  CurrentTarget'
  BY <1>3 DEF StartTakenIrp, HeldTarget, ThreadOK, InPdo
<1>4. ASSUME NEW p \in Pdos, TakeCurrentIrp(p)
      PROVE  CurrentTarget'
  BY <1>4 DEF TakeCurrentIrp
<1>5. ASSUME NEW p \in Pdos, DestroyCurrentIrp(p)
      PROVE  CurrentTarget'
  BY <1>5 DEF DestroyCurrentIrp
<1> HIDE DEF TypeOK, CurrentTarget
<1> QED
  BY <1>1, <1>2, <1>3, <1>4, <1>5, CurrentSteps

LEMMA NextHeldTarget ==
  ASSUME TypeOK, ThreadOK, QueueTarget, CurrentTarget, HeldTarget, [Next]_vars
  PROVE  HeldTarget'
<1> USE RequestPathAssumption DEF TypeOK, ThreadOK, InPdo, HeldTarget, Threads
<1>1. CASE UNCHANGED <<held, at>>
  BY <1>1
<1>2. ASSUME NEW t \in Threads, NothingToStart(t)
      PROVE  HeldTarget'
  BY <1>2 DEF NothingToStart
<1>8. ASSUME NEW t \in Threads, PutBackRequest(t)
      PROVE  HeldTarget'
  BY <1>8 DEF PutBackRequest
<1>3. ASSUME NEW t \in Threads, TakeQueuedIrp(t)
      PROVE  HeldTarget'
  <2>1. Target[Head(irpQueue[at[t]])] = at[t]
    BY <1>3, TailElements DEF TakeQueuedIrp, QueueTarget
  <2> QED
    BY <1>3, <2>1 DEF TakeQueuedIrp
<1>4. ASSUME NEW t \in Threads, StartTakenIrp(t)
      PROVE  HeldTarget'
  BY <1>4 DEF StartTakenIrp
<1>5. ASSUME NEW p \in Pdos, SendReply(p) \/ ReplyWithoutIrp(p) \/ FinishReply(p)
      PROVE  HeldTarget'
  BY <1>5 DEF SendReply, ReplyWithoutIrp, FinishReply
<1>6. ASSUME NEW p \in Pdos, TakeCurrentIrp(p)
      PROVE  HeldTarget'
  BY <1>6 DEF TakeCurrentIrp, CurrentTarget
<1>7. ASSUME NEW r \in Reqs, NEW p \in Pdos, WalkTo(r, p)
      PROVE  HeldTarget'
  BY <1>7 DEF WalkTo
<1> HIDE DEF TypeOK, ThreadOK, InPdo, HeldTarget, Threads
<1> QED
  BY <1>1, <1>2, <1>3, <1>4, <1>5, <1>6, <1>7, <1>8, HeldSteps

LEMMA NextWorkerTarget ==
  ASSUME TypeOK, WorkerTarget, [Next]_vars
  PROVE  WorkerTarget'
<1> USE RequestPathAssumption DEF TypeOK, WorkerTarget
<1>1. CASE UNCHANGED <<slot, replying>>
  BY <1>1
<1>2. ASSUME NEW r \in Reqs, ProcessRequest(r)
      PROVE  WorkerTarget'
  BY <1>2 DEF ProcessRequest
<1>3. ASSUME NEW p \in Pdos, SendReply(p)
      PROVE  WorkerTarget'
  BY <1>3 DEF SendReply
<1>4. ASSUME NEW p \in Pdos, SendReplyRefused(p)
      PROVE  WorkerTarget'
  BY <1>4 DEF SendReplyRefused
<1>5. ASSUME NEW p \in Pdos, ReplyWithoutIrp(p) \/ FinishReply(p)
      PROVE  WorkerTarget'
  <2>1. slot' = slot /\ replying' = [replying EXCEPT ![p] = None]
    BY <1>5 DEF ReplyWithoutIrp, FinishReply
  <2> QED
    BY <2>1
<1> HIDE DEF TypeOK, WorkerTarget
<1> QED
  BY <1>1, <1>2, <1>3, <1>4, <1>5, WorkerSteps

LEMMA NextTarget ==
  TypeOK /\ ThreadOK /\ TargetOK /\ [Next]_vars => TargetOK'
  BY NextQueueTarget, NextCurrentTarget, NextHeldTarget, NextWorkerTarget DEF TargetOK

-----------------------------------------------------------------------------
(* While a thread is between two accesses under PDOLock, no IRP of that    *)
(* PDO is started.                                                         *)
LEMMA NextIdleWhileStarting ==
  ASSUME TypeOK, ThreadOK, LockOK, HeldTarget, IdleWhileStarting, [Next]_vars
  PROVE  IdleWhileStarting'
<1> USE RequestPathAssumption
<1> USE DEF TypeOK, ThreadOK, LockOK, IdleWhileStarting, Threads, InPdo, LockPlaces,
        irpVars, pdoVars, requestVars, threadVars, serviceVars
<1>1. ASSUME UNCHANGED <<currentIrp, pc, at>>
      PROVE  IdleWhileStarting'
  BY <1>1
<1>2. ASSUME NEW i \in Irps, Scsi(i) \/ BusStartPacket(i) \/ IoCancelIrp(i)
      PROVE  IdleWhileStarting'
  <2>1. CASE UNCHANGED <<currentIrp, pc, at>>
    BY <1>1, <2>1
  <2>2. CASE StartPacket(i)
    BY <2>2 DEF StartPacket, HandOver
  <2> QED
    BY <1>2, <2>1, <2>2 DEF Scsi, BusStartPacket, IoCancelIrp, Bus_Scsi, Bus_ScsiDeleted,
       QueuePacket, QueueCancelledPacket, CancelQueued, Bus_CancelIrp, CancelInHand
<1>3. ASSUME NEW p \in Pdos, RemovePdo(p) \/ DestroyPdo(p) \/ RemoveDiskFinal(p)
                             \/ SendReplyRefused(p)
      PROVE  IdleWhileStarting'
  <2>1. CASE UNCHANGED <<currentIrp, pc, at>>
    BY <1>1, <2>1
  <2>2. CASE DestroyCurrentIrp(p)
    BY <2>2 DEF DestroyCurrentIrp
  <2> QED
    BY <1>3, <2>1, <2>2 DEF RemovePdo, DestroyPdo, DestroyNoIrp, DrainIrp, DeletePdo,
       RemoveDiskFinal, SendReplyRefused
<1>4. ASSUME NEW r \in Reqs, GetRequest(r)
      PROVE  IdleWhileStarting'
  BY <1>4 DEF GetRequest
<1>5. ASSUME NEW r \in Reqs, NEW p \in Pdos, WalkTo(r, p)
      PROVE  IdleWhileStarting'
  BY <1>5 DEF WalkTo
<1>6. ASSUME NEW r \in Reqs, WalkDone(r)
      PROVE  IdleWhileStarting'
  BY <1>6 DEF WalkDone
<1>7. ASSUME NEW r \in Reqs, ProcessRequest(r)
      PROVE  IdleWhileStarting'
  BY <1>7 DEF ProcessRequest
<1>8. ASSUME NEW t \in Threads, NothingToStart(t)
      PROVE  IdleWhileStarting'
  BY <1>8 DEF NothingToStart, AfterStartNext
<1>9. ASSUME NEW t \in Threads, TakeRequest(t)
      PROVE  IdleWhileStarting'
  BY <1>9 DEF TakeRequest
<1>10. ASSUME NEW t \in Threads, PutBackRequest(t)
      PROVE  IdleWhileStarting'
  BY <1>10 DEF PutBackRequest, AfterStartNext
<1>11. ASSUME NEW t \in Threads, TakeQueuedIrp(t)
      PROVE  IdleWhileStarting'
  BY <1>11 DEF TakeQueuedIrp
<1>12. ASSUME NEW t \in Threads, StartTakenIrp(t)
      PROVE  IdleWhileStarting'
  BY <1>12 DEF StartTakenIrp, HandOver, AfterStartNext, HeldTarget
<1>13. ASSUME NEW p \in Pdos, SendReply(p)
      PROVE  IdleWhileStarting'
  BY <1>13 DEF SendReply
<1>14. ASSUME NEW p \in Pdos, ReplyWithoutIrp(p)
      PROVE  IdleWhileStarting'
  BY <1>14 DEF ReplyWithoutIrp
<1>15. ASSUME NEW p \in Pdos, TakeCurrentIrp(p)
      PROVE  IdleWhileStarting'
  BY <1>15 DEF TakeCurrentIrp
<1>16. ASSUME NEW p \in Pdos, FinishReply(p)
      PROVE  IdleWhileStarting'
  BY <1>16 DEF FinishReply
<1>17. CASE UNCHANGED vars
  BY <1>17 DEF vars
<1> HIDE DEF TypeOK, ThreadOK, LockOK, IdleWhileStarting
<1> QED
  BY <1>2, <1>3, <1>4, <1>5, <1>6, <1>7, <1>8, <1>9, <1>10, <1>11, <1>12, <1>13, <1>14, <1>15, <1>16, <1>17
  DEF Next, Walk, BusStartNextPacket, Worker

(* What the requests the service has depend on, and who changes it.        *)
SameService ==
  /\ UNCHANGED <<currentIrp, carried, slot, replying>>
  /\ \A p \in Pdos : pc'[p] = "found" <=> pc[p] = "found"
  /\ \A p \in Pdos : pnp'[p] = "live" => pnp[p] = "live"

LEMMA ServiceSteps ==
  ASSUME TypeOK, ThreadOK, [Next]_vars
  PROVE  \/ SameService
         \/ \E i \in Irps : StartPacket(i)
         \/ \E r \in Reqs : ProcessRequest(r)
         \/ \E t \in Threads : StartTakenIrp(t)
         \/ \E p \in Pdos : \/ SendReply(p) \/ SendReplyRefused(p) \/ ReplyWithoutIrp(p)
                            \/ TakeCurrentIrp(p) \/ FinishReply(p) \/ DestroyCurrentIrp(p)
<1> USE RequestPathAssumption
<1> USE DEF irpVars, pdoVars, requestVars, threadVars, serviceVars, Threads
<1>1. ASSUME NEW i \in Irps, Scsi(i) \/ BusStartPacket(i) \/ IoCancelIrp(i)
      PROVE  SameService \/ StartPacket(i)
  BY <1>1 DEF Scsi, BusStartPacket, IoCancelIrp, Bus_Scsi, Bus_ScsiDeleted, QueuePacket,
     QueueCancelledPacket, CancelQueued, Bus_CancelIrp, CancelInHand, SameService
<1>2. ASSUME NEW r \in Reqs, GetRequest(r) \/ Walk(r)
      PROVE  SameService
  BY <1>2 DEF GetRequest, Walk, WalkTo, WalkDone, SameService, TypeOK
<1>3. ASSUME NEW t \in Threads, NothingToStart(t)
      PROVE  SameService
  BY <1>3 DEF NothingToStart, SameService, TypeOK, AfterStartNext
<1>4. ASSUME NEW t \in Threads, TakeRequest(t)
      PROVE  SameService
  BY <1>4 DEF TakeRequest, SameService, TypeOK
<1>5. ASSUME NEW t \in Threads, PutBackRequest(t)
      PROVE  SameService
  BY <1>5 DEF PutBackRequest, SameService, TypeOK, AfterStartNext
<1>6. ASSUME NEW t \in Threads, TakeQueuedIrp(t)
      PROVE  SameService
  BY <1>6 DEF TakeQueuedIrp, SameService, TypeOK
<1>7. ASSUME NEW p \in Pdos, RemovePdo(p) \/ RemoveDiskFinal(p) \/ DestroyNoIrp(p)
                             \/ DrainIrp(p) \/ DeletePdo(p)
      PROVE  SameService
  BY <1>7 DEF RemovePdo, RemoveDiskFinal, DestroyNoIrp, DrainIrp, DeletePdo, SameService,
     TypeOK
<1>8. ASSUME UNCHANGED vars
      PROVE  SameService
  BY <1>8 DEF vars, SameService
<1> QED
  BY <1>1, <1>2, <1>3, <1>4, <1>5, <1>6, <1>7, <1>8
  DEF Next, BusStartNextPacket, Worker, DestroyPdo

(* What InServiceIsCurrent says of one disk. *)
DiskService(p) ==
  pnp[p] = "live" =>
    /\ \A r \in Reqs : carried[r] # None /\ Target[carried[r]] = p =>
         /\ carried[r] = currentIrp[p]
         /\ slot[p] = None
         /\ pc[p] # "found"
         /\ \A s \in Reqs : carried[s] = carried[r] => s = r
    /\ slot[p] # None => slot[p] = currentIrp[p] /\ pc[p] # "found"
    /\ pc[p] = "found" => replying[p] = currentIrp[p]

LEMMA ServiceByDisk ==
  ASSUME TypeOK, ThreadOK, WorkerTarget
  PROVE  InServiceIsCurrent <=> \A p \in Pdos : DiskService(p)
<1> USE RequestPathAssumption
<1>1. ASSUME InServiceIsCurrent, NEW p \in Pdos, pnp[p] = "live"
      PROVE  DiskService(p)
  <2>1. ASSUME NEW r \in Reqs, carried[r] # None, Target[carried[r]] = p
        PROVE  /\ carried[r] = currentIrp[p]
               /\ slot[p] = None
               /\ pc[p] # "found"
               /\ \A s \in Reqs : carried[s] = carried[r] => s = r
    <3>0. carried[r] \in Irps /\ CarriedBy(r, carried[r])
      BY <2>1 DEF TypeOK, CarriedBy
    <3>1. /\ carried[r] \in Irps
          /\ currentIrp[p] = carried[r]
          /\ slot[p] = None
          /\ ~ BeingReplied(carried[r])
          /\ \A s \in Reqs : carried[s] = carried[r] => s = r
      <4>1. InService(carried[r])
        BY <3>0 DEF InService
      <4>2. /\ currentIrp[p] = carried[r]
            /\ \A x \in Reqs : CarriedBy(x, carried[r]) =>
                 /\ slot[p] = None
                 /\ ~ BeingReplied(carried[r])
                 /\ \A s \in Reqs : CarriedBy(s, carried[r]) => s = x
        BY <1>1, <2>1, <3>0, <4>1 DEF InServiceIsCurrent
      <4> QED
        BY <3>0, <4>2 DEF CarriedBy
    <3>2. ASSUME pc[p] = "found" PROVE FALSE
      <4>1. replying[p] \in Irps /\ Target[replying[p]] = p
        BY <3>2 DEF TypeOK, ThreadOK, WorkerTarget
      <4>2. currentIrp[p] = replying[p]
        BY <1>1, <3>2, <4>1 DEF InServiceIsCurrent, InService, BeingReplied
      <4> QED
        BY <2>1, <3>1, <3>2, <4>2 DEF BeingReplied
    <3> QED
      BY <3>1, <3>2
  <2>2. ASSUME slot[p] # None
        PROVE  slot[p] = currentIrp[p] /\ pc[p] # "found"
    <3>1. slot[p] \in Irps /\ Target[slot[p]] = p /\ WithWorker(slot[p])
      BY <2>2 DEF TypeOK, WorkerTarget, WithWorker
    <3>2. currentIrp[p] = slot[p] /\ ~ BeingReplied(slot[p])
      BY <1>1, <3>1 DEF InServiceIsCurrent, InService
    <3>3. ASSUME pc[p] = "found" PROVE FALSE
      <4>1. replying[p] \in Irps /\ Target[replying[p]] = p
        BY <3>3 DEF TypeOK, ThreadOK, WorkerTarget
      <4>2. currentIrp[p] = replying[p]
        BY <1>1, <3>3, <4>1 DEF InServiceIsCurrent, InService, BeingReplied
      <4> QED
        BY <3>1, <3>2, <3>3, <4>2 DEF BeingReplied
    <3> QED
      BY <3>2, <3>3
  <2>3. ASSUME pc[p] = "found"
        PROVE  replying[p] = currentIrp[p]
    <3>1. replying[p] \in Irps /\ Target[replying[p]] = p
      BY <2>3 DEF TypeOK, ThreadOK, WorkerTarget
    <3> QED
      BY <1>1, <2>3, <3>1 DEF InServiceIsCurrent, InService, BeingReplied
  <2> QED
    BY <2>1, <2>2, <2>3 DEF DiskService
<1>2. ASSUME \A p \in Pdos : DiskService(p),
             NEW i \in Irps, pnp[Target[i]] = "live", InService(i)
      PROVE  /\ currentIrp[Target[i]] = i
             /\ \A r \in Reqs : CarriedBy(r, i) =>
                  /\ slot[Target[i]] = None
                  /\ ~ BeingReplied(i)
                  /\ \A s \in Reqs : CarriedBy(s, i) => s = r
             /\ ~ (WithWorker(i) /\ BeingReplied(i))
  <2>1. Target[i] \in Pdos /\ DiskService(Target[i]) /\ i # None
    BY <1>2
  <2> QED
    BY <1>2, <2>1 DEF DiskService, InService, CarriedBy, WithWorker, BeingReplied
<1>3. ASSUME NEW p \in Pdos, pnp[p] # "live"
      PROVE  DiskService(p)
  BY <1>3 DEF DiskService
<1> QED
  BY <1>1, <1>2, <1>3 DEF InServiceIsCurrent

LEMMA NextDiskService ==
  ASSUME TypeOK, ThreadOK, LockOK, TargetOK, IdleWhileStarting,
         \A p \in Pdos : DiskService(p), [Next]_vars
  PROVE  \A p \in Pdos : DiskService(p)'
<1> USE RequestPathAssumption
<1> USE DEF TypeOK, ThreadOK, Threads, DiskService
<1>1. CASE SameService
  BY <1>1 DEF SameService
<1>2. ASSUME NEW i \in Irps, StartPacket(i), NEW p \in Pdos
      PROVE  DiskService(p)'
  <2>1. /\ Head(requestQueue) \in Reqs
        /\ carried' = [carried EXCEPT ![Head(requestQueue)] = i]
        /\ currentIrp' = [currentIrp EXCEPT ![Target[i]] = i]
        /\ currentIrp[Target[i]] = None
        /\ UNCHANGED <<slot, replying, pc, pnp>>
    BY <1>2, HeadTailProperties DEF StartPacket, HandOver, serviceVars, threadVars
  <2> QED
    BY <2>1
<1>3. ASSUME NEW t \in Threads, StartTakenIrp(t), NEW p \in Pdos
      PROVE  DiskService(p)'
  <2> DEFINE r == rqIrp[t]
             i == held[t]
  <2>1. r \in Reqs /\ i \in Irps /\ Target[i] = at[t] /\ at[t] \in Pdos
    BY <1>3 DEF StartTakenIrp, TargetOK, HeldTarget, InPdo
  <2>2. /\ carried' = [carried EXCEPT ![r] = i]
        /\ currentIrp' = [currentIrp EXCEPT ![Target[i]] = i]
        /\ currentIrp[Target[i]] = None
        /\ UNCHANGED <<slot, replying, pnp>>
    BY <1>3, <2>1 DEF StartTakenIrp, HandOver, IdleWhileStarting, LockPlaces, serviceVars
  <2>3. pc[p] = "found" <=> pc'[p] = "found"
    BY <1>3 DEF StartTakenIrp, AfterStartNext
  <2> HIDE DEF r, i
  <2> QED
    BY <2>1, <2>2, <2>3
<1>4. ASSUME NEW r \in Reqs, ProcessRequest(r), NEW p \in Pdos
      PROVE  DiskService(p)'
  <2> DEFINE i == carried[r]
  <2>1. /\ i \in Irps
        /\ carried' = [carried EXCEPT ![r] = None]
        /\ slot' = [slot EXCEPT ![Target[i]] = i] \/ slot' = slot
        /\ UNCHANGED <<currentIrp, replying, pc, pnp>>
    BY <1>4 DEF ProcessRequest, pdoVars, threadVars
  <2> QED
    BY <2>1
<1>5. ASSUME NEW q \in Pdos, SendReply(q), NEW p \in Pdos
      PROVE  DiskService(p)'
  BY <1>5 DEF SendReply, TargetOK, WorkerTarget, pdoVars, requestVars
<1>6. ASSUME NEW q \in Pdos, SendReplyRefused(q), NEW p \in Pdos
      PROVE  DiskService(p)'
  BY <1>6 DEF SendReplyRefused, pdoVars, requestVars, threadVars
<1>7. ASSUME NEW q \in Pdos, ReplyWithoutIrp(q), NEW p \in Pdos
      PROVE  DiskService(p)'
  BY <1>7 DEF ReplyWithoutIrp, pdoVars, requestVars
<1>8. ASSUME NEW q \in Pdos, TakeCurrentIrp(q), NEW p \in Pdos
      PROVE  DiskService(p)'
  BY <1>8 DEF TakeCurrentIrp, requestVars, serviceVars
<1>9. ASSUME NEW q \in Pdos, FinishReply(q), NEW p \in Pdos
      PROVE  DiskService(p)'
  BY <1>9 DEF FinishReply, requestVars
<1>10. ASSUME NEW q \in Pdos, DestroyCurrentIrp(q), NEW p \in Pdos
      PROVE  DiskService(p)'
  BY <1>10 DEF DestroyCurrentIrp, requestVars, serviceVars, threadVars
<1> HIDE DEF TypeOK, ThreadOK, DiskService
<1> QED
  BY <1>1, <1>2, <1>3, <1>4, <1>5, <1>6, <1>7, <1>8, <1>9, <1>10, ServiceSteps

-----------------------------------------------------------------------------
(* The layers together, without PlaceOK. *)
PathInv == TypeOK /\ ThreadOK /\ LockOK /\ TargetOK /\ ServiceOK

LEMMA InitPathInv == Init => PathInv
<1> SUFFICES ASSUME Init PROVE PathInv
  OBVIOUS
<1>1. TypeOK /\ ThreadOK /\ LockOK /\ TargetOK
  BY InitTypeThread, InitLock, InitTarget
<1>2. ServiceOK
  BY RequestPathAssumption
  DEF Init, ServiceOK, IdleWhileStarting, LockPlaces, InServiceIsCurrent, InService,
      CarriedBy, WithWorker, BeingReplied, Threads
<1> QED
  BY <1>1, <1>2 DEF PathInv

LEMMA ServiceByDiskNext ==
  (TypeOK /\ ThreadOK /\ WorkerTarget
     => (InServiceIsCurrent <=> \A p \in Pdos : DiskService(p)))'
<1>1. TypeOK /\ ThreadOK /\ WorkerTarget
        => (InServiceIsCurrent <=> \A p \in Pdos : DiskService(p))
  BY ServiceByDisk
<1> QED
  BY <1>1, PTL

LEMMA NextPathInv == PathInv /\ [Next]_vars => PathInv'
<1> SUFFICES ASSUME PathInv, [Next]_vars PROVE PathInv'
  OBVIOUS
<1>1. TypeOK /\ ThreadOK /\ LockOK /\ TargetOK /\ IdleWhileStarting
  BY DEF PathInv, ServiceOK
<1>2. TypeOK' /\ ThreadOK'
  BY <1>1, NextTypeThread
<1>3. LockOK'
  BY <1>1, NextLock
<1>4. TargetOK'
  BY <1>1, NextTarget
<1>5. IdleWhileStarting'
  BY <1>1, NextIdleWhileStarting DEF TargetOK
<1>6. \A p \in Pdos : DiskService(p)
  BY <1>1, ServiceByDisk DEF PathInv, ServiceOK, TargetOK
<1>7. \A p \in Pdos : DiskService(p)'
  BY <1>1, <1>6, NextDiskService
<1>8. TypeOK' /\ ThreadOK' /\ WorkerTarget' => (InServiceIsCurrent' <=> \A p \in Pdos : DiskService(p)')
  BY ServiceByDiskNext
<1>9. InServiceIsCurrent'
  BY <1>2, <1>4, <1>7, <1>8 DEF TargetOK
<1> QED
  BY <1>2, <1>3, <1>4, <1>5, <1>9 DEF PathInv, ServiceOK

LEMMA PathInvariant == Spec => []PathInv
  BY InitPathInv, NextPathInv, PTL DEF Spec

(* While a disk is not being removed, whatever request of it the service   *)
(* has is its CurrentIrp, and the service has that one once: a worker's    *)
(* m_req and buffer (disksrv.cpp:352) are never overwritten while in use.  *)
THEOREM ServiceCorrect == Spec => []InServiceIsCurrent
<1>1. PathInv => InServiceIsCurrent
  BY DEF PathInv, ServiceOK
<1> QED
  BY <1>1, PathInvariant, PTL

(* PDOLock is held by one thread at a time, and only between the accesses  *)
(* to the shared queue that Bus_ProcessReply and BusStartNextPacket make   *)
(* under it.                                                               *)
THEOREM MutualExclusion ==
  Spec => [](\A t, u \in Threads :
               pc[t] \in LockPlaces /\ pc[u] \in LockPlaces /\ at[t] = at[u] => t = u)
<1>1. PathInv => \A t, u \in Threads :
               pc[t] \in LockPlaces /\ pc[u] \in LockPlaces /\ at[t] = at[u] => t = u
  BY DEF PathInv, LockOK, ThreadOK, InPdo, LockPlaces
<1> QED
  BY <1>1, PathInvariant, PTL

(* A reply takes the IRP whose request it answers: Bus_ProcessReply uses   *)
(* CurrentIrp, not the request number of the reply (busenum.c:774-789).    *)
THEOREM ReplyCorrect == Spec => ReplyTakesItsIrp
<1> DEFINE Takes == \A p \in Pdos :
       pc[p] = "found" /\ pc'[p] = "taken" /\ pnp[p] = "live" =>
         held'[p] = replying[p]
<1>1. PathInv /\ [Next]_vars => Takes
  <2> SUFFICES ASSUME PathInv, [Next]_vars, NEW p \in Pdos,
                      pc[p] = "found", pc'[p] = "taken", pnp[p] = "live"
               PROVE  held'[p] = replying[p]
    BY DEF Takes
  <2> USE DEF Threads
  <2>1. held[p] = None /\ held'[p] # None
    BY NextTypeThread DEF PathInv, ThreadOK
  <2>2. /\ held \in [Threads -> Irps \cup {None}]
        /\ replying[p] = currentIrp[p]
    BY ServiceByDisk DEF PathInv, TypeOK, ThreadOK, InPdo, TargetOK, ServiceOK, DiskService
  <2>3. ASSUME NEW q \in Pdos, TakeCurrentIrp(q)
        PROVE  held'[p] = replying[p]
    <3>1. held' = [held EXCEPT ![q] = currentIrp[q]]
      BY <2>3 DEF TakeCurrentIrp
    <3> QED
      BY <2>1, <2>2, <3>1
  <2>4. ASSUME NEW t \in Threads,
               NothingToStart(t) \/ PutBackRequest(t) \/ TakeQueuedIrp(t) \/ StartTakenIrp(t)
        PROVE  FALSE
    BY <2>1, <2>2, <2>4 DEF NothingToStart, PutBackRequest, TakeQueuedIrp, StartTakenIrp
  <2>5. ASSUME NEW q \in Pdos, SendReply(q) \/ ReplyWithoutIrp(q) \/ FinishReply(q)
        PROVE  FALSE
    BY <2>1, <2>2, <2>5 DEF SendReply, ReplyWithoutIrp, FinishReply
  <2>6. ASSUME NEW r \in Reqs, NEW q \in Pdos, WalkTo(r, q)
        PROVE  FALSE
    BY <2>1, <2>2, <2>6 DEF WalkTo
  <2> QED
    BY <2>1, <2>3, <2>4, <2>5, <2>6, HeldSteps
<1> QED
  BY <1>1, PathInvariant, PTL DEF Spec, ReplyTakesItsIrp

-----------------------------------------------------------------------------
(* Where an IRP is.                                                        *)
SamePlaces ==
  UNCHANGED <<issued, dispatched, cancelFlag, cancelRoutine, completions, irpQueue,
              currentIrp, held>>

LEMMA PlaceSteps ==
  ASSUME [Next]_vars
  PROVE  \/ SamePlaces
         \/ \E i \in Irps : \/ Bus_Scsi(i) \/ Bus_ScsiDeleted(i) \/ QueuePacket(i)
                            \/ QueueCancelledPacket(i) \/ StartPacket(i)
                            \/ CancelQueued(i) \/ Bus_CancelIrp(i) \/ CancelInHand(i)
         \/ \E t \in Threads : TakeQueuedIrp(t) \/ StartTakenIrp(t)
         \/ \E p \in Pdos : \/ TakeCurrentIrp(p) \/ FinishReply(p)
                            \/ DestroyCurrentIrp(p) \/ DrainIrp(p)
<1> USE DEF irpVars, pdoVars, requestVars, threadVars, serviceVars, SamePlaces
<1>1. ASSUME NEW r \in Reqs, GetRequest(r) \/ Walk(r) \/ ProcessRequest(r)
      PROVE  SamePlaces
  BY <1>1 DEF Walk, GetRequest, WalkTo, WalkDone, ProcessRequest
<1>2. ASSUME NEW t \in Threads, NothingToStart(t) \/ TakeRequest(t) \/ PutBackRequest(t)
      PROVE  SamePlaces
  BY <1>2 DEF NothingToStart, TakeRequest, PutBackRequest
<1>3. ASSUME NEW p \in Pdos,
             \/ SendReply(p) \/ SendReplyRefused(p) \/ ReplyWithoutIrp(p)
             \/ RemoveDiskFinal(p) \/ RemovePdo(p) \/ DestroyNoIrp(p) \/ DeletePdo(p)
      PROVE  SamePlaces
  BY <1>3 DEF SendReply, SendReplyRefused, ReplyWithoutIrp, RemoveDiskFinal, RemovePdo,
     DestroyNoIrp, DeletePdo
<1>4. ASSUME UNCHANGED vars
      PROVE  SamePlaces
  BY <1>4 DEF vars
<1> HIDE DEF SamePlaces
<1> QED
  BY <1>1, <1>2, <1>3, <1>4
  DEF Next, Scsi, BusStartPacket, IoCancelIrp, BusStartNextPacket, Worker, DestroyPdo

(* An insertion at the tail of an IrpQueue, and a removal from it. *)
Inserted(i) == QueueInjective' /\ \A j \in Irps : Queued(j)' <=> Queued(j) \/ j = i
Removed(i) ==
  QueueInjective' /\ Queued(i) /\ \A j \in Irps : Queued(j)' <=> Queued(j) /\ j # i

LEMMA InsertIrp ==
  ASSUME TypeOK, QueueInjective, NEW i \in Irps, ~Queued(i), 
         irpQueue' = [irpQueue EXCEPT ![Target[i]] = Append(irpQueue[Target[i]], i)]
  PROVE  Inserted(i)
<1> USE RequestPathAssumption
<1> DEFINE p == Target[i]
           s == irpQueue[p]
<1>1. p \in Pdos /\ s \in Seq(Irps)
  BY DEF TypeOK
<1>2. /\ Len(s) \in Nat /\ DOMAIN s = 1..Len(s)
      /\ Append(s, i) \in Seq(Irps) /\ DOMAIN Append(s, i) = 1..(Len(s) + 1)
      /\ \A k \in 1..Len(s) : Append(s, i)[k] = s[k]
      /\ Append(s, i)[Len(s) + 1] = i
  BY <1>1, AppendProperties, LenProperties
<1>3. \A k \in DOMAIN s : s[k] # i
  BY DEF Queued, ToSet
<1>4. irpQueue' = [irpQueue EXCEPT ![p] = Append(s, i)]
  OBVIOUS
<1>5. \A q \in Pdos : irpQueue'[q] = IF q = p THEN Append(s, i) ELSE irpQueue[q]
  BY <1>1, <1>4 DEF TypeOK
<1>6. \A k, m \in DOMAIN s : s[k] = s[m] => k = m
  BY <1>1 DEF QueueInjective
<1> HIDE DEF s, p
<1>7. \A k, m \in DOMAIN Append(s, i) : Append(s, i)[k] = Append(s, i)[m] => k = m
  <2>1. i \notin ToSet(s) /\ IsInjective(s)
    BY <1>3, <1>6 DEF ToSet, IsInjective
  <2> QED
    BY <1>1, <2>1, AppendInjectiveList DEF IsInjective
<1>8. QueueInjective'
  <2> SUFFICES ASSUME NEW q \in Pdos
               PROVE  \A k, m \in DOMAIN irpQueue'[q] :
                        irpQueue'[q][k] = irpQueue'[q][m] => k = m
    BY DEF QueueInjective
  <2>1. CASE q = p
    <3>1. irpQueue'[q] = Append(s, i)
      BY <1>5, <2>1
    <3> QED
      BY <1>7, <3>1
  <2>2. CASE q # p
    <3>1. irpQueue'[q] = irpQueue[q]
      BY <1>5, <2>2
    <3> QED
      BY <3>1 DEF QueueInjective
  <2> QED
    BY <2>1, <2>2
<1>9. ToSet(Append(s, i)) = ToSet(s) \cup {i}
  BY <1>1, AppendInjectiveList
<1>10. \A j \in Irps : Queued(j)' <=> Queued(j) \/ j = i
  BY <1>1, <1>5, <1>9 DEF Queued, s, p
<1> QED
  BY <1>8, <1>10 DEF Inserted

LEMMA RemoveIrp ==
  ASSUME TypeOK, QueueTarget, QueueInjective, NEW p \in Pdos,
         NEW k \in DOMAIN irpQueue[p],
         irpQueue' = [irpQueue EXCEPT ![p] = RemoveAt(irpQueue[p], k)]
  PROVE  Removed(irpQueue[p][k])
<1> USE RequestPathAssumption
<1> DEFINE s == irpQueue[p]
           i == s[k]
<1>1. s \in Seq(Irps) /\ i \in Irps /\ Target[i] = p
  BY DEF TypeOK, QueueTarget
<1>2. /\ Len(s) \in Nat /\ DOMAIN s = 1..Len(s) /\ k \in 1..Len(s)
      /\ RemoveAt(s, k) \in Seq(Irps) /\ Len(RemoveAt(s, k)) = Len(s) - 1
      /\ DOMAIN RemoveAt(s, k) = 1..(Len(s) - 1)
      /\ \A m \in 1..(Len(s) - 1) :
           RemoveAt(s, k)[m] = IF m < k THEN s[m] ELSE s[m + 1]
  BY <1>1, RemoveAtProperties, LenProperties
<1>3. \A q \in Pdos : irpQueue'[q] = IF q = p THEN RemoveAt(s, k) ELSE irpQueue[q]
  BY <1>1 DEF TypeOK
<1>4. IsInjective(s)
  BY DEF QueueInjective, IsInjective
<1> HIDE DEF s
<1>5. \A m, n \in DOMAIN RemoveAt(s, k) : RemoveAt(s, k)[m] = RemoveAt(s, k)[n] => m = n
  BY <1>1, <1>2, <1>4, RemoveAtInjectiveList DEF IsInjective
<1>6. QueueInjective'
  <2> SUFFICES ASSUME NEW q \in Pdos
               PROVE  \A m, n \in DOMAIN irpQueue'[q] :
                        irpQueue'[q][m] = irpQueue'[q][n] => m = n
    BY DEF QueueInjective
  <2>1. CASE q = p
    <3>1. irpQueue'[q] = RemoveAt(s, k)
      BY <1>3, <2>1
    <3> QED
      BY <1>5, <3>1
  <2>2. CASE q # p
    <3>1. irpQueue'[q] = irpQueue[q]
      BY <1>3, <2>2
    <3> QED
      BY <3>1 DEF QueueInjective
  <2> QED
    BY <2>1, <2>2
<1>7. ToSet(RemoveAt(s, k)) = ToSet(s) \ {i}
  BY <1>1, <1>2, <1>4, RemoveAtInjectiveList
<1>8. \A j \in Irps : Queued(j)' <=> Queued(j) /\ j # i
  BY <1>1, <1>3, <1>7 DEF Queued, s, QueueTarget
<1>9. Queued(i)
  BY <1>1, <1>2 DEF Queued, s, ToSet
<1> QED
  BY <1>6, <1>8, <1>9 DEF Removed, s

(* A step that changes no queue. *)
LEMMA SameQueues ==
  ASSUME QueueInjective, UNCHANGED irpQueue
  PROVE  QueueInjective' /\ \A j \in Irps : Queued(j)' <=> Queued(j)
  BY DEF QueueInjective, Queued

LEMMA NextPlace ==
  ASSUME PathInv, PlaceOK, [Next]_vars
  PROVE  PlaceOK'
<1> USE RequestPathAssumption
<1>1. /\ TypeOK /\ ThreadOK /\ TargetOK /\ IdleWhileStarting
      /\ QueueInjective /\ \A j \in Irps : IrpPlace(j)
  BY DEF PathInv, ServiceOK, PlaceOK
<1> DEFINE Kept == QueueInjective' /\ \A j \in Irps : Queued(j)' <=> Queued(j)
<1>2. UNCHANGED irpQueue => Kept
  BY <1>1, SameQueues
<1>3. CASE SamePlaces
  BY <1>1, <1>2, <1>3 DEF SamePlaces, PlaceOK, IrpPlace, Started
<1> HIDE DEF Kept
<1>4. ASSUME NEW i \in Irps, Bus_Scsi(i)
      PROVE  PlaceOK'
  <2>1. /\ i \notin issued /\ issued' = issued \cup {i} /\ dispatched' = dispatched \cup {i}
        /\ UNCHANGED <<cancelFlag, cancelRoutine, completions, currentIrp, held>>
        /\ Kept
    BY <1>2, <1>4 DEF Bus_Scsi, pdoVars, threadVars
  <2>2. ASSUME NEW j \in Irps PROVE IrpPlace(j)'
    BY <1>1, <2>1 DEF IrpPlace, Started, Kept, TypeOK
  <2> QED
    BY <2>1, <2>2 DEF PlaceOK, Kept
<1>16. ASSUME NEW i \in Irps, Bus_ScsiDeleted(i)
       PROVE  PlaceOK'
  <2>1. /\ i \notin issued /\ issued' = issued \cup {i}
        /\ completions' = [completions EXCEPT ![i] = @ + 1]
        /\ UNCHANGED <<dispatched, cancelFlag, cancelRoutine, currentIrp, held>>
        /\ Kept
    BY <1>2, <1>16 DEF Bus_ScsiDeleted, Complete, pdoVars, threadVars
  <2>2. ASSUME NEW j \in Irps PROVE IrpPlace(j)'
    BY <1>1, <2>1 DEF IrpPlace, Started, Kept, TypeOK
  <2> QED
    BY <2>1, <2>2 DEF PlaceOK, Kept
<1>5. ASSUME NEW i \in Irps, QueuePacket(i)
      PROVE  PlaceOK'
  <2>1. /\ i \in dispatched /\ dispatched' = dispatched \ {i}
        /\ cancelRoutine' = [cancelRoutine EXCEPT ![i] = "csq"]
        /\ UNCHANGED <<issued, cancelFlag, completions, currentIrp, held>>
    BY <1>5 DEF QueuePacket, threadVars
  <2>2. ~Queued(i) /\ i \in issued /\ ~Started(i) /\ completions[i] = 0
    BY <1>1, <2>1 DEF IrpPlace
  <2>3. Inserted(i)
    BY <1>1, <1>5, <2>2, InsertIrp DEF QueuePacket
  <2>4. ASSUME NEW j \in Irps PROVE IrpPlace(j)'
    BY <1>1, <2>1, <2>2, <2>3 DEF IrpPlace, Started, Inserted, TypeOK
  <2> QED
    BY <2>3, <2>4 DEF PlaceOK, Inserted
<1>6. ASSUME NEW i \in Irps, QueueCancelledPacket(i)
      PROVE  PlaceOK'
  <2>1. /\ i \in dispatched /\ i \in cancelFlag /\ dispatched' = dispatched \ {i}
        /\ completions' = [completions EXCEPT ![i] = @ + 1]
        /\ UNCHANGED <<issued, cancelFlag, cancelRoutine, currentIrp, held>>
        /\ Kept
    BY <1>2, <1>6 DEF QueueCancelledPacket, Complete, pdoVars, threadVars
  <2>2. ~Queued(i) /\ i \in issued /\ ~Started(i)
    BY <1>1, <2>1 DEF IrpPlace
  <2>3. ASSUME NEW j \in Irps PROVE IrpPlace(j)'
    BY <1>1, <2>1, <2>2 DEF IrpPlace, Started, Kept, TypeOK
  <2> QED
    BY <2>1, <2>3 DEF PlaceOK, Kept
<1>7. ASSUME NEW i \in Irps, StartPacket(i)
      PROVE  PlaceOK'
  <2>1. /\ i \in dispatched /\ dispatched' = dispatched \ {i}
        /\ currentIrp[Target[i]] = None
        /\ currentIrp' = [currentIrp EXCEPT ![Target[i]] = i]
        /\ cancelRoutine' = [cancelRoutine EXCEPT ![i] = "current"]
        /\ UNCHANGED <<issued, cancelFlag, completions, held>>
        /\ Kept
    BY <1>2, <1>7 DEF StartPacket, HandOver, threadVars
  <2>2. ~Queued(i) /\ i \in issued /\ ~Started(i) /\ completions[i] = 0
    BY <1>1, <2>1 DEF IrpPlace
  <2>3. ASSUME NEW j \in Irps PROVE IrpPlace(j)'
    BY <1>1, <2>1, <2>2 DEF IrpPlace, Started, Kept, TypeOK
  <2> QED
    BY <2>1, <2>3 DEF PlaceOK, Kept
<1>8. ASSUME NEW i \in Irps, CancelQueued(i)
      PROVE  PlaceOK'
  <2>1. PICK k \in DOMAIN irpQueue[Target[i]] :
          /\ irpQueue[Target[i]][k] = i
          /\ irpQueue' = [irpQueue EXCEPT ![Target[i]] = RemoveAt(irpQueue[Target[i]], k)]
    BY <1>8 DEF CancelQueued
  <2>2. Removed(i)
    <3>1. Removed(irpQueue[Target[i]][k])
      BY <1>1, <2>1, RemoveIrp DEF TargetOK
    <3> QED
      BY <2>1, <3>1 DEF Removed
  <2>3. /\ cancelFlag' = cancelFlag \cup {i}
        /\ cancelRoutine' = [cancelRoutine EXCEPT ![i] = None]
        /\ completions' = [completions EXCEPT ![i] = @ + 1]
        /\ UNCHANGED <<issued, dispatched, currentIrp, held>>
    BY <1>8 DEF CancelQueued, Complete, threadVars
  <2>4. ~Started(i) /\ i \in issued /\ i \notin dispatched
    BY <1>1, <2>2 DEF IrpPlace, Removed
  <2>5. ASSUME NEW j \in Irps PROVE IrpPlace(j)'
    <3>1. CASE j = i
      <4>1. /\ ~Queued(j)' /\ j \in issued' /\ j \notin dispatched'
            /\ cancelRoutine'[j] # "current"
        BY <1>1, <2>2, <2>3, <2>4, <3>1 DEF Removed, TypeOK
      <4>2. ~Started(j)'
        BY <2>3, <2>4, <3>1 DEF Started
      <4>3. j \in cancelFlag'
        BY <2>3, <3>1
      <4> QED
        BY <2>4, <3>1, <4>1, <4>2, <4>3 DEF IrpPlace, Started
    <3>2. CASE j # i
      BY <1>1, <2>2, <2>3, <2>4, <3>2 DEF IrpPlace, Started, Removed, TypeOK
    <3> QED
      BY <3>1, <3>2
  <2> QED
    BY <2>2, <2>5 DEF PlaceOK, Removed
<1>9. ASSUME NEW i \in Irps, Bus_CancelIrp(i) \/ CancelInHand(i)
      PROVE  PlaceOK'
  <2>1. /\ i \in issued /\ cancelFlag' = cancelFlag \cup {i}
        /\ \/ UNCHANGED <<cancelRoutine, completions>>
           \/ /\ cancelRoutine[i] = "current"
              /\ cancelRoutine' = [cancelRoutine EXCEPT ![i] = None]
              /\ completions' = [completions EXCEPT ![i] = @ + 1]
        /\ UNCHANGED <<issued, dispatched, currentIrp, held>>
        /\ Kept
    BY <1>2, <1>9 DEF Bus_CancelIrp, CancelInHand, MayCancelIrp, Complete, pdoVars,
       threadVars
  <2>2. cancelRoutine[i] = "current" => ~Queued(i) /\ i \notin dispatched /\ Started(i)
    BY <1>1 DEF IrpPlace, Started
  <2>3. ASSUME NEW j \in Irps PROVE IrpPlace(j)'
    BY <1>1, <2>1, <2>2 DEF IrpPlace, Started, Kept, TypeOK
  <2> QED
    BY <2>1, <2>3 DEF PlaceOK, Kept
<1>10. ASSUME NEW t \in Threads, TakeQueuedIrp(t)
       PROVE  PlaceOK'
  <2> DEFINE p == at[t]
             i == Head(irpQueue[p])
  <2>1. p \in Pdos /\ irpQueue[p] \in Seq(Irps) /\ irpQueue[p] # <<>> /\ held[t] = None
    <3>1. pc[t] = "rqTaken" /\ irpQueue[p] # <<>>
      BY <1>10 DEF TakeQueuedIrp
    <3>2. p \in Pdos /\ held[t] = None
      BY <1>1, <3>1 DEF ThreadOK, InPdo
    <3>3. irpQueue[p] \in Seq(Irps)
      BY <1>1, <3>2 DEF TypeOK
    <3> QED
      BY <3>1, <3>2, <3>3
  <2>2. Removed(i) /\ i \in Irps
    <3>1. /\ 1 \in DOMAIN irpQueue[p] /\ i = irpQueue[p][1] /\ i \in Irps
          /\ Tail(irpQueue[p]) = RemoveAt(irpQueue[p], 1)
      BY <2>1, TailIsRemoval, TailElements
    <3>2. irpQueue' = [irpQueue EXCEPT ![p] = RemoveAt(irpQueue[p], 1)]
      BY <1>10, <3>1 DEF TakeQueuedIrp
    <3>3. TypeOK /\ QueueTarget /\ QueueInjective
      BY <1>1 DEF TargetOK
    <3>4. Removed(irpQueue[p][1])
      BY <2>1, <3>1, <3>2, <3>3, RemoveIrp
    <3> QED
      BY <3>1, <3>4
  <2>3. /\ cancelRoutine' = [cancelRoutine EXCEPT ![i] = None]
        /\ held' = [held EXCEPT ![t] = i]
        /\ UNCHANGED <<issued, dispatched, cancelFlag, completions, currentIrp>>
    BY <1>10 DEF TakeQueuedIrp
  <2> HIDE DEF p, i
  <2>4. /\ ~Started(i) /\ i \in issued /\ i \notin dispatched /\ completions[i] = 0
        /\ i # None
    BY <1>1, <2>2 DEF IrpPlace, Removed
  <2>5. ASSUME NEW j \in Irps PROVE IrpPlace(j)'
    <3>1. CASE j = i
      <4>1. /\ ~Queued(j)' /\ j \in issued' /\ j \notin dispatched'
            /\ cancelRoutine'[j] # "current"
        BY <1>1, <2>1, <2>2, <2>3, <2>4, <3>1 DEF Removed, TypeOK
      <4>2. completions'[j] = 0 /\ currentIrp'[Target[j]] # j
        BY <2>3, <2>4, <3>1 DEF Started
      <4>3. \A u \in Threads : held'[u] = j => u = t
        BY <1>1, <2>3, <2>4, <3>1 DEF Started, TypeOK
      <4> QED
        BY <4>1, <4>2, <4>3 DEF IrpPlace, Started
    <3>2. CASE j # i
      BY <1>1, <2>1, <2>2, <2>3, <2>4, <3>2 DEF IrpPlace, Started, Removed, TypeOK
    <3> QED
      BY <3>1, <3>2
  <2> QED
    BY <2>2, <2>5 DEF PlaceOK, Removed
<1>11. ASSUME NEW t \in Threads, StartTakenIrp(t)
       PROVE  PlaceOK'
  <2> DEFINE i == held[t]
  <2>1. i \in Irps /\ Target[i] = at[t] /\ currentIrp[Target[i]] = None
    BY <1>1, <1>11
    DEF StartTakenIrp, ThreadOK, TypeOK, TargetOK, HeldTarget, IdleWhileStarting, LockPlaces
  <2>2. /\ cancelRoutine' = [cancelRoutine EXCEPT ![i] = "current"]
        /\ held' = [held EXCEPT ![t] = None]
        /\ currentIrp' = [currentIrp EXCEPT ![Target[i]] = i]
        /\ UNCHANGED <<issued, dispatched, cancelFlag, completions>>
        /\ Kept
    BY <1>2, <1>11 DEF StartTakenIrp, HandOver
  <2>3. /\ Started(i) /\ i \in issued /\ i \notin dispatched /\ ~Queued(i)
        /\ \A u \in Threads : held[u] = i => u = t
    BY <1>1, <2>1 DEF IrpPlace, Started
  <2> HIDE DEF i
  <2>4. ASSUME NEW j \in Irps PROVE IrpPlace(j)'
    BY <1>1, <2>1, <2>2, <2>3 DEF IrpPlace, Started, Kept, TypeOK, i
  <2> QED
    BY <2>2, <2>4 DEF PlaceOK, Kept
<1>12. ASSUME NEW p \in Pdos, TakeCurrentIrp(p)
       PROVE  PlaceOK'
  <2> DEFINE i == currentIrp[p]
  <2>0. p \in Threads /\ pc[p] = "found" /\ currentIrp[p] # None
    BY <1>12 DEF TakeCurrentIrp, Threads
  <2>1. i \in Irps /\ Target[i] = p /\ held[p] = None /\ p \in Threads
    <3>1. held[p] = None
      BY <1>1, <2>0 DEF ThreadOK
    <3>2. i \in Irps
      BY <1>1, <2>0 DEF TypeOK
    <3> QED
      BY <1>1, <2>0, <3>1, <3>2 DEF TargetOK, CurrentTarget
  <2>2. /\ cancelRoutine' = [cancelRoutine EXCEPT ![i] = None]
        /\ held' = [held EXCEPT ![p] = i]
        /\ currentIrp' = [currentIrp EXCEPT ![p] = None]
        /\ UNCHANGED <<issued, dispatched, cancelFlag, completions>>
        /\ Kept
    BY <1>2, <1>12 DEF TakeCurrentIrp
  <2>3. /\ Started(i) /\ i \in issued /\ i \notin dispatched /\ ~Queued(i)
        /\ \A u \in Threads : held[u] # i
    BY <1>1, <2>1 DEF IrpPlace, Started
  <2>4. ASSUME NEW j \in Irps PROVE IrpPlace(j)'
    <3>1. CASE j = i
      <4>1. /\ ~Queued(j)' /\ j \in issued' /\ j \notin dispatched'
            /\ cancelRoutine'[j] # "current"
        BY <1>1, <2>1, <2>2, <2>3, <3>1 DEF Kept, TypeOK
      <4>2. currentIrp'[Target[j]] # j
        BY <1>1, <2>1, <2>2, <3>1 DEF TypeOK
      <4>3. \A u \in Threads : held'[u] = j => u = p
        BY <1>1, <2>2, <2>3, <3>1 DEF TypeOK
      <4>4. j \notin cancelFlag' => completions'[j] = 0
        BY <1>1, <2>2, <2>3, <3>1 DEF IrpPlace
      <4> QED
        BY <4>1, <4>2, <4>3, <4>4 DEF IrpPlace, Started
    <3>2. CASE j # i
      BY <1>1, <2>1, <2>2, <2>3, <3>2 DEF IrpPlace, Started, Kept, TypeOK
    <3> QED
      BY <3>1, <3>2
  <2> QED
    BY <2>2, <2>4 DEF PlaceOK, Kept
<1>13. ASSUME NEW p \in Pdos, FinishReply(p)
       PROVE  PlaceOK'
  <2> DEFINE i == held[p]
  <2>1. i \in Irps /\ p \in Threads
    BY <1>1, <1>13 DEF FinishReply, ThreadOK, TypeOK, Threads
  <2>2. /\ completions' = [completions EXCEPT ![i] = @ + 1]
        /\ held' = [held EXCEPT ![p] = None]
        /\ UNCHANGED <<issued, dispatched, cancelFlag, cancelRoutine, currentIrp>>
        /\ Kept
    BY <1>2, <1>13 DEF FinishReply, Complete
  <2>3. /\ Started(i) /\ i \in issued /\ i \notin dispatched /\ ~Queued(i)
        /\ currentIrp[Target[i]] # i
        /\ \A u \in Threads : held[u] = i => u = p
        /\ i \notin cancelFlag => completions[i] = 0
    BY <1>1, <2>1 DEF IrpPlace, Started
  <2>4. ASSUME NEW j \in Irps PROVE IrpPlace(j)'
    BY <1>1, <2>1, <2>2, <2>3 DEF IrpPlace, Started, Kept, TypeOK
  <2> QED
    BY <2>2, <2>4 DEF PlaceOK, Kept
<1>14. ASSUME NEW p \in Pdos, DestroyCurrentIrp(p)
       PROVE  PlaceOK'
  <2> DEFINE i == currentIrp[p]
  <2>1. i \in Irps /\ Target[i] = p
    BY <1>1, <1>14 DEF DestroyCurrentIrp, TypeOK, TargetOK, CurrentTarget
  <2>2. /\ cancelRoutine' = [cancelRoutine EXCEPT ![i] = None]
        /\ completions' = [completions EXCEPT ![i] = @ + 1]
        /\ currentIrp' = [currentIrp EXCEPT ![p] = None]
        /\ UNCHANGED <<issued, dispatched, cancelFlag, held>>
        /\ Kept
    BY <1>2, <1>14 DEF DestroyCurrentIrp, Complete, threadVars
  <2>3. /\ Started(i) /\ i \in issued /\ i \notin dispatched /\ ~Queued(i)
        /\ \A u \in Threads : held[u] # i
        /\ i \notin cancelFlag => completions[i] = 0
    BY <1>1, <2>1 DEF IrpPlace, Started
  <2>4. ASSUME NEW j \in Irps PROVE IrpPlace(j)'
    <3>1. CASE j = i
      <4>1. /\ ~Queued(j)' /\ j \in issued' /\ j \notin dispatched'
            /\ cancelRoutine'[j] # "current"
        BY <1>1, <2>1, <2>2, <2>3, <3>1 DEF Kept, TypeOK
      <4>2. currentIrp'[Target[j]] # j
        BY <1>1, <2>1, <2>2, <3>1 DEF TypeOK
      <4>3. \A u \in Threads : held'[u] # j
        BY <2>2, <2>3, <3>1
      <4>4. j \notin cancelFlag' => completions'[j] = 1
        BY <1>1, <2>2, <2>3, <3>1 DEF TypeOK
      <4> QED
        BY <4>1, <4>2, <4>3, <4>4 DEF IrpPlace, Started
    <3>2. CASE j # i
      BY <1>1, <2>1, <2>2, <2>3, <3>2 DEF IrpPlace, Started, Kept, TypeOK
    <3> QED
      BY <3>1, <3>2
  <2> QED
    BY <2>2, <2>4 DEF PlaceOK, Kept
<1>15. ASSUME NEW p \in Pdos, DrainIrp(p)
       PROVE  PlaceOK'
  <2> DEFINE i == Head(irpQueue[p])
  <2>1. irpQueue[p] \in Seq(Irps) /\ irpQueue[p] # <<>>
    BY <1>1, <1>15 DEF DrainIrp, TypeOK
  <2>2. Removed(i) /\ i \in Irps
    <3>1. /\ 1 \in DOMAIN irpQueue[p] /\ i = irpQueue[p][1] /\ i \in Irps
          /\ Tail(irpQueue[p]) = RemoveAt(irpQueue[p], 1)
      BY <2>1, TailIsRemoval, TailElements
    <3>2. irpQueue' = [irpQueue EXCEPT ![p] = RemoveAt(irpQueue[p], 1)]
      BY <1>15, <3>1 DEF DrainIrp
    <3>3. TypeOK /\ QueueTarget /\ QueueInjective
      BY <1>1 DEF TargetOK
    <3>4. Removed(irpQueue[p][1])
      BY <3>1, <3>2, <3>3, RemoveIrp
    <3> QED
      BY <3>1, <3>4
  <2>3. /\ cancelRoutine' = [cancelRoutine EXCEPT ![i] = None]
        /\ completions' = [completions EXCEPT ![i] = @ + 1]
        /\ UNCHANGED <<issued, dispatched, cancelFlag, currentIrp, held>>
    BY <1>15 DEF DrainIrp, Complete, threadVars
  <2> HIDE DEF i
  <2>4. ~Started(i) /\ i \in issued /\ i \notin dispatched /\ completions[i] = 0
    BY <1>1, <2>2 DEF IrpPlace, Removed
  <2>5. ASSUME NEW j \in Irps PROVE IrpPlace(j)'
    <3>1. CASE j = i
      <4>1. /\ ~Queued(j)' /\ j \in issued' /\ j \notin dispatched'
            /\ cancelRoutine'[j] # "current"
        BY <1>1, <2>2, <2>3, <2>4, <3>1 DEF Removed, TypeOK
      <4>2. currentIrp'[Target[j]] # j /\ \A u \in Threads : held'[u] # j
        BY <2>3, <2>4, <3>1 DEF Started
      <4>3. completions'[j] = 1
        BY <1>1, <2>2, <2>3, <2>4, <3>1 DEF TypeOK
      <4> QED
        BY <4>1, <4>2, <4>3 DEF IrpPlace, Started
    <3>2. CASE j # i
      BY <1>1, <2>2, <2>3, <2>4, <3>2 DEF IrpPlace, Started, Removed, TypeOK
    <3> QED
      BY <3>1, <3>2
  <2> QED
    BY <2>2, <2>5 DEF PlaceOK, Removed
<1> QED
  BY <1>3, <1>4, <1>5, <1>6, <1>7, <1>8, <1>9, <1>10, <1>11, <1>12, <1>13, <1>14, <1>15,
     <1>16, PlaceSteps

LEMMA InitPlace == Init => PlaceOK
  BY RequestPathAssumption
  DEF Init, PlaceOK, QueueInjective, IrpPlace, Queued, Started, ToSet, Threads

LEMMA PlaceInvariant == Spec => [](PathInv /\ PlaceOK)
<1>1. Init => PathInv /\ PlaceOK
  BY InitPathInv, InitPlace
<1>2. PathInv /\ PlaceOK /\ [Next]_vars => (PathInv /\ PlaceOK)'
  BY NextPathInv, NextPlace
<1> QED
  BY <1>1, <1>2, PTL DEF Spec

(* An IRP nobody cancels is completed at most once, whoever of the reply,  *)
(* the removal of the disk and the dispatch gets to it first.              *)
THEOREM CompletionCorrect == Spec => []UncancelledCompletedOnce
<1>1. PathInv /\ PlaceOK => UncancelledCompletedOnce
  BY DEF PlaceOK, IrpPlace, UncancelledCompletedOnce
<1> QED
  BY <1>1, PlaceInvariant, PTL
=============================================================================
