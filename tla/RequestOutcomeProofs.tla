------------------------ MODULE RequestOutcomeProofs ------------------------
(***************************************************************************)
(* More proofs about RequestPath, on top of PathInv and PlaceOK: the       *)
(* remove lock, the outcome of a request (that the driver and the service  *)
(* implement DiskRequests), the converse of InServiceIsCurrent, how wake-  *)
(* ups are lost, and who goes on with what is not completed.               *)
(*   StatusOK    an IRP's status and its remove lock, by its place;        *)
(*   RequestOK   a GET_REQUEST IRP is in one place, and empty there;       *)
(*   InHandsOK   CurrentIrp is with the service;                           *)
(*   OnceOK      a started IRP was completed once at most;                 *)
(*   PendingOK   an IRP not completed is in some place;                    *)
(*   OutstandingOK   so is a GET_REQUEST IRP the service waits for.        *)
(***************************************************************************)
EXTENDS RequestPathProofs

(* The disk works on i, or on the reply to it. *)
Serving(i) ==
  \/ currentIrp[Target[i]] = i
  \/ held[Target[i]] = i /\ pc[Target[i]] = "taken"

StatusOK ==
  \A i \in Irps :
    /\ completions[i] = 0 <=> ioStatus[i] = "pending"
    /\ ioStatus[i] \in {"served", "nodevice"} => ~ Started(i)
    /\ ioStatus[i] # "nodevice" =>
         lockTags[i] = IF i \in dispatched \/ Started(i) THEN 1 ELSE 0

-----------------------------------------------------------------------------
(* What a step does to one IRP.                                            *)
SamePlaceOf(i) ==
  /\ i \in dispatched' <=> i \in dispatched
  /\ Started(i)' <=> Started(i)
  /\ Serving(i)' <=> Serving(i)

SameOutcome(i) == ioStatus'[i] = ioStatus[i] /\ completions'[i] = completions[i]

Same(i) ==
  /\ i \in issued' <=> i \in issued
  /\ SamePlaceOf(i)
  /\ SameOutcome(i)
  /\ lockTags'[i] = lockTags[i]

Completed(i, s) ==
  ioStatus'[i] = s /\ completions'[i] = completions[i] + 1

(* A new IRP is dispatched, or refused. *)
Enters(i) ==
  /\ i \notin issued /\ i \in issued'
  /\ ~ Started(i) /\ ~ Started(i)' /\ ~ Serving(i)'
  /\ \/ /\ i \in dispatched'
        /\ SameOutcome(i)
        /\ lockTags'[i] = lockTags[i] + 1
     \/ i \notin dispatched' /\ Completed(i, "nodevice")

(* A dispatched IRP is queued, or completed since it is cancelled. *)
Waits(i) ==
  /\ i \in dispatched /\ i \notin dispatched'
  /\ ~ Started(i)' /\ ~ Serving(i)'
  /\ lockTags'[i] = lockTags[i] - 1
  /\ SameOutcome(i) \/ Completed(i, "cancelled")

(* It is completed off its queue. *)
LeavesQueue(i) ==
  /\ Queued(i)
  /\ i \notin dispatched /\ SamePlaceOf(i)
  /\ Completed(i, "cancelled")
  /\ lockTags'[i] = lockTags[i]

(* It is taken off its queue to be started. *)
IsTaken(i) ==
  /\ Queued(i)
  /\ i \notin dispatched /\ i \notin dispatched'
  /\ Started(i)' /\ ~ Serving(i)'
  /\ SameOutcome(i)
  /\ lockTags'[i] = lockTags[i] + 1

(* It becomes CurrentIrp, while no other IRP of the disk is served. *)
Starts(i) ==
  /\ i \in dispatched \/ Started(i)
  /\ \A j \in Irps : Target[j] = Target[i] => ~ Serving(j)
  /\ i \notin dispatched'
  /\ Started(i)' /\ Serving(i)'
  /\ SameOutcome(i)
  /\ lockTags'[i] = lockTags[i]

(* It is cancelled while it is CurrentIrp. *)
IsCancelled(i) ==
  /\ Serving(i) /\ completions[i] = 0
  /\ SamePlaceOf(i)
  /\ Completed(i, "cancelled")
  /\ lockTags'[i] = lockTags[i]

(* It is completed by the reply or by the removal. *)
Ends(i) ==
  /\ Serving(i)
  /\ i \notin dispatched /\ i \notin dispatched'
  /\ ~ Started(i)' /\ ~ Serving(i)'
  /\ \/ Completed(i, "cancelled")
     \/ completions[i] = 0 /\ Completed(i, "served")
  /\ lockTags'[i] = lockTags[i] - 1

IrpStep(i) ==
  \/ Enters(i)
  \/ /\ i \in issued /\ i \in issued'
     /\ \/ Waits(i) \/ LeavesQueue(i) \/ IsTaken(i) \/ Starts(i) \/ IsCancelled(i)
        \/ Ends(i)

OneMoves ==
  \/ \A j \in Irps : Same(j)
  \/ \E i \in Irps : IrpStep(i) /\ \A j \in Irps : j # i => Same(j)

(* Every step but these leaves the IRPs alone. *)
LEMMA UntouchedSteps ==
  ASSUME TypeOK, ThreadOK, [Next]_vars
  PROVE  \/ /\ SamePlaces /\ UNCHANGED <<ioStatus, lockTags>>
            /\ \A p \in Pdos : pc'[p] = "taken" <=> pc[p] = "taken"
         \/ \E i \in Irps : \/ Bus_Scsi(i) \/ Bus_ScsiDeleted(i) \/ QueuePacket(i)
                            \/ QueueCancelledPacket(i) \/ StartPacket(i)
                            \/ CancelQueued(i) \/ Bus_CancelIrp(i) \/ CancelInHand(i)
         \/ \E t \in Threads : TakeQueuedIrp(t) \/ StartTakenIrp(t)
         \/ \E p \in Pdos : \/ TakeCurrentIrp(p) \/ FinishReply(p)
                            \/ DestroyCurrentIrp(p) \/ DrainIrp(p)
<1> USE DEF irpVars, pdoVars, requestVars, threadVars, serviceVars, SamePlaces
<1> DEFINE Untouched == /\ SamePlaces /\ UNCHANGED <<ioStatus, lockTags>>
                        /\ \A p \in Pdos : pc'[p] = "taken" <=> pc[p] = "taken"
<1>1. ASSUME NEW r \in Reqs, GetRequest(r) \/ Walk(r) \/ ProcessRequest(r)
      PROVE  Untouched
  BY <1>1, RequestPathAssumption
  DEF Walk, GetRequest, WalkTo, WalkDone, ProcessRequest, TypeOK, Threads
<1>2. ASSUME NEW t \in Threads, NothingToStart(t) \/ TakeRequest(t) \/ PutBackRequest(t)
      PROVE  Untouched
  BY <1>2 DEF NothingToStart, TakeRequest, PutBackRequest, AfterStartNext, TypeOK, Threads
<1>3. ASSUME NEW p \in Pdos,
             \/ SendReply(p) \/ SendReplyRefused(p) \/ ReplyWithoutIrp(p)
             \/ RemoveDiskFinal(p) \/ RemovePdo(p) \/ DestroyNoIrp(p) \/ DeletePdo(p)
      PROVE  Untouched
  BY <1>3 DEF SendReply, SendReplyRefused, ReplyWithoutIrp, RemoveDiskFinal, RemovePdo,
     DestroyNoIrp, DeletePdo, TypeOK, Threads
<1>4. ASSUME UNCHANGED vars
      PROVE  Untouched
  BY <1>4 DEF vars
<1> HIDE DEF SamePlaces, Untouched
<1>5. \/ Untouched
      \/ \E i \in Irps : \/ Bus_Scsi(i) \/ Bus_ScsiDeleted(i) \/ QueuePacket(i)
                         \/ QueueCancelledPacket(i) \/ StartPacket(i)
                         \/ CancelQueued(i) \/ Bus_CancelIrp(i) \/ CancelInHand(i)
      \/ \E t \in Threads : TakeQueuedIrp(t) \/ StartTakenIrp(t)
      \/ \E p \in Pdos : \/ TakeCurrentIrp(p) \/ FinishReply(p)
                         \/ DestroyCurrentIrp(p) \/ DrainIrp(p)
  BY <1>1, <1>2, <1>3, <1>4
  DEF Next, Scsi, BusStartPacket, IoCancelIrp, BusStartNextPacket, Worker, DestroyPdo
<1> QED
  BY <1>5 DEF Untouched

(* What the dispatch and the cancellation do. *)
LEMMA IrpMoves ==
  ASSUME PathInv, PlaceOK, NEW i \in Irps,
         \/ Bus_Scsi(i) \/ Bus_ScsiDeleted(i) \/ QueuePacket(i) \/ QueueCancelledPacket(i)
         \/ StartPacket(i) \/ CancelQueued(i) \/ Bus_CancelIrp(i) \/ CancelInHand(i)
  PROVE  OneMoves
<1> USE RequestPathAssumption
<1> USE DEF TypeOK, Same, SamePlaceOf, SameOutcome, Started, Serving, Completed, Threads
<1>1. /\ TypeOK /\ ThreadOK /\ LockOK
      /\ \A j \in Irps : IrpPlace(j)
      /\ i \notin issued => i \notin dispatched /\ ~ Started(i)
      /\ i \in dispatched => i \in issued /\ ~ Started(i)
  BY DEF PathInv, PlaceOK, IrpPlace
<1>2. CASE Bus_Scsi(i)
  <2>1. Enters(i)
    BY <1>1, <1>2 DEF Bus_Scsi, Enters, pdoVars, threadVars
  <2>2. \A j \in Irps : j # i => Same(j)
    BY <1>1, <1>2 DEF Bus_Scsi, pdoVars, threadVars
  <2> QED
    BY <2>1, <2>2 DEF OneMoves, IrpStep
<1>3. CASE Bus_ScsiDeleted(i)
  <2>1. Enters(i)
    BY <1>1, <1>3 DEF Bus_ScsiDeleted, Complete, Enters, pdoVars, threadVars
  <2>2. \A j \in Irps : j # i => Same(j)
    BY <1>1, <1>3 DEF Bus_ScsiDeleted, Complete, pdoVars, threadVars
  <2> QED
    BY <2>1, <2>2 DEF OneMoves, IrpStep
<1>4. CASE QueuePacket(i)
  <2>1. Waits(i) /\ i \in issued /\ i \in issued'
    BY <1>1, <1>4 DEF QueuePacket, Waits, threadVars
  <2>2. \A j \in Irps : j # i => Same(j)
    BY <1>1, <1>4 DEF QueuePacket, threadVars
  <2> QED
    BY <2>1, <2>2 DEF OneMoves, IrpStep
<1>5. CASE QueueCancelledPacket(i)
  <2>1. Waits(i) /\ i \in issued /\ i \in issued'
    BY <1>1, <1>5 DEF QueueCancelledPacket, Complete, Waits, pdoVars, threadVars
  <2>2. \A j \in Irps : j # i => Same(j)
    BY <1>1, <1>5 DEF QueueCancelledPacket, Complete, pdoVars, threadVars
  <2> QED
    BY <2>1, <2>2 DEF OneMoves, IrpStep
<1>6. CASE StartPacket(i)
  <2>1. /\ i \in dispatched /\ dispatched' = dispatched \ {i}
        /\ pdoLock[Target[i]] = None /\ currentIrp[Target[i]] = None
        /\ currentIrp' = [currentIrp EXCEPT ![Target[i]] = i]
        /\ UNCHANGED <<issued, ioStatus, completions, lockTags, held, pc>>
    BY <1>6 DEF StartPacket, HandOver, threadVars
  <2>2. ASSUME NEW j \in Irps, Target[j] = Target[i] PROVE ~ Serving(j)
    <3>1. Target[i] \in Pdos /\ Target[i] \in Threads /\ Target[i] # None
      BY DEF Threads
    <3>2. pc[Target[i]] = "taken" => pdoLock[Target[i]] = Target[i]
      BY <1>1, <3>1 DEF LockOK, ThreadOK, InPdo, LockPlaces
    <3> QED
      BY <2>1, <2>2, <3>1, <3>2
  <2>3. Starts(i) /\ i \in issued /\ i \in issued'
    BY <1>1, <2>1, <2>2 DEF Starts
  <2>4. \A j \in Irps : j # i => Same(j)
    BY <1>1, <2>1
  <2> QED
    BY <2>3, <2>4 DEF OneMoves, IrpStep
<1>7. CASE CancelQueued(i)
  <2>1. /\ i \in issued
        /\ \E k \in DOMAIN irpQueue[Target[i]] : irpQueue[Target[i]][k] = i
        /\ Complete(i, "cancelled")
        /\ UNCHANGED <<issued, dispatched, lockTags, currentIrp, held, pc>>
    BY <1>7 DEF CancelQueued, MayCancelIrp, threadVars
  <2>2. Queued(i) /\ i \notin dispatched
    <3>1. Queued(i)
      BY <2>1 DEF Queued, ToSet
    <3> QED
      BY <1>1, <3>1 DEF IrpPlace
  <2>3. LeavesQueue(i) /\ i \in issued'
    BY <1>1, <2>1, <2>2 DEF LeavesQueue, Complete
  <2>4. \A j \in Irps : j # i => Same(j)
    BY <1>1, <2>1 DEF Complete
  <2> QED
    BY <2>1, <2>3, <2>4 DEF OneMoves, IrpStep
<1>8. CASE Bus_CancelIrp(i)
  <2>1. /\ i \in issued /\ completions[i] = 0 /\ cancelRoutine[i] = "current"
        /\ Complete(i, "cancelled")
        /\ UNCHANGED <<issued, dispatched, lockTags, currentIrp, held, pc>>
    BY <1>8 DEF Bus_CancelIrp, MayCancelIrp, pdoVars, threadVars
  <2>2. IsCancelled(i) /\ i \in issued'
    BY <1>1, <2>1 DEF IsCancelled, Complete, IrpPlace
  <2>3. \A j \in Irps : j # i => Same(j)
    BY <1>1, <2>1 DEF Complete
  <2> QED
    BY <2>1, <2>2, <2>3 DEF OneMoves, IrpStep
<1>9. CASE CancelInHand(i)
  <2>1. \A j \in Irps : Same(j)
    BY <1>9 DEF CancelInHand, pdoVars, threadVars
  <2> QED
    BY <2>1 DEF OneMoves
<1> QED
  BY <1>2, <1>3, <1>4, <1>5, <1>6, <1>7, <1>8, <1>9

(* What BusStartNextPacket does. *)
LEMMA StartMoves ==
  ASSUME PathInv, PlaceOK, NEW t \in Threads, TakeQueuedIrp(t) \/ StartTakenIrp(t)
  PROVE  OneMoves
<1> USE RequestPathAssumption
<1> USE DEF Same, SamePlaceOf, SameOutcome, Threads
<1>1. /\ TypeOK /\ ThreadOK /\ LockOK /\ IdleWhileStarting
      /\ \A j \in Irps : IrpPlace(j)
  BY DEF PathInv, PlaceOK, ServiceOK
<1>2. CASE TakeQueuedIrp(t)
  <2> DEFINE p == at[t]
  <2>1. /\ p \in Pdos /\ irpQueue[p] \in Seq(Irps) /\ irpQueue[p] # <<>>
        /\ held[t] = None /\ pc[t] = "rqTaken"
    <3>1. pc[t] = "rqTaken" /\ irpQueue[p] # <<>>
      BY <1>2 DEF TakeQueuedIrp
    <3>2. p \in Pdos /\ held[t] = None
      BY <1>1, <3>1 DEF ThreadOK, InPdo
    <3> QED
      BY <1>1, <3>1, <3>2 DEF TypeOK
  <2>2. PICK i \in Irps : i = Head(irpQueue[p]) /\ Target[i] = p /\ Queued(i)
    <3> DEFINE i == Head(irpQueue[p])
    <3>1. 1 \in DOMAIN irpQueue[p] /\ i = irpQueue[p][1] /\ i \in Irps
      BY <2>1, TailElements
    <3>2. Target[i] = p
      BY <2>1, <3>1 DEF PathInv, TargetOK, QueueTarget
    <3> QED
      BY <3>1, <3>2 DEF Queued, ToSet
  <2>3. /\ held' = [held EXCEPT ![t] = i]
        /\ pc' = [pc EXCEPT ![t] = "irpTaken"]
        /\ lockTags' = [lockTags EXCEPT ![i] = @ + 1]
        /\ UNCHANGED <<issued, dispatched, ioStatus, completions, currentIrp>>
    BY <1>2, <2>2 DEF TakeQueuedIrp
  <2>4. i \in issued /\ i \notin dispatched /\ ~ Started(i)
    BY <1>1, <2>2 DEF IrpPlace
  <2> HIDE DEF p
  <2>5. IsTaken(i) /\ i \in issued'
    <3>1. Started(i)'
      BY <1>1, <2>1, <2>2, <2>3 DEF Started, TypeOK
    <3>2. ~ Serving(i)'
      BY <1>1, <2>2, <2>3, <2>4 DEF Started, Serving, TypeOK
    <3> QED
      BY <1>1, <2>2, <2>3, <2>4, <3>1, <3>2 DEF IsTaken, TypeOK
  <2>6. ASSUME NEW j \in Irps, j # i PROVE Same(j)
    <3>1. Started(j)' <=> Started(j)
      BY <1>1, <2>1, <2>2, <2>3, <2>6 DEF Started, TypeOK
    <3>2. Serving(j)' <=> Serving(j)
      BY <1>1, <2>1, <2>2, <2>3, <2>6 DEF Serving, TypeOK
    <3> QED
      BY <1>1, <2>2, <2>3, <2>6, <3>1, <3>2 DEF TypeOK
  <2> QED
    BY <2>2, <2>4, <2>5, <2>6 DEF OneMoves, IrpStep
<1>3. CASE StartTakenIrp(t)
  <2> DEFINE p == at[t]
  <2>1. PICK i \in Irps :
          /\ i = held[t] /\ p \in Pdos /\ Target[i] = p /\ pc[t] = "irpTaken"
          /\ currentIrp[p] = None /\ pdoLock[p] = t
    <3> DEFINE i == held[t]
    <3>1. pc[t] = "irpTaken" /\ pc[t] \in LockPlaces
      BY <1>3 DEF StartTakenIrp, LockPlaces
    <3>2. p \in Pdos /\ i \in Irps /\ currentIrp[p] = None
      BY <1>1, <3>1 DEF ThreadOK, InPdo, TypeOK, IdleWhileStarting
    <3>3. Target[i] = p
      BY <3>2 DEF PathInv, TargetOK, HeldTarget
    <3>4. pdoLock[p] = t
      BY <1>1, <3>1, <3>2 DEF LockOK
    <3> QED
      BY <3>1, <3>2, <3>3, <3>4
  <2>2. /\ held' = [held EXCEPT ![t] = None]
        /\ currentIrp' = [currentIrp EXCEPT ![p] = i]
        /\ pc' = [pc EXCEPT ![t] = AfterStartNext(t)]
        /\ UNCHANGED <<issued, dispatched, ioStatus, completions, lockTags>>
    BY <1>3, <2>1 DEF StartTakenIrp, HandOver
  <2>3. /\ i \in issued /\ i \notin dispatched /\ Started(i)
        /\ \A u \in Threads : held[u] = i => u = t
    BY <1>1, <2>1 DEF IrpPlace, Started
  <2>4. pc[p] # "taken"
    BY <1>1, <2>1 DEF LockOK, LockPlaces, ThreadOK, InPdo
  <2>5. \A u \in Threads : pc'[u] # "taken" \/ pc[u] = "taken"
    BY <1>1, <2>2 DEF TypeOK, AfterStartNext
  <2>6. \A u \in Threads : u # t => held'[u] = held[u] /\ pc'[u] = pc[u]
    BY <1>1, <2>2 DEF TypeOK
  <2>7. held'[t] = None /\ \A q \in Pdos : currentIrp'[q] = IF q = p THEN i ELSE currentIrp[q]
    BY <1>1, <2>1, <2>2 DEF TypeOK
  <2> HIDE DEF p
  <2>8. Starts(i) /\ i \in issued'
    <3>1. \A j \in Irps : Target[j] = Target[i] => ~ Serving(j)
      BY <2>1, <2>4 DEF Serving
    <3>2. Started(i)' /\ Serving(i)'
      BY <1>1, <2>1, <2>7 DEF Started, Serving
    <3> QED
      BY <2>2, <2>3, <3>1, <3>2 DEF Starts
  <2>9. ASSUME NEW j \in Irps, j # i PROVE Same(j)
    <3>1. Started(j)' <=> Started(j)
      BY <2>1, <2>6, <2>7, <2>9 DEF Started
    <3>2. Serving(j)' <=> Serving(j)
      BY <2>1, <2>4, <2>5, <2>6, <2>7, <2>9 DEF Serving
    <3> QED
      BY <2>2, <3>1, <3>2
  <2> QED
    BY <2>1, <2>3, <2>8, <2>9 DEF OneMoves, IrpStep
<1> QED
  BY <1>2, <1>3

(* What the reply and the removal do. *)
LEMMA PdoMoves ==
  ASSUME PathInv, PlaceOK, NEW p \in Pdos,
         TakeCurrentIrp(p) \/ FinishReply(p) \/ DestroyCurrentIrp(p) \/ DrainIrp(p)
  PROVE  OneMoves
<1> USE RequestPathAssumption
<1> USE DEF Same, SamePlaceOf, SameOutcome, Threads
<1>1. /\ TypeOK /\ ThreadOK
      /\ \A j \in Irps : IrpPlace(j)
  BY DEF PathInv, PlaceOK, ServiceOK
<1>2. CASE TakeCurrentIrp(p)
  <2> DEFINE i == currentIrp[p]
  <2>1. i \in Irps /\ Target[i] = p /\ held[p] = None /\ pc[p] = "found"
    <3>1. pc[p] = "found" /\ i # None
      BY <1>2 DEF TakeCurrentIrp
    <3> QED
      BY <1>1, <3>1 DEF TypeOK, ThreadOK, PathInv, TargetOK, CurrentTarget
  <2>2. /\ held' = [held EXCEPT ![p] = i]
        /\ currentIrp' = [currentIrp EXCEPT ![p] = None]
        /\ pc' = [pc EXCEPT ![p] = "taken"]
        /\ UNCHANGED <<issued, dispatched, ioStatus, completions, lockTags>>
    BY <1>2 DEF TakeCurrentIrp
  <2>3. /\ \A q \in Pdos : currentIrp'[q] = IF q = p THEN None ELSE currentIrp[q]
        /\ \A u \in Threads : held'[u] = IF u = p THEN i ELSE held[u]
        /\ \A u \in Threads : pc'[u] = IF u = p THEN "taken" ELSE pc[u]
    BY <1>1, <2>1, <2>2 DEF TypeOK
  <2>4. ASSUME NEW j \in Irps PROVE Same(j)
    <3>1. Target[j] \in Pdos
      OBVIOUS
    <3>2. Started(j)' <=> Started(j)
      <4>1. CASE j = i
        BY <2>1, <2>3, <4>1 DEF Started
      <4>2. CASE j # i
        BY <2>1, <2>3, <3>1, <4>2 DEF Started
      <4> QED
        BY <4>1, <4>2
    <3>3. Serving(j)' <=> Serving(j)
      BY <2>1, <2>3, <3>1 DEF Serving
    <3> QED
      BY <2>2, <3>2, <3>3
  <2> QED
    BY <2>4 DEF OneMoves
<1>3. CASE FinishReply(p)
  <2>1. PICK i \in Irps : i = held[p] /\ Target[i] = p /\ pc[p] = "taken"
    <3> DEFINE i == held[p]
    <3>1. pc[p] = "taken" /\ i # None /\ at[p] = p
      BY <1>1, <1>3 DEF FinishReply, ThreadOK, InPdo
    <3> QED
      BY <1>1, <3>1 DEF TypeOK, PathInv, TargetOK, HeldTarget
  <2>2. /\ held' = [held EXCEPT ![p] = None]
        /\ pc' = [pc EXCEPT ![p] = "next"]
        /\ lockTags' = [lockTags EXCEPT ![i] = @ - 1]
        /\ ioStatus' = [ioStatus EXCEPT ![i] =
                           IF i \in cancelFlag THEN "cancelled" ELSE "served"]
        /\ completions' = [completions EXCEPT ![i] = @ + 1]
        /\ UNCHANGED <<issued, dispatched, currentIrp>>
    BY <1>3, <2>1 DEF FinishReply, Complete
  <2>3. /\ i \in issued /\ i \notin dispatched /\ Started(i)
        /\ currentIrp[Target[i]] # i
        /\ \A u \in Threads : held[u] = i => u = p
        /\ i \notin cancelFlag => completions[i] = 0
    BY <1>1, <2>1 DEF IrpPlace, Started
  <2>4. /\ \A u \in Threads : held'[u] = IF u = p THEN None ELSE held[u]
        /\ \A u \in Threads : pc'[u] = IF u = p THEN "next" ELSE pc[u]
    BY <1>1, <2>2 DEF TypeOK
  <2>5. Ends(i) /\ i \in issued'
    <3>1. ~ Started(i)' /\ ~ Serving(i)'
      BY <2>1, <2>2, <2>3, <2>4 DEF Started, Serving
    <3>2. Serving(i)
      BY <2>1 DEF Serving
    <3> QED
      BY <1>1, <2>1, <2>2, <2>3, <3>1, <3>2 DEF Ends, Completed, TypeOK
  <2>6. ASSUME NEW j \in Irps, j # i PROVE Same(j)
    <3>1. Target[j] \in Pdos
      OBVIOUS
    <3>2. Started(j)' <=> Started(j)
      BY <2>1, <2>2, <2>4, <2>6 DEF Started
    <3>3. Serving(j)' <=> Serving(j)
      BY <2>1, <2>2, <2>4, <2>6, <3>1 DEF Serving
    <3> QED
      BY <1>1, <2>1, <2>2, <2>6, <3>2, <3>3 DEF TypeOK
  <2> QED
    BY <2>1, <2>3, <2>5, <2>6 DEF OneMoves, IrpStep
<1>4. CASE DestroyCurrentIrp(p)
  <2>1. PICK i \in Irps : i = currentIrp[p] /\ Target[i] = p
    BY <1>1, <1>4 DEF DestroyCurrentIrp, TypeOK, PathInv, TargetOK, CurrentTarget
  <2>2. /\ currentIrp' = [currentIrp EXCEPT ![p] = None]
        /\ lockTags' = [lockTags EXCEPT ![i] = @ - 1]
        /\ ioStatus' = [ioStatus EXCEPT ![i] = "cancelled"]
        /\ completions' = [completions EXCEPT ![i] = @ + 1]
        /\ UNCHANGED <<issued, dispatched, held, pc>>
    BY <1>4, <2>1 DEF DestroyCurrentIrp, Complete, threadVars
  <2>3. /\ i \in issued /\ i \notin dispatched
        /\ \A u \in Threads : held[u] # i
    BY <1>1, <2>1 DEF IrpPlace, Started
  <2>4. \A q \in Pdos : currentIrp'[q] = IF q = p THEN None ELSE currentIrp[q]
    BY <1>1, <2>2 DEF TypeOK
  <2>5. Ends(i) /\ i \in issued'
    <3>1. ~ Started(i)' /\ ~ Serving(i)'
      BY <2>1, <2>2, <2>3, <2>4 DEF Started, Serving
    <3>2. Serving(i)
      BY <2>1 DEF Serving
    <3> QED
      BY <1>1, <2>1, <2>2, <2>3, <3>1, <3>2 DEF Ends, Completed, TypeOK
  <2>6. ASSUME NEW j \in Irps, j # i PROVE Same(j)
    <3>1. Target[j] \in Pdos
      OBVIOUS
    <3>2. Started(j)' <=> Started(j)
      BY <2>1, <2>2, <2>4, <2>6, <3>1 DEF Started
    <3>3. Serving(j)' <=> Serving(j)
      BY <2>1, <2>2, <2>4, <2>6, <3>1 DEF Serving
    <3> QED
      BY <1>1, <2>1, <2>2, <2>6, <3>2, <3>3 DEF TypeOK
  <2> QED
    BY <2>1, <2>3, <2>5, <2>6 DEF OneMoves, IrpStep
<1>5. CASE DrainIrp(p)
  <2>1. PICK i \in Irps : i = Head(irpQueue[p]) /\ Queued(i)
    <3> DEFINE i == Head(irpQueue[p])
    <3>1. irpQueue[p] \in Seq(Irps) /\ irpQueue[p] # <<>>
      BY <1>1, <1>5 DEF DrainIrp, TypeOK
    <3>2. 1 \in DOMAIN irpQueue[p] /\ i = irpQueue[p][1] /\ i \in Irps
      BY <3>1, TailElements
    <3>3. Target[i] = p
      BY <3>2 DEF PathInv, TargetOK, QueueTarget
    <3> QED
      BY <3>2, <3>3 DEF Queued, ToSet
  <2>2. /\ ioStatus' = [ioStatus EXCEPT ![i] = "cancelled"]
        /\ completions' = [completions EXCEPT ![i] = @ + 1]
        /\ UNCHANGED <<issued, dispatched, lockTags, currentIrp, held, pc>>
    BY <1>5, <2>1 DEF DrainIrp, Complete, threadVars
  <2>3. i \in issued /\ i \notin dispatched
    BY <1>1, <2>1 DEF IrpPlace
  <2>4. \A j \in Irps : SamePlaceOf(j)
    BY <2>2 DEF Started, Serving
  <2>5. LeavesQueue(i) /\ i \in issued'
    BY <1>1, <2>1, <2>2, <2>3, <2>4 DEF LeavesQueue, Completed, TypeOK
  <2>6. \A j \in Irps : j # i => Same(j)
    BY <1>1, <2>1, <2>2, <2>4 DEF TypeOK
  <2> QED
    BY <2>1, <2>3, <2>5, <2>6 DEF OneMoves, IrpStep
<1> QED
  BY <1>2, <1>3, <1>4, <1>5

(* A step moves one IRP at most. *)
LEMMA OneIrpMoves ==
  ASSUME PathInv, PlaceOK, [Next]_vars
  PROVE  OneMoves
<1>1. ASSUME SamePlaces, UNCHANGED <<ioStatus, lockTags>>,
             \A p \in Pdos : pc'[p] = "taken" <=> pc[p] = "taken"
      PROVE  OneMoves
  <2>1. ASSUME NEW i \in Irps PROVE Same(i)
    BY <1>1, RequestPathAssumption
    DEF Same, SamePlaceOf, SameOutcome, SamePlaces, Started, Serving
  <2> QED
    BY <2>1 DEF OneMoves
<1>2. TypeOK /\ ThreadOK
  BY DEF PathInv
<1> QED
  BY <1>1, <1>2, UntouchedSteps, IrpMoves, StartMoves, PdoMoves

-----------------------------------------------------------------------------
(* The status and the remove lock. *)
LEMMA ServingIsStarted == \A i \in Irps : Serving(i) => Started(i)
  BY RequestPathAssumption DEF Serving, Started, Threads

LEMMA NextStatus ==
  ASSUME PathInv, PlaceOK, StatusOK, [Next]_vars
  PROVE  StatusOK'
<1> USE DEF Same, SamePlaceOf, SameOutcome, Completed, StatusOK
<1>1. /\ completions \in [Irps -> Nat] /\ lockTags \in [Irps -> Int]
      /\ \A j \in Irps : IrpPlace(j)
  BY DEF PathInv, PlaceOK, TypeOK
<1>2. ASSUME NEW j \in Irps, Same(j)
      PROVE  /\ completions'[j] = 0 <=> ioStatus'[j] = "pending"
             /\ ioStatus'[j] \in {"served", "nodevice"} => ~ Started(j)'
             /\ ioStatus'[j] # "nodevice" =>
                  lockTags'[j] = IF j \in dispatched' \/ Started(j)' THEN 1 ELSE 0
  BY <1>2
<1>3. CASE \A j \in Irps : Same(j)
  BY <1>2, <1>3
<1>4. ASSUME NEW i \in Irps, IrpStep(i), \A j \in Irps : j # i => Same(j)
      PROVE  StatusOK'
  <2> SUFFICES
        /\ completions'[i] = 0 <=> ioStatus'[i] = "pending"
        /\ ioStatus'[i] \in {"served", "nodevice"} => ~ Started(i)'
        /\ ioStatus'[i] # "nodevice" =>
             lockTags'[i] = IF i \in dispatched' \/ Started(i)' THEN 1 ELSE 0
    BY <1>2, <1>4
  <2>1. /\ completions[i] \in Nat /\ lockTags[i] \in Int
        /\ i \notin issued => i \notin dispatched /\ completions[i] = 0
        /\ i \in dispatched => completions[i] = 0 /\ ~ Started(i)
        /\ Queued(i) => completions[i] = 0 /\ ~ Started(i)
        /\ Serving(i) => Started(i)
    BY <1>1, ServingIsStarted DEF IrpPlace
  <2>2. CASE Enters(i)
    BY <2>1, <2>2 DEF Enters
  <2>3. CASE Waits(i)
    BY <2>1, <2>3 DEF Waits
  <2>4. CASE LeavesQueue(i)
    BY <2>1, <2>4 DEF LeavesQueue
  <2>5. CASE IsTaken(i)
    BY <2>1, <2>5 DEF IsTaken
  <2>6. CASE Starts(i)
    BY <2>1, <2>6 DEF Starts
  <2>7. CASE IsCancelled(i)
    BY <2>1, <2>7 DEF IsCancelled
  <2>8. CASE Ends(i)
    BY <2>1, <2>8 DEF Ends
  <2> QED
    BY <1>4, <2>2, <2>3, <2>4, <2>5, <2>6, <2>7, <2>8 DEF IrpStep
<1> QED
  BY <1>3, <1>4, OneIrpMoves DEF OneMoves

LEMMA StatusInvariant == Spec => [](PathInv /\ PlaceOK /\ StatusOK)
<1>1. Init => StatusOK
  BY RequestPathAssumption DEF Init, StatusOK, Started, Threads
<1>2. PathInv /\ PlaceOK /\ StatusOK /\ [Next]_vars => StatusOK'
  BY NextStatus
<1> QED
  BY <1>1, <1>2, PlaceInvariant, PTL DEF Spec

(* Every path that ends a dispatch or a started IRP releases the remove    *)
(* lock once: Bus_Scsi what it acquired (busenum.c:1308), the reply and    *)
(* the removal what CurrentIrp holds (busenum.c:829, pnp.c:1059).          *)
THEOREM RemoveLockCorrect == Spec => []RemoveLockBalanced
<1>1. StatusOK => RemoveLockBalanced
  BY DEF StatusOK, RemoveLockBalanced
<1> QED
  BY <1>1, StatusInvariant, PTL

-----------------------------------------------------------------------------
(* The outcome of a request.                                               *)
LEMMA PhaseStep ==
  ASSUME PathInv, PlaceOK, StatusOK, StatusOK', [Next]_vars
  PROVE  [Abstract!Next]_([i \in Irps |-> Phase(i)])
<1> DEFINE phase == [i \in Irps |-> Phase(i)]
           phaseNext == [i \in Irps |-> Phase(i)']
<1>1. ASSUME NEW j \in Irps
      PROVE  /\ Phase(j) = IF ioStatus[j] = "served" THEN "served"
                           ELSE IF ioStatus[j] # "pending" THEN "aborted"
                           ELSE IF Serving(j) THEN "serving"
                           ELSE IF j \in issued THEN "waiting" ELSE "new"
             /\ Phase(j)' = IF ioStatus'[j] = "served" THEN "served"
                            ELSE IF ioStatus'[j] # "pending" THEN "aborted"
                            ELSE IF Serving(j)' THEN "serving"
                            ELSE IF j \in issued' THEN "waiting" ELSE "new"
  BY DEF Phase, Serving
<1>2. ASSUME NEW j \in Irps, Same(j)
      PROVE  Phase(j)' = Phase(j)
  BY <1>1, <1>2 DEF Same, SamePlaceOf, SameOutcome
<1>3. CASE \A j \in Irps : Same(j)
  <2>1. phaseNext = phase
    BY <1>2, <1>3
  <2> QED
    BY <2>1
<1>4. ASSUME NEW i \in Irps, IrpStep(i), \A j \in Irps : j # i => Same(j)
      PROVE  [Abstract!Next]_phase
  <2>1. phaseNext = [phase EXCEPT ![i] = Phase(i)']
    BY <1>2, <1>4
  <2>2. /\ completions[i] \in Nat
        /\ completions[i] = 0 <=> ioStatus[i] = "pending"
        /\ completions'[i] = 0 <=> ioStatus'[i] = "pending"
        /\ i \notin issued => i \notin dispatched /\ completions[i] = 0
        /\ i \in dispatched => completions[i] = 0 /\ ~ Started(i)
        /\ Queued(i) => completions[i] = 0 /\ ~ Started(i)
        /\ Serving(i) => Started(i)
        /\ ioStatus[i] = "served" => ~ Started(i)
    BY ServingIsStarted DEF PathInv, TypeOK, PlaceOK, IrpPlace, StatusOK
  <2>3. \/ Phase(i)' = Phase(i)
        \/ Phase(i) = "new" /\ Phase(i)' = "waiting"
        \/ /\ Phase(i) = "waiting" /\ Phase(i)' = "serving"
           /\ \A j \in Irps : Target[j] = Target[i] => ~ Serving(j)
        \/ Phase(i) = "serving" /\ Phase(i)' = "served"
        \/ Phase(i) \in {"new", "waiting", "serving"} /\ Phase(i)' = "aborted"
    <3> USE <2>2 DEF Same, SamePlaceOf, SameOutcome, Completed
    <3>1. CASE Enters(i)
      BY <1>1, <3>1 DEF Enters
    <3>2. CASE i \in issued /\ i \in issued' /\ Waits(i)
      BY <1>1, <3>2 DEF Waits
    <3>3. CASE i \in issued /\ i \in issued' /\ LeavesQueue(i)
      BY <1>1, <3>3 DEF LeavesQueue
    <3>4. CASE i \in issued /\ i \in issued' /\ IsTaken(i)
      BY <1>1, <3>4 DEF IsTaken
    <3>5. CASE i \in issued /\ i \in issued' /\ Starts(i)
      BY <1>1, <3>5 DEF Starts
    <3>6. CASE i \in issued /\ i \in issued' /\ IsCancelled(i)
      BY <1>1, <3>6 DEF IsCancelled
    <3>7. CASE i \in issued /\ i \in issued' /\ Ends(i)
      BY <1>1, <3>7 DEF Ends
    <3> QED
      BY <1>4, <3>1, <3>2, <3>3, <3>4, <3>5, <3>6, <3>7 DEF IrpStep
  <2>4. ASSUME NEW j \in Irps, ~ Serving(j) PROVE Phase(j) # "serving"
    BY <1>1, <2>4
  <2> HIDE DEF Phase
  <2>5. phase[i] = Phase(i) /\ \A j \in Irps : phase[j] = Phase(j)
    OBVIOUS
  <2> QED
    BY <2>1, <2>3, <2>4, <2>5
    DEF Abstract!Next, Abstract!Accept, Abstract!Serve, Abstract!Succeed, Abstract!Abort
<1> QED
  BY <1>3, <1>4, OneIrpMoves DEF OneMoves

(* The driver and the service keep the promises of DiskRequests: one       *)
(* request of a disk is served at a time and each has one outcome,         *)
(* whichever of the dispatch, the reply, the cancellation and the removal  *)
(* gets to it.                                                             *)
THEOREM OutcomeCorrect == Spec => ImplementsDiskRequests
<1>1. Init => Abstract!Init
  BY RequestPathAssumption DEF Init, Abstract!Init, Phase, Threads
<1>2. /\ PathInv /\ PlaceOK /\ StatusOK /\ StatusOK'
      /\ [Next]_vars
      => [Abstract!Next]_([i \in Irps |-> Phase(i)])
  BY PhaseStep
<1> QED
  BY <1>1, <1>2, StatusInvariant, PTL DEF Spec, ImplementsDiskRequests, Abstract!Spec

-----------------------------------------------------------------------------
(* The GET_REQUEST IRPs: one is on the queue once, with one thread, or     *)
(* completed, and empty until it is completed.                             *)
Waiting(r) == r \in ToSet(requestQueue)
HeldRq(r) == \E t \in Threads : rqIrp[t] = r

RequestOK ==
  /\ IsInjective(requestQueue)
  /\ \A r \in Reqs :
       /\ Waiting(r) \/ HeldRq(r) => carried[r] = None
       /\ Waiting(r) \/ HeldRq(r) \/ carried[r] # None => r \in outstanding
       /\ Waiting(r) => ~ HeldRq(r)
       /\ \A t, u \in Threads : rqIrp[t] = r /\ rqIrp[u] = r => t = u

(* A worker deletes itself only after its disk is gone, and CurrentIrp is  *)
(* with the service.                                                       *)
HasRequest(p) ==
  pnp[p] = "live" /\ currentIrp[p] # None =>
    \/ \E r \in Reqs : carried[r] = currentIrp[p]
    \/ slot[p] = currentIrp[p]
    \/ pc[p] = "found" /\ replying[p] = currentIrp[p]

InHandsOK == \A p \in Pdos : (pnp[p] # "gone" => p \in attached) /\ HasRequest(p)

LEMMA RequestSteps ==
  ASSUME [Next]_vars
  PROVE  \/ UNCHANGED <<requestQueue, outstanding, carried, rqIrp>>
         \/ \E i \in Irps : StartPacket(i)
         \/ \E r \in Reqs : GetRequest(r) \/ ProcessRequest(r)
         \/ \E t \in Threads : TakeRequest(t) \/ PutBackRequest(t) \/ StartTakenIrp(t)
<1> USE DEF irpVars, pdoVars, requestVars, threadVars, serviceVars
<1> DEFINE Same4 == UNCHANGED <<requestQueue, outstanding, carried, rqIrp>>
<1>1. ASSUME NEW i \in Irps, Scsi(i) \/ BusStartPacket(i) \/ IoCancelIrp(i)
      PROVE  Same4 \/ StartPacket(i)
  BY <1>1 DEF Scsi, BusStartPacket, IoCancelIrp,
     Bus_Scsi, Bus_ScsiDeleted, QueuePacket, QueueCancelledPacket, CancelQueued,
     Bus_CancelIrp, CancelInHand
<1>2. ASSUME NEW r \in Reqs, GetRequest(r) \/ Walk(r) \/ ProcessRequest(r)
      PROVE  Same4 \/ GetRequest(r) \/ ProcessRequest(r)
  BY <1>2 DEF Walk, WalkTo, WalkDone
<1>3. ASSUME NEW t \in Threads, BusStartNextPacket(t)
      PROVE  Same4 \/ TakeRequest(t) \/ PutBackRequest(t) \/ StartTakenIrp(t)
  BY <1>3 DEF BusStartNextPacket, NothingToStart, TakeQueuedIrp
<1>4. ASSUME NEW p \in Pdos, Worker(p) \/ RemovePdo(p) \/ DestroyPdo(p)
      PROVE  Same4
  BY <1>4 DEF Worker, DestroyPdo,
     SendReply, SendReplyRefused, ReplyWithoutIrp, TakeCurrentIrp, FinishReply,
     RemoveDiskFinal, RemovePdo, DestroyCurrentIrp, DestroyNoIrp, DrainIrp, DeletePdo
<1>5. ASSUME UNCHANGED vars
      PROVE  Same4
  BY <1>5 DEF vars
<1> HIDE DEF Same4
<1>6. \/ Same4
      \/ \E i \in Irps : StartPacket(i)
      \/ \E r \in Reqs : GetRequest(r) \/ ProcessRequest(r)
      \/ \E t \in Threads : TakeRequest(t) \/ PutBackRequest(t) \/ StartTakenIrp(t)
  BY <1>1, <1>2, <1>3, <1>4, <1>5 DEF Next
<1> QED
  BY <1>6 DEF Same4

(* The head of the shared queue leaves it. *)
LEMMA TakeHead ==
  ASSUME requestQueue \in Seq(Reqs), requestQueue # <<>>, IsInjective(requestQueue),
         requestQueue' = Tail(requestQueue)
  PROVE  /\ Head(requestQueue) \in Reqs /\ Waiting(Head(requestQueue))
         /\ IsInjective(requestQueue')
         /\ \A s \in Reqs : Waiting(s)' <=> Waiting(s) /\ s # Head(requestQueue)
<1>1. /\ 1 \in DOMAIN requestQueue /\ Head(requestQueue) = requestQueue[1]
      /\ Head(requestQueue) \in Reqs /\ requestQueue' = RemoveAt(requestQueue, 1)
  BY TailIsRemoval, TailElements
<1>2. /\ IsInjective(requestQueue')
      /\ ToSet(requestQueue') = ToSet(requestQueue) \ {Head(requestQueue)}
  BY <1>1, RemoveAtInjectiveList
<1>3. Waiting(Head(requestQueue))
  BY <1>1 DEF Waiting, ToSet
<1> QED
  BY <1>1, <1>2, <1>3 DEF Waiting

(* An IRP joins it. *)
LEMMA PutLast ==
  ASSUME requestQueue \in Seq(Reqs), IsInjective(requestQueue), NEW r \in Reqs,
         ~ Waiting(r), requestQueue' = Append(requestQueue, r)
  PROVE  /\ IsInjective(requestQueue')
         /\ \A s \in Reqs : Waiting(s)' <=> Waiting(s) \/ s = r
<1>1. /\ ToSet(requestQueue') = ToSet(requestQueue) \cup {r}
      /\ IsInjective(requestQueue')
  BY AppendInjectiveList DEF Waiting
<1> QED
  BY <1>1 DEF Waiting

LEMMA NextRequest ==
  ASSUME PathInv, RequestOK, [Next]_vars
  PROVE  RequestOK'
<1> USE RequestPathAssumption
<1>1. /\ requestQueue \in Seq(Reqs) /\ outstanding \in SUBSET Reqs
      /\ carried \in [Reqs -> Irps \cup {None}]
      /\ rqIrp \in [Threads -> Reqs \cup {None}]
      /\ held \in [Threads -> Irps \cup {None}]
      /\ ThreadOK /\ IsInjective(requestQueue)
  BY DEF PathInv, TypeOK, RequestOK
<1>2. CASE UNCHANGED <<requestQueue, outstanding, carried, rqIrp>>
  BY <1>2 DEF RequestOK, Waiting, HeldRq
<1>3. ASSUME NEW i \in Irps, StartPacket(i)
      PROVE  RequestOK'
  <2> DEFINE r == Head(requestQueue)
  <2>1. /\ requestQueue # <<>> /\ requestQueue' = Tail(requestQueue)
        /\ carried' = [carried EXCEPT ![r] = i]
        /\ UNCHANGED <<outstanding, rqIrp>>
    BY <1>3 DEF StartPacket, HandOver, threadVars
  <2>2. /\ r \in Reqs /\ Waiting(r) /\ IsInjective(requestQueue')
        /\ \A s \in Reqs : Waiting(s)' <=> Waiting(s) /\ s # r
    BY <1>1, <2>1, TakeHead
  <2> HIDE DEF r
  <2> QED
    BY <1>1, <2>1, <2>2 DEF RequestOK, HeldRq
<1>4. ASSUME NEW r \in Reqs, GetRequest(r)
      PROVE  RequestOK'
  <2>1. /\ r \notin outstanding /\ outstanding' = outstanding \cup {r}
        /\ requestQueue' = Append(requestQueue, r)
        /\ UNCHANGED <<carried, rqIrp>>
    BY <1>4 DEF GetRequest
  <2>2. ~ Waiting(r) /\ ~ HeldRq(r) /\ carried[r] = None
    BY <2>1 DEF RequestOK
  <2>3. /\ IsInjective(requestQueue')
        /\ \A s \in Reqs : Waiting(s)' <=> Waiting(s) \/ s = r
    BY <1>1, <2>1, <2>2, PutLast
  <2> QED
    BY <1>1, <2>1, <2>2, <2>3 DEF RequestOK, HeldRq
<1>5. ASSUME NEW r \in Reqs, ProcessRequest(r)
      PROVE  RequestOK'
  <2>1. /\ carried[r] # None /\ outstanding' = outstanding \ {r}
        /\ carried' = [carried EXCEPT ![r] = None]
        /\ UNCHANGED <<requestQueue, rqIrp>>
    BY <1>5 DEF ProcessRequest, threadVars
  <2> QED
    BY <1>1, <2>1 DEF RequestOK, Waiting, HeldRq
<1>6. ASSUME NEW t \in Threads, TakeRequest(t)
      PROVE  RequestOK'
  <2> DEFINE r == Head(requestQueue)
  <2>1. /\ requestQueue # <<>> /\ requestQueue' = Tail(requestQueue)
        /\ rqIrp' = [rqIrp EXCEPT ![t] = r]
        /\ UNCHANGED <<outstanding, carried>>
    BY <1>6 DEF TakeRequest
  <2>2. /\ r \in Reqs /\ Waiting(r) /\ IsInjective(requestQueue')
        /\ \A s \in Reqs : Waiting(s)' <=> Waiting(s) /\ s # r
    BY <1>1, <2>1, TakeHead
  <2> HIDE DEF r
  <2> QED
    BY <1>1, <2>1, <2>2 DEF RequestOK, HeldRq
<1>7. ASSUME NEW t \in Threads, PutBackRequest(t)
      PROVE  RequestOK'
  <2>1. PICK r \in Reqs : r = rqIrp[t]
    BY <1>1, <1>7 DEF PutBackRequest, ThreadOK
  <2>2. /\ requestQueue' = Append(requestQueue, r)
        /\ rqIrp' = [rqIrp EXCEPT ![t] = None]
        /\ UNCHANGED <<outstanding, carried>>
    BY <1>7, <2>1 DEF PutBackRequest
  <2>3. HeldRq(r) /\ ~ Waiting(r)
    BY <2>1 DEF RequestOK, HeldRq
  <2>4. /\ IsInjective(requestQueue')
        /\ \A s \in Reqs : Waiting(s)' <=> Waiting(s) \/ s = r
    BY <1>1, <2>2, <2>3, PutLast
  <2> QED
    BY <1>1, <2>1, <2>2, <2>3, <2>4 DEF RequestOK, HeldRq
<1>8. ASSUME NEW t \in Threads, StartTakenIrp(t)
      PROVE  RequestOK'
  <2>1. rqIrp[t] \in Reqs /\ held[t] \in Irps
    BY <1>1, <1>8 DEF StartTakenIrp, ThreadOK
  <2>2. /\ carried' = [carried EXCEPT ![rqIrp[t]] = held[t]]
        /\ rqIrp' = [rqIrp EXCEPT ![t] = None]
        /\ UNCHANGED <<outstanding, requestQueue>>
    BY <1>8 DEF StartTakenIrp, HandOver
  <2> QED
    BY <1>1, <2>1, <2>2 DEF RequestOK, Waiting, HeldRq
<1> QED
  BY <1>2, <1>3, <1>4, <1>5, <1>6, <1>7, <1>8, RequestSteps

(* Only a worker whose disk is gone leaves, and a disk does not come back. *)
LEMMA AttachedSteps ==
  ASSUME TypeOK, [Next]_vars
  PROVE  \A p \in Pdos : /\ pnp[p] = "gone" => pnp'[p] = "gone"
                         /\ p \in attached /\ p \notin attached' => pnp[p] = "gone"
<1> USE DEF irpVars, pdoVars, requestVars, threadVars, serviceVars
<1> DEFINE Stays == UNCHANGED <<attached, pnp>>
           Goal(p) == /\ pnp[p] = "gone" => pnp'[p] = "gone"
                      /\ p \in attached /\ p \notin attached' => pnp[p] = "gone"
<1>1. ASSUME NEW i \in Irps, Scsi(i) \/ BusStartPacket(i) \/ IoCancelIrp(i)
      PROVE  Stays
  BY <1>1 DEF Scsi, BusStartPacket, IoCancelIrp,
     Bus_Scsi, Bus_ScsiDeleted, QueuePacket, QueueCancelledPacket, StartPacket,
     CancelQueued, Bus_CancelIrp, CancelInHand
<1>2. ASSUME NEW r \in Reqs, GetRequest(r) \/ Walk(r) \/ ProcessRequest(r)
      PROVE  Stays
  BY <1>2 DEF Walk, GetRequest, WalkTo, WalkDone, ProcessRequest
<1>3. ASSUME NEW t \in Threads, BusStartNextPacket(t)
      PROVE  Stays
  BY <1>3 DEF BusStartNextPacket,
     NothingToStart, TakeRequest, PutBackRequest, TakeQueuedIrp, StartTakenIrp
<1>4. ASSUME NEW q \in Pdos,
             \/ SendReply(q) \/ SendReplyRefused(q) \/ ReplyWithoutIrp(q)
             \/ TakeCurrentIrp(q) \/ FinishReply(q) \/ DrainIrp(q)
      PROVE  Stays
  BY <1>4 DEF SendReply, SendReplyRefused, ReplyWithoutIrp, TakeCurrentIrp, FinishReply,
     DrainIrp
<1>5. ASSUME NEW q \in Pdos, RemoveDiskFinal(q)
      PROVE  attached' = attached \ {q} /\ pnp[q] = "gone" /\ pnp' = pnp
  BY <1>5 DEF RemoveDiskFinal
<1>6. ASSUME NEW q \in Pdos,
             RemovePdo(q) \/ DestroyCurrentIrp(q) \/ DestroyNoIrp(q) \/ DeletePdo(q)
      PROVE  /\ attached' = attached /\ pnp[q] # "gone"
             /\ \E s \in PnpStates : pnp' = [pnp EXCEPT ![q] = s]
  BY <1>6 DEF RemovePdo, DestroyCurrentIrp, DestroyNoIrp, DeletePdo, PnpStates
<1>7. ASSUME UNCHANGED vars
      PROVE  Stays
  BY <1>7 DEF vars
<1>8. ASSUME NEW p \in Pdos, Stays PROVE Goal(p)
  BY <1>8
<1>9. ASSUME NEW p \in Pdos, NEW q \in Pdos, RemoveDiskFinal(q) PROVE Goal(p)
  BY <1>5, <1>9
<1>10. ASSUME NEW p \in Pdos, NEW q \in Pdos,
              RemovePdo(q) \/ DestroyCurrentIrp(q) \/ DestroyNoIrp(q) \/ DeletePdo(q)
       PROVE  Goal(p)
  BY <1>6, <1>10 DEF TypeOK
<1> HIDE DEF Stays, Goal
<1>11. \A p \in Pdos : Goal(p)
  BY <1>1, <1>2, <1>3, <1>4, <1>7, <1>8, <1>9, <1>10 DEF Next, Worker, DestroyPdo
<1> QED
  BY <1>11 DEF Goal

LEMMA NextHasRequest ==
  ASSUME PathInv, RequestOK, InHandsOK, [Next]_vars
  PROVE  \A p \in Pdos : HasRequest(p)'
<1> USE RequestPathAssumption
<1>1. /\ TypeOK /\ ThreadOK /\ TargetOK /\ IdleWhileStarting
      /\ \A p \in Pdos : DiskService(p)
      /\ \A p \in Pdos : HasRequest(p)
  BY ServiceByDisk DEF PathInv, ServiceOK, TargetOK, InHandsOK
<1> USE DEF HasRequest, Threads
<1>2. CASE SameService
  BY <1>1, <1>2 DEF SameService
<1>3. ASSUME NEW i \in Irps, NEW r \in Reqs,
             carried[r] = None, currentIrp[Target[i]] = None,
             carried' = [carried EXCEPT ![r] = i],
             currentIrp' = [currentIrp EXCEPT ![Target[i]] = i],
             UNCHANGED <<slot, replying, pnp>>,
             \A p \in Pdos : pc'[p] = "found" <=> pc[p] = "found",
             NEW p \in Pdos
      PROVE  HasRequest(p)'
  <2>1. /\ \A s \in Reqs : carried'[s] = IF s = r THEN i ELSE carried[s]
        /\ \A q \in Pdos : currentIrp'[q] = IF q = Target[i] THEN i ELSE currentIrp[q]
    BY <1>1, <1>3 DEF TypeOK
  <2>2. CASE p = Target[i]
    BY <2>1, <2>2
  <2>3. CASE p # Target[i]
    BY <1>1, <1>3, <2>1, <2>3
  <2> QED
    BY <2>2, <2>3
<1>4. ASSUME NEW i \in Irps, StartPacket(i), NEW p \in Pdos
      PROVE  HasRequest(p)'
  <2>1. PICK r \in Reqs : r = Head(requestQueue) /\ Waiting(r)
    <3>1. requestQueue \in Seq(Reqs) /\ requestQueue # <<>>
      BY <1>1, <1>4 DEF StartPacket, TypeOK
    <3>2. /\ 1 \in DOMAIN requestQueue /\ Head(requestQueue) = requestQueue[1]
          /\ Head(requestQueue) \in Reqs
      BY <3>1, TailElements
    <3> QED
      BY <3>2 DEF Waiting, ToSet
  <2>2. /\ currentIrp[Target[i]] = None
        /\ carried' = [carried EXCEPT ![r] = i]
        /\ currentIrp' = [currentIrp EXCEPT ![Target[i]] = i]
        /\ UNCHANGED <<slot, replying, pnp, pc>>
    BY <1>4, <2>1 DEF StartPacket, HandOver, threadVars, serviceVars
  <2>3. carried[r] = None
    BY <2>1 DEF RequestOK
  <2> HIDE DEF HasRequest
  <2> QED
    BY <1>3, <2>2, <2>3
<1>5. ASSUME NEW t \in Threads, StartTakenIrp(t), NEW p \in Pdos
      PROVE  HasRequest(p)'
  <2>1. PICK i \in Irps, r \in Reqs : i = held[t] /\ r = rqIrp[t] /\ Target[i] = at[t]
    BY <1>1, <1>5 DEF StartTakenIrp, ThreadOK, TypeOK, TargetOK, HeldTarget
  <2>2. carried[r] = None
    BY <2>1 DEF RequestOK, HeldRq
  <2>3. currentIrp[Target[i]] = None
    BY <1>1, <1>5, <2>1 DEF StartTakenIrp, IdleWhileStarting, LockPlaces
  <2>4. /\ carried' = [carried EXCEPT ![r] = i]
        /\ currentIrp' = [currentIrp EXCEPT ![Target[i]] = i]
        /\ UNCHANGED <<slot, replying, pnp>>
    BY <1>5, <2>1 DEF StartTakenIrp, HandOver, serviceVars
  <2>5. \A q \in Pdos : pc'[q] = "found" <=> pc[q] = "found"
    BY <1>1, <1>5 DEF StartTakenIrp, AfterStartNext, TypeOK
  <2> HIDE DEF HasRequest
  <2> QED
    BY <1>3, <2>2, <2>3, <2>4, <2>5
<1>6. ASSUME NEW r \in Reqs, ProcessRequest(r), NEW p \in Pdos
      PROVE  HasRequest(p)'
  <2>1. PICK i \in Irps : i = carried[r]
    BY <1>1, <1>6 DEF ProcessRequest, TypeOK
  <2>2. /\ carried' = [carried EXCEPT ![r] = None]
        /\ slot' = IF Target[i] \in attached THEN [slot EXCEPT ![Target[i]] = i] ELSE slot
        /\ UNCHANGED <<currentIrp, replying, pc, pnp>>
    BY <1>6, <2>1 DEF ProcessRequest, pdoVars, threadVars
  <2>3. \A s \in Reqs : carried'[s] = IF s = r THEN None ELSE carried[s]
    BY <1>1, <2>2 DEF TypeOK
  <2>4. CASE Target[i] = p /\ pnp[p] = "live"
    <3>1. p \in attached /\ currentIrp[p] = i
      BY <1>1, <2>1, <2>4 DEF InHandsOK, DiskService
    <3> QED
      BY <1>1, <2>2, <2>4, <3>1 DEF TypeOK
  <2>5. CASE Target[i] # p /\ pnp[p] = "live"
    <3>1. slot'[p] = slot[p]
      BY <1>1, <2>2, <2>5 DEF TypeOK
    <3>2. currentIrp[p] # None => currentIrp[p] # i
      BY <1>1, <2>5 DEF TargetOK, CurrentTarget
    <3> QED
      BY <1>1, <2>1, <2>2, <2>3, <3>1, <3>2
  <2> QED
    BY <2>2, <2>4, <2>5
<1>7. ASSUME NEW q \in Pdos, SendReply(q), NEW p \in Pdos
      PROVE  HasRequest(p)'
  <2>1. /\ pc[q] = "user" /\ slot[q] # None /\ pnp[q] = "live"
        /\ slot' = [slot EXCEPT ![q] = None]
        /\ replying' = [replying EXCEPT ![q] = slot[q]]
        /\ pc' = [pc EXCEPT ![q] = "found"]
        /\ UNCHANGED <<currentIrp, carried, pnp>>
    BY <1>7 DEF SendReply, pdoVars, requestVars, Listed
  <2>2. CASE p = q
    <3>1. currentIrp[p] = slot[p]
      BY <1>1, <2>1, <2>2 DEF DiskService
    <3> QED
      BY <1>1, <2>1, <2>2, <3>1 DEF TypeOK
  <2>3. CASE p # q
    BY <1>1, <2>1, <2>3 DEF TypeOK
  <2> QED
    BY <2>2, <2>3
<1>8. ASSUME NEW q \in Pdos, SendReplyRefused(q), NEW p \in Pdos
      PROVE  HasRequest(p)'
  BY <1>1, <1>8 DEF SendReplyRefused, pdoVars, requestVars, threadVars, Listed, TypeOK
<1>9. ASSUME NEW q \in Pdos, ReplyWithoutIrp(q), NEW p \in Pdos
      PROVE  HasRequest(p)'
  BY <1>1, <1>9 DEF ReplyWithoutIrp, pdoVars, requestVars, TypeOK
<1>10. ASSUME NEW q \in Pdos, TakeCurrentIrp(q), NEW p \in Pdos
       PROVE  HasRequest(p)'
  BY <1>1, <1>10 DEF TakeCurrentIrp, requestVars, serviceVars, TypeOK
<1>11. ASSUME NEW q \in Pdos, FinishReply(q), NEW p \in Pdos
       PROVE  HasRequest(p)'
  BY <1>1, <1>11 DEF FinishReply, requestVars, TypeOK
<1>12. ASSUME NEW q \in Pdos, DestroyCurrentIrp(q), NEW p \in Pdos
       PROVE  HasRequest(p)'
  BY <1>1, <1>12 DEF DestroyCurrentIrp, requestVars, serviceVars, threadVars, TypeOK
<1> HIDE DEF HasRequest
<1> QED
  BY <1>1, <1>2, <1>4, <1>5, <1>6, <1>7, <1>8, <1>9, <1>10, <1>11, <1>12, ServiceSteps

LEMMA HandsInvariant == Spec => [](PathInv /\ RequestOK /\ InHandsOK)
<1>1. Init => RequestOK /\ InHandsOK
  BY RequestPathAssumption
  DEF Init, RequestOK, InHandsOK, HasRequest, Waiting, HeldRq, ToSet, IsInjective, Threads
<1>2. PathInv /\ RequestOK /\ [Next]_vars => RequestOK'
  BY NextRequest
<1>3. PathInv /\ RequestOK /\ InHandsOK /\ [Next]_vars => InHandsOK'
  <2> SUFFICES ASSUME PathInv, RequestOK, InHandsOK, [Next]_vars PROVE InHandsOK'
    OBVIOUS
  <2>1. \A p \in Pdos : HasRequest(p)'
    BY NextHasRequest
  <2>2. \A p \in Pdos : pnp'[p] # "gone" => p \in attached'
    BY AttachedSteps DEF PathInv, InHandsOK
  <2> QED
    BY <2>1, <2>2 DEF InHandsOK
<1> QED
  BY <1>1, <1>2, <1>3, PathInvariant, PTL DEF Spec

(* While a disk is not being removed, its CurrentIrp is with the service,  *)
(* so that somebody is going to reply: the request IRP it was handed to is *)
(* not reused before the service has it (disksrv.cpp:662), and the worker  *)
(* stays as long as the disk (disksrv.cpp:287).                            *)
THEOREM CurrentCorrect == Spec => []CurrentIsInService
<1>1. PathInv /\ RequestOK /\ InHandsOK => CurrentIsInService
  <2> SUFFICES ASSUME PathInv, InHandsOK, NEW p \in Pdos,
                      pnp[p] = "live", currentIrp[p] # None
               PROVE  InService(currentIrp[p])
    BY DEF CurrentIsInService
  <2>1. Target[currentIrp[p]] = p
    BY DEF PathInv, TargetOK, CurrentTarget
  <2> QED
    BY <2>1 DEF InHandsOK, HasRequest, InService, CarriedBy, WithWorker, BeingReplied
<1> QED
  BY <1>1, HandsInvariant, PTL

-----------------------------------------------------------------------------
(* Lost wake-ups.                                                          *)

(* A step that takes nothing from p that keeps it from being stranded. *)
KeepsGoing(p) ==
  /\ pnp'[p] = "live" => pnp[p] = "live"
  /\ currentIrp'[p] = None => currentIrp[p] = None
  /\ irpQueue'[p] # <<>> => irpQueue[p] # <<>>
  /\ requestQueue' # <<>> => requestQueue # <<>>
  /\ WillStart(p) => WillStart(p)'

LEMMA NotStrandedYet ==
  ASSUME NEW p \in Pdos, KeepsGoing(p), ~ Stranded(p)
  PROVE  ~ Stranded(p)'
  BY DEF KeepsGoing, Stranded, Listed

(* A step that moves at most thread t, and not away from p. *)
LEMMA ThreadKeepsGoing ==
  ASSUME ThreadOK, NEW p \in Pdos, NEW t \in Threads,
         \A u \in Threads : u # t => pc'[u] = pc[u] /\ at'[u] = at[u],
         at[t] = p => pc[t] \notin {"taken", "next", "rqTaken", "irpTaken"},
         t \in Reqs => pc'[t] # "user",
         \A r \in Reqs : p \in todo[r] => p \in todo'[r],
         WillStart(p)
  PROVE  WillStart(p)'
  BY DEF WillStart, Threads

LEMMA StrandedSteps ==
  ASSUME TypeOK, [Next]_vars
  PROVE  \/ \A p \in Pdos : KeepsGoing(p)
         \/ \E i \in Irps : QueuePacket(i) \/ StartPacket(i) \/ CancelQueued(i)
         \/ \E r \in Reqs : GetRequest(r) \/ Walk(r)
         \/ \E t \in Threads : BusStartNextPacket(t)
         \/ \E p \in Pdos : \/ SendReply(p) \/ ReplyWithoutIrp(p) \/ TakeCurrentIrp(p)
                            \/ FinishReply(p) \/ DestroyCurrentIrp(p) \/ DrainIrp(p)
<1> USE DEF irpVars, pdoVars, requestVars, threadVars, serviceVars
<1> DEFINE Goes == \A p \in Pdos : KeepsGoing(p)
           Still == /\ UNCHANGED <<irpQueue, currentIrp, requestQueue, pc, at, todo>>
                    /\ \A p \in Pdos : pnp'[p] = "live" => pnp[p] = "live"
<1>1. ASSUME Still PROVE Goes
  BY <1>1 DEF KeepsGoing, WillStart
<1>2. ASSUME NEW i \in Irps, Scsi(i) \/ QueueCancelledPacket(i) \/ Bus_CancelIrp(i)
                             \/ CancelInHand(i)
      PROVE  Still
  BY <1>2 DEF Scsi, Bus_Scsi, Bus_ScsiDeleted, QueueCancelledPacket, Bus_CancelIrp,
     CancelInHand
<1>3. ASSUME NEW r \in Reqs, ProcessRequest(r)
      PROVE  Still
  BY <1>3 DEF ProcessRequest
<1>4. ASSUME NEW p \in Pdos, SendReplyRefused(p) \/ RemoveDiskFinal(p)
      PROVE  Still
  BY <1>4 DEF SendReplyRefused, RemoveDiskFinal
<1>5. ASSUME NEW p \in Pdos, RemovePdo(p) \/ DestroyNoIrp(p) \/ DeletePdo(p)
      PROVE  Still
  BY <1>5 DEF RemovePdo, DestroyNoIrp, DeletePdo, TypeOK
<1>6. ASSUME UNCHANGED vars
      PROVE  Still
  BY <1>6 DEF vars
<1> HIDE DEF Goes, Still
<1>7. \/ Goes
      \/ \E i \in Irps : QueuePacket(i) \/ StartPacket(i) \/ CancelQueued(i)
      \/ \E r \in Reqs : GetRequest(r) \/ Walk(r)
      \/ \E t \in Threads : BusStartNextPacket(t)
      \/ \E p \in Pdos : \/ SendReply(p) \/ ReplyWithoutIrp(p) \/ TakeCurrentIrp(p)
                         \/ FinishReply(p) \/ DestroyCurrentIrp(p) \/ DrainIrp(p)
  BY <1>1, <1>2, <1>3, <1>4, <1>5, <1>6
  DEF Next, BusStartPacket, IoCancelIrp, Worker, DestroyPdo
<1> QED
  BY <1>7 DEF Goes

(* The one step that strands a disk. *)
LEMMA StrandedStep ==
  ASSUME PathInv, [Next]_vars, NEW p \in Pdos, Stranded(p)', ~ Stranded(p)
  PROVE  \E t \in Threads : PutBackRequest(t) /\ at[t] # p
<1> USE RequestPathAssumption
<1> USE DEF irpVars, pdoVars, requestVars, threadVars, serviceVars, Threads
<1>1. /\ TypeOK /\ ThreadOK
      /\ ~ KeepsGoing(p)
      /\ pnp'[p] = "live" /\ currentIrp'[p] = None
      /\ irpQueue'[p] # <<>> /\ requestQueue' # <<>>
      /\ ~ WillStart(p)'
  BY NotStrandedYet DEF PathInv, Stranded, Listed
<1>2. ASSUME NEW i \in Irps, QueuePacket(i)
      PROVE  FALSE
  <2>1. UNCHANGED <<currentIrp, pnp, requestQueue, pc, at, todo>>
    BY <1>2 DEF QueuePacket
  <2>2. Target[i] = p => currentIrp[p] # None \/ requestQueue = <<>>
    BY <1>2 DEF QueuePacket
  <2>3. Target[i] # p => irpQueue'[p] = irpQueue[p]
    BY <1>1, <1>2 DEF QueuePacket, TypeOK
  <2> QED
    BY <1>1, <2>1, <2>2, <2>3 DEF KeepsGoing, WillStart
<1>3. ASSUME NEW i \in Irps, StartPacket(i)
      PROVE  FALSE
  <2>1. UNCHANGED <<irpQueue, pnp, pc, at, todo>> /\ requestQueue # <<>>
    BY <1>3 DEF StartPacket
  <2>2. currentIrp'[p] = IF Target[i] = p THEN i ELSE currentIrp[p]
    BY <1>1, <1>3 DEF StartPacket, HandOver, TypeOK
  <2> QED
    BY <1>1, <2>1, <2>2 DEF KeepsGoing, WillStart
<1>4. ASSUME NEW i \in Irps, CancelQueued(i)
      PROVE  FALSE
  <2>1. UNCHANGED <<currentIrp, pnp, requestQueue, pc, at, todo>>
    BY <1>4 DEF CancelQueued
  <2>2. PICK k \in DOMAIN irpQueue[Target[i]] :
          irpQueue' = [irpQueue EXCEPT ![Target[i]] = RemoveAt(@, k)]
    BY <1>4 DEF CancelQueued
  <2>3. irpQueue[Target[i]] # <<>>
    BY <2>2
  <2>4. Target[i] # p => irpQueue'[p] = irpQueue[p]
    BY <1>1, <2>2 DEF TypeOK
  <2> QED
    BY <1>1, <2>1, <2>3, <2>4 DEF KeepsGoing, WillStart
<1>5. ASSUME NEW q \in Pdos, DrainIrp(q)
      PROVE  FALSE
  <2>1. UNCHANGED <<currentIrp, pnp, requestQueue, pc, at, todo>> /\ irpQueue[q] # <<>>
    BY <1>5 DEF DrainIrp
  <2>2. q # p => irpQueue'[p] = irpQueue[p]
    BY <1>1, <1>5 DEF DrainIrp, TypeOK
  <2> QED
    BY <1>1, <2>1, <2>2 DEF KeepsGoing, WillStart
<1>6. ASSUME NEW q \in Pdos, DestroyCurrentIrp(q)
      PROVE  FALSE
  <2>1. UNCHANGED <<irpQueue, requestQueue, pc, at, todo>> /\ pnp'[q] = "draining"
    BY <1>1, <1>6 DEF DestroyCurrentIrp, TypeOK
  <2>2. q # p => currentIrp'[p] = currentIrp[p] /\ pnp'[p] = pnp[p]
    BY <1>1, <1>6 DEF DestroyCurrentIrp, TypeOK
  <2> QED
    BY <1>1, <2>1, <2>2 DEF KeepsGoing, WillStart
<1>7. ASSUME NEW r \in Reqs, GetRequest(r)
      PROVE  FALSE
  <2>1. pc'[r] = "walk" /\ todo'[r] = Listed /\ pnp' = pnp
    BY <1>1, <1>7 DEF GetRequest, TypeOK
  <2> QED
    BY <1>1, <2>1 DEF WillStart, Listed
<1>8. ASSUME NEW r \in Reqs, NEW q \in Pdos, WalkTo(r, q)
      PROVE  FALSE
  <2>1. /\ UNCHANGED <<irpQueue, currentIrp, pnp, requestQueue>>
        /\ pc[r] = "walk" /\ pc'[r] = "next" /\ at'[r] = q
        /\ \A u \in Threads : u # r => pc'[u] = pc[u] /\ at'[u] = at[u]
        /\ \A s \in Reqs : q # p /\ p \in todo[s] => p \in todo'[s]
    BY <1>1, <1>8 DEF WalkTo, TypeOK
  <2>2. CASE q = p
    BY <1>1, <2>1, <2>2 DEF WillStart
  <2>3. CASE q # p
    <3>1. WillStart(p) => WillStart(p)'
      BY <1>1, <2>1, <2>3, ThreadKeepsGoing
    <3> QED
      BY <1>1, <2>1, <3>1 DEF KeepsGoing
  <2> QED
    BY <2>2, <2>3
<1>9. ASSUME NEW r \in Reqs, WalkDone(r)
      PROVE  FALSE
  <2>1. /\ UNCHANGED <<irpQueue, currentIrp, pnp, requestQueue, at>>
        /\ pc[r] = "walk"
        /\ \A u \in Threads : u # r => pc'[u] = pc[u]
        /\ \A s \in Reqs : s # r => todo'[s] = todo[s]
        /\ p \notin todo[r]
    BY <1>1, <1>9 DEF WalkDone, TypeOK, Listed
  <2>2. WillStart(p) => WillStart(p)'
    BY <2>1 DEF WillStart
  <2> QED
    BY <1>1, <2>1, <2>2 DEF KeepsGoing
<1>10. ASSUME NEW t \in Threads, NothingToStart(t)
       PROVE  FALSE
  <2>1. /\ UNCHANGED <<irpQueue, currentIrp, pnp, requestQueue, todo>>
        /\ t \in Reqs => pc'[t] # "user"
        /\ \A u \in Threads : u # t => pc'[u] = pc[u] /\ at'[u] = at[u]
        /\ at[t] = p => currentIrp[p] # None \/ requestQueue = <<>>
    BY <1>1, <1>10 DEF NothingToStart, AfterStartNext, TypeOK
  <2>2. at[t] # p /\ WillStart(p) => WillStart(p)'
    BY <1>1, <2>1, ThreadKeepsGoing
  <2> QED
    BY <1>1, <2>1, <2>2 DEF KeepsGoing
<1>11. ASSUME NEW t \in Threads, TakeRequest(t)
       PROVE  FALSE
  <2>1. /\ UNCHANGED <<irpQueue, currentIrp, pnp, at, todo>> /\ requestQueue # <<>>
        /\ pc[t] = "next" /\ pc'[t] = "rqTaken"
        /\ \A u \in Threads : u # t => pc'[u] = pc[u] /\ at'[u] = at[u]
    BY <1>1, <1>11 DEF TakeRequest, TypeOK
  <2>2. at[t] # p /\ WillStart(p) => WillStart(p)'
    BY <1>1, <2>1, ThreadKeepsGoing
  <2> QED
    BY <1>1, <2>1, <2>2 DEF KeepsGoing, WillStart
<1>12. ASSUME NEW t \in Threads, PutBackRequest(t), at[t] = p
       PROVE  FALSE
  BY <1>1, <1>12 DEF PutBackRequest
<1>13. ASSUME NEW t \in Threads, TakeQueuedIrp(t)
       PROVE  FALSE
  <2>1. /\ UNCHANGED <<currentIrp, pnp, requestQueue, at, todo>>
        /\ pc[t] = "rqTaken" /\ pc'[t] = "irpTaken"
        /\ \A u \in Threads : u # t => pc'[u] = pc[u] /\ at'[u] = at[u]
        /\ at[t] # p => irpQueue'[p] = irpQueue[p]
    BY <1>1, <1>13 DEF TakeQueuedIrp, TypeOK, ThreadOK, InPdo
  <2>2. at[t] # p /\ WillStart(p) => WillStart(p)'
    BY <1>1, <2>1, ThreadKeepsGoing
  <2> QED
    BY <1>1, <2>1, <2>2 DEF KeepsGoing, WillStart
<1>14. ASSUME NEW t \in Threads, StartTakenIrp(t)
       PROVE  FALSE
  <2>1. PICK i \in Irps : i = held[t] /\ Target[i] = at[t]
    BY <1>1, <1>14 DEF StartTakenIrp, ThreadOK, TypeOK, PathInv, TargetOK, HeldTarget
  <2>2. /\ UNCHANGED <<irpQueue, pnp, requestQueue, todo>>
        /\ t \in Reqs => pc'[t] # "user"
        /\ \A u \in Threads : u # t => pc'[u] = pc[u] /\ at'[u] = at[u]
        /\ currentIrp'[p] = IF at[t] = p THEN i ELSE currentIrp[p]
    BY <1>1, <1>14, <2>1 DEF StartTakenIrp, HandOver, AfterStartNext, TypeOK
  <2>3. at[t] # p /\ WillStart(p) => WillStart(p)'
    BY <1>1, <2>2, ThreadKeepsGoing
  <2> QED
    BY <1>1, <2>2, <2>3 DEF KeepsGoing
<1>15. ASSUME NEW q \in Pdos, SendReply(q) \/ ReplyWithoutIrp(q)
       PROVE  FALSE
  <2>1. /\ UNCHANGED <<irpQueue, currentIrp, pnp, requestQueue, todo>>
        /\ pc[q] \in {"user", "found"}
        /\ \A u \in Threads : u # q => pc'[u] = pc[u] /\ at'[u] = at[u]
    BY <1>1, <1>15 DEF SendReply, ReplyWithoutIrp, TypeOK
  <2>2. q \in Threads /\ q \notin Reqs
    OBVIOUS
  <2>3. WillStart(p) => WillStart(p)'
    BY <1>1, <2>1, <2>2, ThreadKeepsGoing
  <2> QED
    BY <1>1, <2>1, <2>3 DEF KeepsGoing
<1>16. ASSUME NEW q \in Pdos, TakeCurrentIrp(q) \/ FinishReply(q)
       PROVE  FALSE
  <2>1. /\ UNCHANGED <<irpQueue, pnp, requestQueue, at, todo>>
        /\ pc'[q] \in {"taken", "next"} /\ at[q] = q
        /\ q # p => currentIrp'[p] = currentIrp[p]
        /\ \A u \in Threads : u # q => pc'[u] = pc[u]
    <3>1. /\ UNCHANGED <<irpQueue, pnp, requestQueue, at, todo>>
          /\ pc[q] \in {"found", "taken"}
          /\ pc' = [pc EXCEPT ![q] = pc'[q]] /\ pc'[q] \in {"taken", "next"}
      BY <1>1, <1>16 DEF TakeCurrentIrp, FinishReply, TypeOK
    <3>2. q # p => currentIrp'[p] = currentIrp[p]
      BY <1>1, <1>16 DEF TakeCurrentIrp, FinishReply, TypeOK
    <3> QED
      BY <1>1, <3>1, <3>2 DEF TypeOK, ThreadOK, InPdo
  <2>2. q \in Threads /\ q \notin Reqs
    OBVIOUS
  <2>3. q # p /\ WillStart(p) => WillStart(p)'
    BY <1>1, <2>1, <2>2, ThreadKeepsGoing
  <2> QED
    BY <1>1, <2>1, <2>2, <2>3 DEF KeepsGoing, WillStart
<1> QED
  BY <1>1, <1>2, <1>3, <1>4, <1>5, <1>6, <1>7, <1>8, <1>9, <1>10, <1>11, <1>12, <1>13,
     <1>14, <1>15, <1>16, StrandedSteps
  DEF Walk, BusStartNextPacket

(* A wake-up is lost in one way only: BusStartNextPacket puts back the     *)
(* request IRP it took for another disk (busenum.c:713), which this disk   *)
(* did not find when it looked (busenum.c:1046).                           *)
THEOREM StrandedOnlyByPutBack == Spec => StrandedByPutBack
<1> DEFINE ByPutBack == \A p \in Pdos : Stranded(p)' /\ ~ Stranded(p) =>
                          \E t \in Threads : PutBackRequest(t) /\ at[t] # p
<1>1. PathInv /\ [Next]_vars => ByPutBack
  BY StrandedStep
<1>2. UNCHANGED vars => ByPutBack
  BY DEF vars, irpVars, pdoVars, requestVars, threadVars, serviceVars, Stranded, Listed,
     WillStart
<1> QED
  BY <1>1, <1>2, PathInvariant, PTL DEF Spec, StrandedByPutBack

(* With one disk, no wake-up is lost: there is no other disk to borrow the *)
(* request IRP for.                                                        *)
THEOREM OneDiskCorrect ==
  ASSUME \A p, q \in Pdos : p = q
  PROVE  Spec => []NoStrandedIrp
<1> DEFINE NoneStranded == \A p \in Pdos : ~ Stranded(p)
<1>1. Init => NoneStranded
  BY DEF Init, Stranded
<1>2. PathInv /\ NoneStranded /\ [Next]_vars => NoneStranded'
  <2> SUFFICES ASSUME PathInv, NoneStranded, [Next]_vars, NEW p \in Pdos, Stranded(p)'
               PROVE  FALSE
    OBVIOUS
  <2>1. PICK t \in Threads : PutBackRequest(t) /\ at[t] # p
    BY StrandedStep
  <2>2. at[t] \in Pdos
    BY <2>1 DEF PutBackRequest, PathInv, ThreadOK, InPdo
  <2> QED
    BY <2>1, <2>2
<1>3. NoneStranded => NoStrandedIrp
  <2> SUFFICES ASSUME NoneStranded, \A t \in Threads : pc[t] = "user", requestQueue # <<>>,
                      NEW p \in Listed, currentIrp[p] = None
               PROVE  irpQueue[p] = <<>>
    BY DEF NoStrandedIrp
  <2>1. ~ WillStart(p)
    BY DEF WillStart, Threads
  <2> QED
    BY <2>1 DEF Stranded, Listed
<1> QED
  BY <1>1, <1>2, <1>3, PathInvariant, PTL DEF Spec

-----------------------------------------------------------------------------
(* How often an IRP is completed, and where one that is not can be.        *)
OnceOK ==
  \A i \in Irps : completions[i] <= 2 /\ (Started(i) => completions[i] <= 1)

PendingOK ==
  \A i \in issued : completions[i] = 0 => i \in dispatched \/ Queued(i) \/ Started(i)

(* What OneMoves says of the completions of one IRP. *)
LEMMA CompletionMoves ==
  ASSUME PathInv, PlaceOK, OnceOK, [Next]_vars, NEW i \in Irps
  PROVE  /\ completions[i] \in Nat
         /\ \/ completions'[i] = completions[i]
            \/ completions[i] = 0 /\ completions'[i] = 1
            \/ /\ completions[i] = 1 /\ completions'[i] = 2
               /\ i \in cancelFlag /\ Serving(i) /\ ~ Started(i)'
         /\ Started(i)' => completions'[i] <= 1
         /\ completions[i] > 0 /\ Started(i)' => Started(i)
<1> USE DEF Same, SamePlaceOf, SameOutcome, Completed
<1>1. /\ completions[i] \in Nat /\ IrpPlace(i)
      /\ Started(i) => completions[i] <= 1
      /\ Serving(i) => Started(i)
  BY ServingIsStarted DEF PathInv, TypeOK, PlaceOK, OnceOK
<1>2. CASE Same(i)
  BY <1>1, <1>2
<1>3. CASE IrpStep(i)
  <2>1. CASE Enters(i)
    BY <1>1, <2>1 DEF Enters, IrpPlace
  <2>2. CASE Waits(i)
    BY <1>1, <2>2 DEF Waits, IrpPlace
  <2>3. CASE LeavesQueue(i)
    BY <1>1, <2>3 DEF LeavesQueue, IrpPlace
  <2>4. CASE IsTaken(i)
    BY <1>1, <2>4 DEF IsTaken, IrpPlace
  <2>5. CASE Starts(i)
    BY <1>1, <2>5 DEF Starts, IrpPlace
  <2>6. CASE IsCancelled(i)
    BY <1>1, <2>6 DEF IsCancelled
  <2>7. CASE Ends(i)
    BY <1>1, <2>7 DEF Ends, IrpPlace
  <2> QED
    BY <1>3, <2>1, <2>2, <2>3, <2>4, <2>5, <2>6, <2>7 DEF IrpStep
<1> QED
  BY <1>2, <1>3, OneIrpMoves DEF OneMoves

LEMMA OnceInvariant == Spec => [](PathInv /\ PlaceOK /\ OnceOK)
<1>1. Init => OnceOK
  BY RequestPathAssumption DEF Init, OnceOK
<1>2. PathInv /\ PlaceOK /\ OnceOK /\ [Next]_vars => OnceOK'
  BY CompletionMoves DEF OnceOK
<1> QED
  BY <1>1, <1>2, PlaceInvariant, PTL DEF Spec

(* The reply and the removal complete an IRP whatever Bus_CancelIrp has    *)
(* done or is about to do to it (busenum.c:814, pnp.c:1056), so an IRP     *)
(* cancelled while it is CurrentIrp is completed twice.  That is the worst *)
(* that happens: there is no third completion, nor a second one of an IRP  *)
(* not cancelled, and a completed IRP does not get onto a queue or become  *)
(* CurrentIrp any more.                                                    *)
THEOREM SecondCompletionCorrect == Spec => CompletedAgainIfCancelled
<1> DEFINE Again(i) ==
             /\ completions'[i] <= 2
             /\ completions'[i] = 2 => i \in cancelFlag'
             /\ completions[i] > 0 =>
                  i \notin dispatched' /\ ~ Queued(i)' /\ (Started(i)' => Started(i))
<1>1. PathInv /\ PlaceOK /\ PlaceOK' /\ OnceOK /\ OnceOK' /\ [Next]_vars
        => \A i \in Irps : Again(i)
  <2> SUFFICES ASSUME PathInv, PlaceOK, PlaceOK', OnceOK, OnceOK', [Next]_vars,
                      NEW i \in Irps
               PROVE  Again(i)
    OBVIOUS
  <2>1. completions'[i] <= 2
    BY DEF OnceOK
  <2>2. completions[i] > 0 => completions'[i] > 0 /\ (Started(i)' => Started(i))
    BY CompletionMoves
  <2>3. IrpPlace(i)'
    BY DEF PlaceOK
  <2>4. completions'[i] = 2 => i \in cancelFlag'
    BY <2>3 DEF IrpPlace
  <2>5. completions'[i] > 0 => i \notin dispatched' /\ ~ Queued(i)'
    BY <2>3 DEF IrpPlace
  <2> QED
    BY <2>1, <2>2, <2>4, <2>5
<1> QED
  BY <1>1, OnceInvariant, PTL DEF Spec, CompletedAgainIfCancelled

(* An IRP leaves a queue, or Bus_Scsi, to be completed or started. *)
LEMMA QueuedGoesOn ==
  ASSUME PathInv, PlaceOK, [Next]_vars, NEW i \in Irps, Queued(i), completions'[i] = 0
  PROVE  Queued(i)' \/ Started(i)'
<1> USE RequestPathAssumption
<1>1. /\ TypeOK /\ ThreadOK /\ QueueTarget /\ QueueInjective
      /\ \A j \in Irps : IrpPlace(j)
  BY DEF PathInv, TargetOK, PlaceOK
<1>2. CASE UNCHANGED irpQueue
  BY <1>2 DEF Queued
<1>3. ASSUME NEW j \in Irps, QueuePacket(j)
      PROVE  Queued(i)'
  <2>1. ~ Queued(j)
    BY <1>1, <1>3 DEF QueuePacket, IrpPlace
  <2>2. Inserted(j)
    BY <1>1, <1>3, <2>1, InsertIrp DEF QueuePacket
  <2> QED
    BY <2>2 DEF Inserted
<1>4. ASSUME NEW j \in Irps, CancelQueued(j)
      PROVE  Queued(i)'
  <2>1. PICK k \in DOMAIN irpQueue[Target[j]] :
          /\ irpQueue[Target[j]][k] = j
          /\ irpQueue' = [irpQueue EXCEPT ![Target[j]] = RemoveAt(irpQueue[Target[j]], k)]
    BY <1>4 DEF CancelQueued
  <2>2. Removed(irpQueue[Target[j]][k])
    BY <1>1, <2>1, RemoveIrp
  <2>3. completions'[j] # 0
    BY <1>1, <1>4 DEF CancelQueued, Complete, TypeOK
  <2> QED
    BY <2>1, <2>2, <2>3 DEF Removed
<1>5. ASSUME NEW p \in Pdos, irpQueue[p] # <<>>,
             irpQueue' = [irpQueue EXCEPT ![p] = Tail(irpQueue[p])]
      PROVE  Queued(i)' \/ i = Head(irpQueue[p])
  <2>1. irpQueue[p] \in Seq(Irps)
    BY <1>1 DEF TypeOK
  <2>2. /\ 1 \in DOMAIN irpQueue[p] /\ Head(irpQueue[p]) = irpQueue[p][1]
        /\ Tail(irpQueue[p]) = RemoveAt(irpQueue[p], 1)
    BY <1>5, <2>1, TailIsRemoval, TailElements
  <2>3. Removed(irpQueue[p][1])
    BY <1>1, <1>5, <2>2, RemoveIrp
  <2> QED
    BY <2>2, <2>3 DEF Removed
<1>6. ASSUME NEW t \in Threads, TakeQueuedIrp(t)
      PROVE  Queued(i)' \/ Started(i)'
  <2>1. /\ at[t] \in Pdos /\ irpQueue[at[t]] # <<>>
        /\ irpQueue' = [irpQueue EXCEPT ![at[t]] = Tail(irpQueue[at[t]])]
        /\ held'[t] = Head(irpQueue[at[t]])
    BY <1>1, <1>6 DEF TakeQueuedIrp, ThreadOK, InPdo, TypeOK
  <2> QED
    BY <1>5, <2>1 DEF Started
<1>7. ASSUME NEW p \in Pdos, DrainIrp(p)
      PROVE  Queued(i)'
  <2>1. /\ irpQueue[p] # <<>>
        /\ irpQueue' = [irpQueue EXCEPT ![p] = Tail(irpQueue[p])]
        /\ completions' = [completions EXCEPT ![Head(irpQueue[p])] = @ + 1]
    BY <1>7 DEF DrainIrp, Complete
  <2>2. i # Head(irpQueue[p])
    BY <1>1, <2>1 DEF TypeOK
  <2> QED
    BY <1>5, <2>1, <2>2
<1> QED
  BY <1>2, <1>3, <1>4, <1>6, <1>7, QueueSteps

LEMMA DispatchedGoesOn ==
  ASSUME PathInv, PlaceOK, [Next]_vars, NEW i \in Irps,
         i \in dispatched, i \notin dispatched', completions'[i] = 0
  PROVE  Queued(i)' \/ Started(i)'
<1> USE RequestPathAssumption
<1>1. TypeOK /\ QueueInjective /\ ~ Queued(i)
  BY DEF PathInv, PlaceOK, IrpPlace
<1>2. CASE QueuePacket(i)
  <2>1. Inserted(i)
    BY <1>1, <1>2, InsertIrp DEF QueuePacket
  <2> QED
    BY <2>1 DEF Inserted
<1>3. CASE QueueCancelledPacket(i)
  BY <1>1, <1>3 DEF QueueCancelledPacket, Complete, TypeOK
<1>4. CASE StartPacket(i)
  BY <1>1, <1>4 DEF StartPacket, HandOver, Started, TypeOK
<1>5. ASSUME NEW j \in Irps, j # i,
             \/ Bus_Scsi(j) \/ Bus_ScsiDeleted(j) \/ QueuePacket(j)
             \/ QueueCancelledPacket(j) \/ StartPacket(j) \/ CancelQueued(j)
             \/ Bus_CancelIrp(j) \/ CancelInHand(j)
      PROVE  FALSE
  BY <1>5 DEF Bus_Scsi, Bus_ScsiDeleted, QueuePacket, QueueCancelledPacket, StartPacket,
     CancelQueued, Bus_CancelIrp, CancelInHand
<1>6. CASE \/ Bus_Scsi(i) \/ Bus_ScsiDeleted(i) \/ CancelQueued(i)
           \/ Bus_CancelIrp(i) \/ CancelInHand(i)
  BY <1>6 DEF Bus_Scsi, Bus_ScsiDeleted, CancelQueued, Bus_CancelIrp, CancelInHand
<1>7. ASSUME NEW t \in Threads, TakeQueuedIrp(t) \/ StartTakenIrp(t)
      PROVE  FALSE
  BY <1>7 DEF TakeQueuedIrp, StartTakenIrp
<1>8. ASSUME NEW p \in Pdos,
             TakeCurrentIrp(p) \/ FinishReply(p) \/ DestroyCurrentIrp(p) \/ DrainIrp(p)
      PROVE  FALSE
  BY <1>8 DEF TakeCurrentIrp, FinishReply, DestroyCurrentIrp, DrainIrp
<1>9. CASE SamePlaces
  BY <1>9 DEF SamePlaces
<1> QED
  BY <1>2, <1>3, <1>4, <1>5, <1>6, <1>7, <1>8, <1>9, PlaceSteps

LEMMA NextPending ==
  ASSUME PathInv, PlaceOK, PendingOK, [Next]_vars
  PROVE  PendingOK'
<1> SUFFICES ASSUME NEW i \in Irps, i \in issued', completions'[i] = 0
             PROVE  i \in dispatched' \/ Queued(i)' \/ Started(i)'
  BY NextTypeThread DEF PendingOK, PathInv, TypeOK
<1> USE DEF Same, SamePlaceOf, SameOutcome, Completed
<1>1. /\ completions[i] \in Nat
      /\ i \in issued /\ completions[i] = 0 => i \in dispatched \/ Queued(i) \/ Started(i)
      /\ i \in dispatched => i \in dispatched' \/ Queued(i)' \/ Started(i)'
      /\ Queued(i) => Queued(i)' \/ Started(i)'
  BY QueuedGoesOn, DispatchedGoesOn DEF PathInv, TypeOK, PendingOK
<1>2. CASE Same(i)
  BY <1>1, <1>2
<1>3. CASE IrpStep(i)
  BY <1>1, <1>3
  DEF IrpStep, Enters, Waits, LeavesQueue, IsTaken, Starts, IsCancelled, Ends
<1> QED
  BY <1>2, <1>3, OneIrpMoves DEF OneMoves

(* An IRP that is not completed does not get lost between the dispatch,    *)
(* the queues and CurrentIrp, and somebody is going to take it on: its     *)
(* dispatch, a thread that starts the disk's next IRP, or the service that *)
(* has the disk's CurrentIrp.  What remains is that all request IRPs are   *)
(* in use, and the lost wake-up.                                           *)
THEOREM PendingCorrect == Spec => []PendingGoesOn
<1>1. Init => PendingOK
  BY DEF Init, PendingOK
<1>2. PathInv /\ PlaceOK /\ PendingOK /\ [Next]_vars => PendingOK'
  BY NextPending
<1>3. PathInv /\ PendingOK /\ CurrentIsInService => PendingGoesOn
  <2> SUFFICES ASSUME PathInv, PendingOK, CurrentIsInService, NEW i \in issued,
                      pnp[Target[i]] = "live", completions[i] = 0, i \notin dispatched,
                      requestQueue # <<>>, ~ Stranded(Target[i])
               PROVE  \/ WillStart(Target[i])
                      \/ /\ currentIrp[Target[i]] # None
                         /\ InService(currentIrp[Target[i]])
    BY DEF PendingGoesOn
  <2>1. i \in Irps /\ Target[i] \in Pdos /\ i # None
    BY RequestPathAssumption DEF PathInv, TypeOK
  <2>2. currentIrp[Target[i]] # None => InService(currentIrp[Target[i]])
    BY <2>1 DEF CurrentIsInService
  <2>3. CASE Queued(i)
    <3>1. irpQueue[Target[i]] # <<>>
      BY <2>3 DEF Queued, ToSet
    <3> QED
      BY <2>1, <2>2, <3>1 DEF Stranded, Listed
  <2>4. ASSUME NEW t \in Threads, held[t] = i
        PROVE  WillStart(Target[i])
    BY <2>1, <2>4 DEF PathInv, ThreadOK, TargetOK, HeldTarget, WillStart
  <2> QED
    BY <2>1, <2>2, <2>3, <2>4 DEF PendingOK, Started
<1> QED
  BY <1>1, <1>2, <1>3, PlaceInvariant, CurrentCorrect, PTL DEF Spec

-----------------------------------------------------------------------------
(* Where a GET_REQUEST IRP the service waits for can be.                   *)
OutstandingOK ==
  /\ \A r \in outstanding : Waiting(r) \/ HeldRq(r) \/ carried[r] # None
  /\ \A t \in Threads : rqIrp[t] # None => pc[t] \in {"rqTaken", "irpTaken"}

(* Every step but these leaves a thread that has a request IRP where it is. *)
LEMMA RequestThreadSteps ==
  ASSUME TypeOK, [Next]_vars
  PROVE  \/ /\ UNCHANGED rqIrp
            /\ \A t \in Threads : pc[t] \in {"rqTaken", "irpTaken"} => pc'[t] = pc[t]
         \/ \E t \in Threads : \/ TakeRequest(t) \/ PutBackRequest(t) \/ TakeQueuedIrp(t)
                               \/ StartTakenIrp(t)
<1> USE DEF irpVars, pdoVars, requestVars, threadVars, serviceVars
<1> DEFINE Stays ==
      /\ UNCHANGED rqIrp
      /\ \A t \in Threads : pc[t] \in {"rqTaken", "irpTaken"} => pc'[t] = pc[t]
<1>1. ASSUME NEW i \in Irps, Scsi(i) \/ BusStartPacket(i) \/ IoCancelIrp(i)
      PROVE  Stays
  BY <1>1 DEF Scsi, BusStartPacket, IoCancelIrp,
     Bus_Scsi, Bus_ScsiDeleted, QueuePacket, QueueCancelledPacket, StartPacket,
     CancelQueued, Bus_CancelIrp, CancelInHand
<1>2. ASSUME NEW r \in Reqs, GetRequest(r) \/ Walk(r) \/ ProcessRequest(r)
      PROVE  Stays
  BY <1>2 DEF Walk, GetRequest, WalkTo, WalkDone, ProcessRequest, TypeOK, Threads
<1>3. ASSUME NEW t \in Threads, NothingToStart(t)
      PROVE  Stays
  BY <1>3 DEF NothingToStart, TypeOK
<1>4. ASSUME NEW p \in Pdos, Worker(p)
      PROVE  Stays
  BY <1>4 DEF Worker, SendReply, SendReplyRefused, ReplyWithoutIrp, TakeCurrentIrp,
     FinishReply, RemoveDiskFinal, TypeOK, Threads
<1>5. ASSUME NEW p \in Pdos, RemovePdo(p) \/ DestroyPdo(p)
      PROVE  Stays
  BY <1>5 DEF RemovePdo, DestroyPdo, DestroyCurrentIrp, DestroyNoIrp, DrainIrp, DeletePdo
<1>6. ASSUME UNCHANGED vars
      PROVE  Stays
  BY <1>6 DEF vars
<1> HIDE DEF Stays
<1>7. \/ Stays
      \/ \E t \in Threads : \/ TakeRequest(t) \/ PutBackRequest(t) \/ TakeQueuedIrp(t)
                            \/ StartTakenIrp(t)
  BY <1>1, <1>2, <1>3, <1>4, <1>5, <1>6 DEF Next, BusStartNextPacket
<1> QED
  BY <1>7 DEF Stays

LEMMA NextOutstanding ==
  ASSUME PathInv, RequestOK, OutstandingOK, [Next]_vars
  PROVE  OutstandingOK'
<1> USE RequestPathAssumption
<1>1. /\ requestQueue \in Seq(Reqs) /\ outstanding \in SUBSET Reqs
      /\ carried \in [Reqs -> Irps \cup {None}]
      /\ rqIrp \in [Threads -> Reqs \cup {None}]
      /\ pc \in [Threads -> Places]
      /\ TypeOK /\ ThreadOK /\ IsInjective(requestQueue)
  BY DEF PathInv, TypeOK, RequestOK
<1> DEFINE Outstanding == \A r \in outstanding : Waiting(r) \/ HeldRq(r) \/ carried[r] # None
           Threading == \A t \in Threads : rqIrp[t] # None => pc[t] \in {"rqTaken", "irpTaken"}
<1>2. Outstanding'
  <2>1. CASE UNCHANGED <<requestQueue, outstanding, carried, rqIrp>>
    BY <2>1 DEF OutstandingOK, Waiting, HeldRq
  <2>2. ASSUME NEW i \in Irps, StartPacket(i)
        PROVE  Outstanding'
    <3> DEFINE r == Head(requestQueue)
    <3>1. /\ requestQueue # <<>> /\ requestQueue' = Tail(requestQueue)
          /\ carried' = [carried EXCEPT ![r] = i]
          /\ UNCHANGED <<outstanding, rqIrp>>
      BY <2>2 DEF StartPacket, HandOver, threadVars
    <3>2. r \in Reqs /\ \A s \in Reqs : Waiting(s)' <=> Waiting(s) /\ s # r
      BY <1>1, <3>1, TakeHead
    <3> HIDE DEF r
    <3> QED
      BY <1>1, <3>1, <3>2 DEF OutstandingOK, HeldRq
  <2>3. ASSUME NEW r \in Reqs, GetRequest(r)
        PROVE  Outstanding'
    <3>1. /\ r \notin outstanding /\ outstanding' = outstanding \cup {r}
          /\ requestQueue' = Append(requestQueue, r)
          /\ UNCHANGED <<carried, rqIrp>>
      BY <2>3 DEF GetRequest
    <3>2. ~ Waiting(r)
      BY <3>1 DEF RequestOK
    <3>3. \A s \in Reqs : Waiting(s)' <=> Waiting(s) \/ s = r
      BY <1>1, <3>1, <3>2, PutLast
    <3> QED
      BY <1>1, <3>1, <3>3 DEF OutstandingOK, HeldRq
  <2>4. ASSUME NEW r \in Reqs, ProcessRequest(r)
        PROVE  Outstanding'
    <3>1. /\ outstanding' = outstanding \ {r}
          /\ carried' = [carried EXCEPT ![r] = None]
          /\ UNCHANGED <<requestQueue, rqIrp>>
      BY <2>4 DEF ProcessRequest, threadVars
    <3> QED
      BY <1>1, <3>1 DEF OutstandingOK, Waiting, HeldRq
  <2>5. ASSUME NEW t \in Threads, TakeRequest(t)
        PROVE  Outstanding'
    <3> DEFINE r == Head(requestQueue)
    <3>1. /\ requestQueue # <<>> /\ requestQueue' = Tail(requestQueue)
          /\ rqIrp' = [rqIrp EXCEPT ![t] = r] /\ pc[t] = "next"
          /\ UNCHANGED <<outstanding, carried>>
      BY <2>5 DEF TakeRequest
    <3>2. r \in Reqs /\ \A s \in Reqs : Waiting(s)' <=> Waiting(s) /\ s # r
      BY <1>1, <3>1, TakeHead
    <3>3. rqIrp[t] = None
      BY <3>1 DEF OutstandingOK
    <3> HIDE DEF r
    <3> QED
      BY <1>1, <3>1, <3>2, <3>3 DEF OutstandingOK, HeldRq
  <2>6. ASSUME NEW t \in Threads, PutBackRequest(t)
        PROVE  Outstanding'
    <3>1. PICK r \in Reqs : r = rqIrp[t]
      BY <1>1, <2>6 DEF PutBackRequest, ThreadOK
    <3>2. /\ requestQueue' = Append(requestQueue, r)
          /\ rqIrp' = [rqIrp EXCEPT ![t] = None]
          /\ UNCHANGED <<outstanding, carried>>
      BY <2>6, <3>1 DEF PutBackRequest
    <3>3. ~ Waiting(r)
      BY <3>1 DEF RequestOK, HeldRq
    <3>4. \A s \in Reqs : Waiting(s)' <=> Waiting(s) \/ s = r
      BY <1>1, <3>2, <3>3, PutLast
    <3> QED
      BY <1>1, <3>1, <3>2, <3>4 DEF OutstandingOK, HeldRq
  <2>7. ASSUME NEW t \in Threads, StartTakenIrp(t)
        PROVE  Outstanding'
    <3>1. rqIrp[t] \in Reqs /\ held[t] \in Irps
      BY <1>1, <2>7 DEF StartTakenIrp, ThreadOK, TypeOK
    <3>2. /\ carried' = [carried EXCEPT ![rqIrp[t]] = held[t]]
          /\ rqIrp' = [rqIrp EXCEPT ![t] = None]
          /\ UNCHANGED <<outstanding, requestQueue>>
      BY <2>7 DEF StartTakenIrp, HandOver
    <3> QED
      BY <1>1, <3>1, <3>2 DEF OutstandingOK, Waiting, HeldRq
  <2> HIDE DEF Outstanding
  <2> QED
    BY <2>1, <2>2, <2>3, <2>4, <2>5, <2>6, <2>7, RequestSteps
<1>3. Threading'
  <2>1. ASSUME UNCHANGED rqIrp,
               \A t \in Threads : pc[t] \in {"rqTaken", "irpTaken"} => pc'[t] = pc[t]
        PROVE  Threading'
    BY <2>1 DEF OutstandingOK
  <2>2. ASSUME NEW t \in Threads,
               TakeRequest(t) \/ PutBackRequest(t) \/ TakeQueuedIrp(t) \/ StartTakenIrp(t)
        PROVE  Threading'
    BY <1>1, <2>2
    DEF TakeRequest, PutBackRequest, TakeQueuedIrp, StartTakenIrp, OutstandingOK
  <2> HIDE DEF Threading
  <2> QED
    BY <1>1, <2>1, <2>2, RequestThreadSteps
<1> QED
  BY <1>2, <1>3 DEF OutstandingOK

(* A GET_REQUEST IRP does not get lost either: until the service has it    *)
(* back it is on the shared queue, with a thread that is going to complete *)
(* it or put it back, or completed with a request.                         *)
THEOREM RequestKept == Spec => []RequestGoesOn
<1>1. Init => OutstandingOK
  BY RequestPathAssumption DEF Init, OutstandingOK
<1>2. PathInv /\ RequestOK /\ OutstandingOK /\ [Next]_vars => OutstandingOK'
  BY NextOutstanding
<1>3. OutstandingOK => RequestGoesOn
  BY RequestPathAssumption DEF OutstandingOK, RequestGoesOn, Waiting, HeldRq
<1> QED
  BY <1>1, <1>2, <1>3, HandsInvariant, PTL DEF Spec
=============================================================================
