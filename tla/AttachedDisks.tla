--------------------------- MODULE AttachedDisks ----------------------------
(***************************************************************************)
(* What the service promises its clients about disk numbers, without its   *)
(* threads, its container and the driver: a number is taken by one AddDisk *)
(* at a time, is attached when the driver has the disk, and is free again  *)
(* only after the disk has left.                                           *)
(***************************************************************************)
CONSTANT Ids   \* the disk numbers clients use

VARIABLE table   \* [Ids -> Stages]

Stages == {"free", "adding", "attached", "leaving"}

Init == table = [i \in Ids |-> "free"]

Move(i, s, t) ==
  /\ table[i] = s
  /\ table' = [table EXCEPT ![i] = t]

Reserve(i) == Move(i, "free", "adding")
Attach(i) == Move(i, "adding", "attached")
GiveUp(i) == Move(i, "adding", "free")
Detach(i) == Move(i, "attached", "leaving")
Release(i) == Move(i, "leaving", "free")

(* The service is stopped: every attached disk leaves. *)
DetachAll ==
  table' = [i \in Ids |-> IF table[i] = "attached" THEN "leaving" ELSE table[i]]

Next ==
  \/ DetachAll
  \/ \E i \in Ids : Reserve(i) \/ Attach(i) \/ GiveUp(i) \/ Detach(i) \/ Release(i)

Spec == Init /\ [][Next]_table
=============================================================================
