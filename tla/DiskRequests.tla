---------------------------- MODULE DiskRequests ----------------------------
(***************************************************************************)
(* What the virtual disk promises the operating system about its read and  *)
(* write requests, without the driver's queues, threads and locks:         *)
(* a request is accepted, is served when no other request of the same disk *)
(* is being served, and is finished once, either served by the service or  *)
(* aborted (cancelled, or its disk removed).                               *)
(***************************************************************************)
CONSTANTS
  Pdos,     \* the disks
  Irps,     \* the read and write requests
  Target    \* the disk each request is for

VARIABLE phase   \* [Irps -> Phases]

Phases == {"new", "waiting", "serving", "served", "aborted"}

Init == phase = [i \in Irps |-> "new"]

(* A request reaches the driver. *)
Accept(i) ==
  /\ phase[i] = "new"
  /\ phase' = [phase EXCEPT ![i] = "waiting"]

(* The request becomes the one its disk is working on. *)
Serve(i) ==
  /\ phase[i] = "waiting"
  /\ \A j \in Irps : Target[j] = Target[i] => phase[j] # "serving"
  /\ phase' = [phase EXCEPT ![i] = "serving"]

(* The service's answer for the request is passed to the system. *)
Succeed(i) ==
  /\ phase[i] = "serving"
  /\ phase' = [phase EXCEPT ![i] = "served"]

(* The request is cancelled, or given up because its disk goes away. *)
Abort(i) ==
  /\ phase[i] \in {"new", "waiting", "serving"}
  /\ phase' = [phase EXCEPT ![i] = "aborted"]

Next == \E i \in Irps : Accept(i) \/ Serve(i) \/ Succeed(i) \/ Abort(i)

Spec == Init /\ [][Next]_phase
=============================================================================
