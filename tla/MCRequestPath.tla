--------------------------- MODULE MCRequestPath ----------------------------
(* Instances of RequestPath for TLC. *)
EXTENDS RequestPath

CONSTANTS d1, d2, i1, i2, i3

(* All requests for one disk; two for one disk and one for another. *)
TargetOne == [i \in Irps |-> d1]
TargetTwo == [i \in Irps |-> IF i = i3 THEN d2 ELSE d1]

(* Requests for the same disk are interchangeable. *)
IrpSymmetry == Permutations({i1, i2})
=============================================================================
