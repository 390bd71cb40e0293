------------------------------ MODULE MCScsiDisk ------------------------------
(* Instances of ScsiDisk for TLC. *)
EXTENDS ScsiDisk, TLC

(* The values that are written are interchangeable. *)
Symmetry == Permutations(Values \ {Zero})
=============================================================================
