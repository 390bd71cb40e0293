--------------------------- MODULE MCPnpLifecycle ---------------------------
(* Instances of PnpLifecycle for TLC. *)
EXTENDS PnpLifecycle

(* Threads and serial numbers are interchangeable, and so are the PDOs     *)
(* IoCreateDevice makes. *)
Symmetry == Permutations(Callers) \cup Permutations(Serials)
            \cup Permutations(Pdos)
=============================================================================
