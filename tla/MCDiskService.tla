--------------------------- MODULE MCDiskService ----------------------------
(* Instances of DiskService for TLC. *)
EXTENDS DiskService
=============================================================================
