----------------------------- MODULE MCVmStats ------------------------------
(* Small instances of VmStats for TLC. *)
EXTENDS VmStats, VmProperties, TLC

\* The processes differ in nothing but their names.
Symmetry == Permutations(Pids)
=============================================================================
