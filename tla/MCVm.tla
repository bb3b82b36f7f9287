-------------------------------- MODULE MCVm --------------------------------
(***************************************************************************)
(* Small instances of Vm for TLC.                                          *)
(***************************************************************************)
EXTENDS VmProperties, TLC

\* The processes differ in nothing but their names.
Symmetry == Permutations(Pids)
=============================================================================
