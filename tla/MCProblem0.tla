----------------------------- MODULE MCProblem0 -----------------------------
(* Two counting threads, for TLC. *)
EXTENDS Problem0

CONSTANTS p1, p2

BothCounters == {p1, p2}
=============================================================================
