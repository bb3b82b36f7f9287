------------------------------ MODULE MCLc2200 ------------------------------
(* The program with both of its handlers, for TLC. *)
EXTENDS Lc2200Properties

BothDevices == {"timer", "keyboard"}
=============================================================================
