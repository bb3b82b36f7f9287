---------------------------- MODULE MCOsSimOrder -----------------------------
(***************************************************************************)
(* Small instances of OsSimOrder for TLC.                                  *)
(***************************************************************************)
EXTENDS MCOsSim, OsSimOrder

\* Nothing is promised once the simulator has overtaken the scheduler: the
\* behaviours stop there.
MCNext == \/ ~overtaken /\ HNext
          \/ overtaken /\ UNCHANGED hvars

MCFairSpec == HInit /\ [][MCNext]_hvars /\ Fairness
=============================================================================
