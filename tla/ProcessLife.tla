---------------------------- MODULE ProcessLife -----------------------------
(***************************************************************************)
(* What the simulated operating system promises about a process: it is in  *)
(* one place at a time, it moves between places only along the edges the   *)
(* scheduler's events allow, and no more processes run than there are      *)
(* CPUs.                                                                   *)
(***************************************************************************)
EXTENDS Integers, FiniteSets

CONSTANTS Procs, CpuCount
VARIABLE place

Places == {"new", "ready", "running", "waiting", "done"}

Init == place = [p \in Procs |-> "new"]

Move(p, from, to) == /\ place[p] = from
                     /\ place' = [place EXCEPT ![p] = to]

Create(p)    == Move(p, "new", "ready")
Preempt(p)   == Move(p, "running", "ready")
Yield(p)     == Move(p, "running", "waiting")
WakeUp(p)    == Move(p, "waiting", "ready")
Terminate(p) == Move(p, "running", "done")
Dispatch(p)  == /\ Cardinality({q \in Procs : place[q] = "running"}) < CpuCount
                /\ Move(p, "ready", "running")

Next == \E p \in Procs : \/ Create(p) \/ Dispatch(p) \/ Preempt(p)
                         \/ Yield(p)  \/ WakeUp(p)   \/ Terminate(p)

Spec == Init /\ [][Next]_place
=============================================================================
