----------------------------- MODULE OsSimOrder ------------------------------
(***************************************************************************)
(* "Ensure the scheduler gets run before the simulator", says os-sim.c at  *)
(* each of the supervisor's three waits for a CPU thread, and nothing of   *)
(* what is behind them does.  A history variable records whether the       *)
(* simulator has overtaken the scheduler yet; the properties here are of   *)
(* every behaviour of the program as it is built, up to that point.        *)
(***************************************************************************)
EXTENDS OsSimProperties

VARIABLE overtaken

hvars == <<vars, overtaken>>

\* The states that the supervisor gives a CPU, for its thread to handle.
Events == {"PREEMPT", "YIELD", "TERMINATE"}

\* simulate_process() posts an event to a CPU whose thread is not blocked in
\* CPU_RUNNING: it lacks the test that force_preempt() makes.
PostsEarly ==
  supPc = "cpus" /\ supPc' = "eventWait" /\ cpuState[supN] # "RUNNING"

\* The supervisor goes on from its wait although the CPU thread it waited for
\* has not been at the top of its loop since: the event is still pending.
LeavesEarly ==
  supPc \in {"eventWoken", "fpLock"} /\ supPc' # supPc
    /\ cpuState[supN] \in Events

Overtakes == PostsEarly \/ LeavesEarly

HInit == Init /\ overtaken = FALSE
HNext == Next /\ overtaken' = (overtaken \/ Overtakes)

HSpec == HInit /\ [][HNext]_hvars

\* The supervisor is never blocked for good by simulator_mutex, which no CPU
\* thread keeps across a step; a CPU thread competes for it with a supervisor
\* that gives it up to sleep in every tick, so it needs to get it only if it
\* is free again and again.
Going    == status = "running" /\ ~overtaken
Fairness == /\ WF_vars(Going /\ Supervisor)
            /\ \A c \in Cpus : SF_vars(Going /\ CpuThread(c))

-----------------------------------------------------------------------------
(* Up to the first overtaking.                                             *)

\* No process is lost or in two places before a wait at os-sim.c:439, 484,
\* 505 or 516 has ended too early or an event has been posted to a CPU that
\* is not running: no other interleaving, of any threads, loses a process.
OnePlaceInOrder == ~overtaken => OnePlace

\* Nor is a PCB in another state than its place calls for.
StateMatchesPlaceInOrder == ~overtaken => StateMatchesPlace

\* Every step up to the one that overtakes is a step of a queue that never
\* holds a process twice, or leaves it alone.
ImplementsFifo ==
  Fifo!Init /\ [][overtaken' \/ Fifo!Next]_(Contents(rq))

\* Every step up to the one that overtakes takes processes along the edges of
\* their life cycle, with at most one running process per CPU.  (TLC tests the
\* subscript of a box last, and most steps leave Place alone.)
ImplementsLife ==
  Life!Init /\ [][overtaken' \/ UNCHANGED Place \/ Life!Next]_Place

-----------------------------------------------------------------------------
(* Progress.                                                               *)

\* The simulation ends, every process terminated and the supervisor having
\* seen it, unless the simulator overtakes the scheduler: the supervisor's
\* waits, the reader's and the sleepers' in idle() all end.
ExitsOrOvertakes == <>(overtaken \/ status = "exited")

\* A process in the ready queue gets a CPU, under each of the three
\* schedulers, unless the simulator overtakes the scheduler.
ReadyRunsOrOvertaken == \A p \in Procs : Ready(p) ~> (Running(p) \/ overtaken)
=============================================================================
