------------------------------ MODULE MCOsSim -------------------------------
(***************************************************************************)
(* Small instances of OsSim for TLC.                                       *)
(***************************************************************************)
EXTENDS OsSimProperties

Cpu(t)    == [type |-> "CPU", time |-> t]
Io(t)     == [type |-> "IO",  time |-> t]
Terminate == [type |-> "TERMINATE", time |-> 0]

\* A process that does I/O, and two that only compute, one of them for longer
\* than a time slice.
MCProgram ==
  << << Cpu(0), Io(0), Cpu(0), Terminate >>,
     << Cpu(1), Terminate >>,
     << Cpu(0), Terminate >> >>

\* The shortest programs that still yield, are preempted and terminate: for
\* the runs that explore every timing.
MCShortProgram == SubSeq(MCProgram, 1, 2)

\* The first process created is the most important one, the next the least.
MCPriority      == << 8, 1, 5 >>
MCShortPriority == << 8, 1 >>

MCRoundRobin == {1}

\* FIFO, and round robin with a slice of one tick.
MCTimeSlices == {-1, 1}

\* The behaviours in which the sleep between ticks outlasts every dispatch, for
\* a counterexample that does not come from a short sleep.
MCSleepsLong ==
  supPc = "sleep" /\ supPc' # "sleep" => \A c \in Cpus : ~Dispatching(c)

MCLongSleepSpec == Init /\ [][Next /\ MCSleepsLong]_vars
=============================================================================
