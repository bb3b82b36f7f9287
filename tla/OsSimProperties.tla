-------------------------- MODULE OsSimProperties ---------------------------
(***************************************************************************)
(* What the simulator of OsSim must do.                                    *)
(***************************************************************************)
EXTENDS OsSim, FiniteSets

CpuTypeOK ==
  /\ simCurrent \in [Cpus -> Procs \cup {NULL}]
  /\ cpuState \in [Cpus -> CpuStates]
  /\ preemptionTimer \in [Cpus -> Int]
  /\ current \in [Cpus -> Procs \cup {NULL}]
  /\ cpuPc \in [Cpus -> CpuLabels]
  /\ cpuPcb \in [Cpus -> Procs \cup {NULL}]
  /\ cpuEvent \in [Cpus -> CpuStates \ {"RUNNING"}]

QueueTypeOK ==
  /\ rq \in Queues
  /\ rq.count > 0 => rq.tail \in Procs

ProcTypeOK ==
  /\ procState \in [Procs -> ProcStates]
  /\ opIndex \in [Procs -> Nat]
  /\ \A p \in Procs : opIndex[p] \in 1 .. Len(Program[p])
  /\ opTime \in [Procs -> Nat]
  /\ ioQueue \in Seq([pcb : Procs, time : Nat])

SupTypeOK ==
  /\ supPc \in SupLabels
  /\ supN \in 0 .. CpuCount
  /\ supPcb \in Procs \cup {NULL}
  /\ supReturn \in {"creat", "sleep"}

CountTypeOK ==
  /\ processesCreated \in 0 .. ProcessCount
  /\ processesTerminated \in Nat
  /\ simulatorTime \in 0 .. CreationPeriod - 1
  /\ writers \in Int
  /\ timeSlice \in Int
  /\ staticPriority \in BOOLEAN
  /\ status \in {"running", "exited", "crashed"}

\* The type invariant: every program counter stays within its program, and
\* a queue with elements has a tail to link the next one to.
TypeOK == CpuTypeOK /\ QueueTypeOK /\ ProcTypeOK /\ SupTypeOK /\ CountTypeOK

\* The labels of wake_up() and of what it calls.
WakeLabels == {"wakeLock", "wakeEnqueue", "wakeScan", "fpUnlock", "fpCheck",
               "fpWait", "fpLock", "wakeUnlock", "wakeReturn"}

\* The locals of the supervisor at its labels: a CPU to wait for or preempt,
\* a process to wake, and in simulate_creat() a process still to be counted.
SupervisorOK ==
  /\ supPc \in {"eventWait", "eventWoken", "fpUnlock", "fpCheck", "fpWait"}
       => supN \in Cpus
  /\ supPc \in WakeLabels
       => /\ supPcb \in Procs
          /\ supReturn = "sleep" => processesCreated < ProcessCount

\* The locals of a CPU thread: an event from the wait until the handler
\* returns, and none outside.
CpuThreadOK ==
  \A c \in Cpus :
    /\ cpuPc[c] = "runWait" => cpuState[c] = "RUNNING"
    /\ cpuPc[c] = "runWoken" => cpuState[c] # "IDLE"
    /\ cpuPc[c] \in {"terminating", "enter", "handler", "leave"}
         => cpuEvent[c] # "IDLE"
    /\ cpuPc[c] \in {"top", "runWait", "runWoken", "idle", "idleWait"}
         => cpuEvent[c] = "IDLE"

-----------------------------------------------------------------------------
(* Where a process is.                                                     *)

Ready(p) == \E i \in 1 .. rq.count : Contents(rq)[i] = p

Waiting(p) == \E i \in 1 .. Len(ioQueue) : ioQueue[i].pcb = p

\* wake_up(p) has been called and has not put p in the ready queue yet.
BeingWoken(p) == supPc \in {"wakeLock", "wakeEnqueue"} /\ supPcb = p

\* The process that CPU thread c is about to run, runs, or has not yet put
\* back: the PCB in the hands of schedule() and context_switch(), then the
\* one that the simulator runs until an event takes it away.
Held(c) ==
  CASE cpuPc[c] \in {"setCurrent", "switchUnlock", "switchStore"} -> cpuPcb[c]
    [] cpuPc[c] \in {"switchLock", "leave", "top"} -> simCurrent[c]
    [] cpuPc[c] \in {"runWait", "runWoken"} ->
         IF cpuState[c] \in {"YIELD", "TERMINATE"} THEN NULL ELSE simCurrent[c]
    [] cpuPc[c] \in {"enter", "handler"} ->
         IF cpuEvent[c] = "PREEMPT" THEN current[c] ELSE NULL
    [] OTHER -> NULL

\* CPU thread c has stored a process in simulator_cpu_data[c], and has not come
\* back to the top of its loop yet to say that the scheduler has run.
Dispatching(c) ==
  /\ simCurrent[c] # NULL
  /\ cpuPc[c] \in {"switchLock", "leave", "top"}

Running(p) == \E c \in Cpus : Held(c) = p

New(p)  == p > processesCreated /\ procState[p] = "NEW"
Done(p) == Program[p][opIndex[p]].type = "TERMINATE"

\* The places p is in, by what owns it: a CPU counts for itself, the ready
\* queue and the I/O queue for each of their elements.
Holders(p) ==
    {<<"cpu", c>>   : c \in {d \in Cpus : Held(d) = p}}
  \cup {<<"ready", i>> : i \in {j \in 1 .. rq.count : Contents(rq)[j] = p}}
  \cup {<<"io", i>>    : i \in {j \in 1 .. Len(ioQueue) : ioQueue[j].pcb = p}}
  \cup {<<"wake", i>>  : i \in {j \in {1} : BeingWoken(p)}}

\* Each process that is created and not finished is in exactly one place: on
\* one CPU, once in the ready queue, once in the I/O queue, or in the hands
\* of wake_up(); a new or a finished one is in none.  It is lost, or run
\* twice, when an event of simulate_process() is not handled.
OnePlace ==
  \A p \in Procs :
    Cardinality(Holders(p)) =
      IF Done(p) \/ (New(p) /\ ~BeingWoken(p)) THEN 0 ELSE 1

\* The state in a PCB tells where the process is, although wake_up(), the
\* handlers and schedule() write it from different threads: READY in the
\* ready queue, WAITING in the I/O queue once the yield() handler has run,
\* RUNNING on a CPU that runs it, TERMINATED once terminate() has run.
StateMatchesPlace ==
  /\ \A p \in Procs : Ready(p) => procState[p] = "READY"
  /\ \A p \in Procs :
       Waiting(p) /\ supPc \notin {"eventWait", "eventWoken"}
         => procState[p] = "WAITING"
  /\ \A c \in Cpus :
       /\ cpuPc[c] \in {"runWait", "runWoken", "top"}
       /\ Held(c) # NULL
       => procState[Held(c)] = "RUNNING"
  /\ status = "exited" => \A p \in Procs : procState[p] # "RUNNING"

-----------------------------------------------------------------------------
(* The ready queue and its sleepers.                                       *)

\* No process waits in the ready queue while a CPU thread sleeps in idle()
\* without having been woken: enqueue_ready() signals only when the queue was
\* empty, so that one broadcast must reach every sleeper.
WakeupNotLost ==
  (\E c \in Cpus : cpuPc[c] = "idleWait") => rq.count = 0

\* The linked list behaves as a queue that never holds a process twice.
Fifo == INSTANCE FifoQueue WITH queue <- Contents(rq)

-----------------------------------------------------------------------------
(* The life of a process.                                                  *)

Place == [p \in Procs |->
            IF Running(p) THEN "running"
            ELSE IF Ready(p) THEN "ready"
            ELSE IF Done(p) THEN "done"
            ELSE IF New(p) THEN "new"
            ELSE IF Waiting(p) \/ BeingWoken(p) THEN "waiting"
            ELSE "lost"]

Life == INSTANCE ProcessLife WITH place <- Place

-----------------------------------------------------------------------------
(* The inverted readers-writers lock.                                      *)

\* CPU thread c has taken the writer lock and not yet given it up.
IsWriter(c) ==
  \/ cpuPc[c] = "handler"
  \/ /\ cpuPc[c] \in {"dequeue", "setCurrent", "switchUnlock"}
     /\ cpuEvent[c] # "IDLE"
  \/ cpuPc[c] = "leave"

\* CPU thread c came to context_switch() from idle(): it gave up a lock that
\* it does not hold and has not taken it back.
IsDebtor(c) == cpuPc[c] \in {"switchStore", "switchLock"} /\ cpuEvent[c] = "IDLE"

SupervisorIsWriter == supPc \in {"wakeEnqueue", "wakeScan", "fpUnlock", "wakeUnlock"}

Writers == {c \in Cpus : IsWriter(c)}
Debtors == {c \in Cpus : IsDebtor(c)}

\* While print_gantt_line() reads the PCBs as IRWL_READER, the handlers under
\* way are no more than the idle CPUs inside context_switch(), each of which
\* takes one writer off student_lock.writers that it never put there.
ReaderExclusion == HoldsReader => Cardinality(Writers) <= Cardinality(Debtors)

\* What the comment on the lock promises: "infinitely many writers or one
\* reader".
ReaderAlone == HoldsReader => Writers = {}

-----------------------------------------------------------------------------
(* I/O and termination.                                                    *)

\* A process has at most one I/O request, and has one only while its program
\* counter stands at that I/O operation: simulate_io() moves the counter of
\* whatever process the request names.
OneRequestPerProcess ==
  /\ \A i \in 1 .. Len(ioQueue) :
       LET p == ioQueue[i].pcb IN Program[p][opIndex[p]].type = "IO"
  /\ \A i, j \in 1 .. Len(ioQueue) :
       ioQueue[i].pcb = ioQueue[j].pcb => i = j

\* A CPU on its way to count a termination: its event is set or read, and
\* processes_terminated is not incremented yet.
CountPending(c) ==
  \/ cpuPc[c] = "terminating"
  \/ cpuPc[c] = "runWoken" /\ cpuState[c] = "TERMINATE"

\* processes_terminated never runs ahead of the processes that reached their
\* end, whatever the timing: exit(0) is never early.
TerminationsCounted ==
  /\ processesTerminated + Cardinality({c \in Cpus : CountPending(c)})
       <= Cardinality({p \in Procs : Done(p)})
  /\ status = "exited" => \A p \in Procs : Done(p)

=============================================================================
