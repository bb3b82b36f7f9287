------------------------------- MODULE OsSim --------------------------------
(***************************************************************************)
(* The multithreaded operating-system simulator of project 6: one          *)
(* supervisor thread (os-sim.c), one thread per CPU (os-sim.c) and the     *)
(* scheduler they call (student.c).                                        *)
(*                                                                         *)
(* A label of supPc or cpuPc names the point a thread has reached.  Every  *)
(* step runs from one lock operation to the next: the sections under       *)
(* ready_queue_mutex, under current_mutex and under the mutex inside the   *)
(* student_lock are one step each.  Only the supervisor keeps a mutex      *)
(* across steps, so the owner of simulator_mutex is read off supPc.        *)
(***************************************************************************)
EXTENDS ReadyQueue

CONSTANTS
  CpuCount,             \* cpu_count, the argument of main()
  Program,              \* Program[p]: the operations of processes[p]
  Priority,             \* Priority[p]: static_priority
  TimeSlices,           \* the time slices the program may be started with
  CreationPeriod,       \* ticks between two process creations: 10
  SpuriousWakeups       \* pthread_cond_wait may return without a signal

Cpus == 0 .. CpuCount - 1

OpTypes == {"CPU", "IO", "TERMINATE"}
Ops     == [type : OpTypes, time : Nat]

ASSUME CpuCountAssumption       == CpuCount \in Nat \ {0}
ASSUME CreationPeriodAssumption == CreationPeriod \in Nat \ {0}
ASSUME TimeSlicesAssumption     == TimeSlices \subseteq Int
ASSUME SpuriousAssumption       == SpuriousWakeups \in BOOLEAN
ASSUME PriorityAssumption       == Priority \in [Procs -> 0 .. 10]

\* process.c: the operations alternate, the first and the last one are CPU
\* bursts, and a TERMINATE ends the array.
ASSUME ProgramAssumption ==
  /\ Program \in [Procs -> Seq(Ops)]
  /\ \A p \in Procs :
       /\ Len(Program[p]) > 1
       /\ \A i \in 1 .. Len(Program[p]) :
            /\ Program[p][i].type = "TERMINATE" <=> i = Len(Program[p])
            /\ Program[p][i].type = "CPU" <=> i % 2 = 1

VARIABLES
  simCurrent,           \* simulator_cpu_data[c].current
  cpuState,             \* simulator_cpu_data[c].state
  preemptionTimer,      \* simulator_cpu_data[c].preemption_timer
  current,              \* student.c's current[c]
  rq,                   \* student.c's ready queue
  procState,            \* pcb->state
  opIndex,              \* pcb->pc, as an index into Program[p]
  opTime,               \* pc->time, what is left of the operation at pc
  ioQueue,              \* the I/O requests
  processesCreated, processesTerminated,
  simulatorTime,        \* simulator_time % CreationPeriod
  writers,              \* student_lock.writers
  timeSlice, staticPriority,            \* the command line
  cpuPc, cpuPcb, cpuEvent,              \* a CPU thread and its locals
  supPc, supN, supPcb, supReturn,       \* the supervisor and its locals
  status                \* of the whole program

simVars   == <<simCurrent, cpuState, preemptionTimer>>
procVars  == <<procState, opIndex, opTime>>
countVars == <<processesCreated, processesTerminated, simulatorTime>>
modeVars  == <<timeSlice, staticPriority>>
cpuVars   == <<cpuPc, cpuPcb, cpuEvent>>
supVars   == <<supPc, supN, supPcb, supReturn>>
vars == <<simVars, current, rq, procVars, ioQueue, countVars, writers,
          modeVars, cpuVars, supVars, status>>

CpuStates  == {"IDLE", "RUNNING", "PREEMPT", "YIELD", "TERMINATE"}
ProcStates == {"NEW", "READY", "RUNNING", "WAITING", "TERMINATED"}
CpuLabels  == {"top", "runWait", "runWoken", "terminating", "enter",
               "handler", "idle", "idleWait", "dequeue", "setCurrent",
               "switchUnlock", "switchStore", "switchLock", "leave"}
SupLabels  == {"sleep", "gantt", "ganttWait", "reading", "cpus",
               "eventWait", "eventWoken", "io", "creat", "wakeLock",
               "wakeEnqueue", "wakeScan", "fpUnlock", "fpCheck", "fpWait",
               "fpLock", "wakeUnlock", "wakeReturn", "exit"}

Init ==
  /\ simCurrent = [c \in Cpus |-> NULL]
  /\ cpuState = [c \in Cpus |-> "IDLE"]
  /\ preemptionTimer = [c \in Cpus |-> -1]
  /\ current = [c \in Cpus |-> NULL]
  /\ rq = InitReadyQueue
  /\ procState = [p \in Procs |-> "NEW"]
  /\ opIndex = [p \in Procs |-> 1]
  /\ opTime = [p \in Procs |-> Program[p][1].time]
  /\ ioQueue = << >>
  /\ processesCreated = 0 /\ processesTerminated = 0 /\ simulatorTime = 0
  /\ writers = 0
  /\ timeSlice \in TimeSlices /\ staticPriority \in BOOLEAN
  /\ cpuPc = [c \in Cpus |-> "top"]
  /\ cpuPcb = [c \in Cpus |-> NULL]
  /\ cpuEvent = [c \in Cpus |-> "IDLE"]
  /\ supPc = "sleep" /\ supN = 0 /\ supPcb = NULL /\ supReturn = "creat"
  /\ status = "running"

-----------------------------------------------------------------------------
(* Locks and condition variables.                                          *)

\* The supervisor holds simulator_mutex; print_gantt_line() keeps it while it
\* waits for no_writers, which only gives up the mutex of the student_lock.
HoldsSimulatorMutex ==
  supPc \in {"gantt", "ganttWait", "reading", "cpus", "io", "creat"}

\* The supervisor holds the student_lock as its reader.
HoldsReader == supPc = "reading"

CpuGoto(c, label) == cpuPc' = [cpuPc EXCEPT ![c] = label]
SupGoto(label)    == supPc' = label

WriterLock   == ~HoldsReader /\ writers' = writers + 1
WriterUnlock == ~HoldsReader /\ writers' = writers - 1

\* A CPU thread that leaves with the count at 0 wakes print_gantt_line().
SignalNoWriters ==
  supPc' = IF writers' = 0 /\ supPc = "ganttWait" THEN "gantt" ELSE supPc

\* pthread_cond_signal(wakeup) by the supervisor: CPU c, if it waits there.
SignalCpu(c) ==
  cpuPc' = [cpuPc EXCEPT ![c] = IF @ = "runWait" THEN "runWoken" ELSE @]

\* Mistake: the loop of a CPU thread does not tell the supervisor.
SignalSupervisorMissing(c) == supPc' = supPc

\* pthread_cond_signal(wakeup) by CPU c: the supervisor, if it waits there.
SignalSupervisor(c) ==
  supPc' = IF supN = c /\ supPc = "eventWait" THEN "eventWoken"
           ELSE IF supN = c /\ supPc = "fpWait" THEN "fpLock"
           ELSE supPc

\* Mistakes: a signal, which wakes one thread, instead of a broadcast; and the
\* test for the empty queue made once the process is in it.
BroadcastIdleBySignal(pcs) ==
  IF rq.count = 0 /\ \E c \in Cpus : pcs[c] = "idleWait"
  THEN [pcs EXCEPT ![CHOOSE c \in Cpus : pcs[c] = "idleWait"] = "idle"]
  ELSE pcs

BroadcastIdleTooLate(pcs) ==
  IF rq.count + 1 = 0
  THEN [c \in Cpus |-> IF pcs[c] = "idleWait" THEN "idle" ELSE pcs[c]]
  ELSE pcs

\* enqueue_ready() broadcasts idle_cond only to a queue that was empty;
\* pcs is the labels of the CPU threads, after which the idle ones move.
BroadcastIdle(pcs) ==
  IF rq.count = 0
  THEN [c \in Cpus |-> IF pcs[c] = "idleWait" THEN "idle" ELSE pcs[c]]
  ELSE pcs

-----------------------------------------------------------------------------
(* The supervisor thread: one tick of the simulation.                      *)

SupLock ==
  /\ supPc = "sleep"
  /\ IF processesTerminated >= ProcessCount
     THEN SupGoto("exit") /\ status' = "exited"
     ELSE SupGoto("gantt") /\ UNCHANGED status
  /\ UNCHANGED <<simVars, current, rq, procVars, ioQueue, countVars, writers,
                 modeVars, cpuVars, supN, supPcb, supReturn>>

ReaderLock ==
  /\ supPc = "gantt"
  /\ SupGoto(IF writers > 0 THEN "ganttWait" ELSE "reading")
  /\ UNCHANGED <<simVars, current, rq, procVars, ioQueue, countVars, writers,
                 modeVars, cpuVars, supN, supPcb, supReturn, status>>

ReaderUnlock ==
  /\ supPc = "reading"
  /\ SupGoto("cpus") /\ supN' = 0
  /\ UNCHANGED <<simVars, current, rq, procVars, ioQueue, countVars, writers,
                 modeVars, cpuVars, supPcb, supReturn, status>>

\* The supervisor sets the state of CPU n, signals it and waits for it.
Dispatch(n, event) ==
  /\ cpuState' = [cpuState EXCEPT ![n] = event]
  /\ SignalCpu(n)

\* Every timer below zero counts down for ever: -1 stands for all of them.
Tick(timer) == IF timer > 0 THEN timer - 1 ELSE -1

RunBurst(n, p) ==
  LET timer == Tick(preemptionTimer[n]) IN
  /\ opTime' = [opTime EXCEPT ![p] = @ - 1]
  /\ preemptionTimer' = [preemptionTimer EXCEPT ![n] = timer]
  /\ IF timer = 0
     THEN Dispatch(n, "PREEMPT") /\ SupGoto("eventWait") /\ UNCHANGED supN
     ELSE UNCHANGED <<cpuState, cpuPc, supPc>> /\ supN' = n + 1
  /\ UNCHANGED <<opIndex, ioQueue>>

\* Mistake: a request is queued for a process that terminates, too.
SubmitIoRequestAlways(p, op) == Append(ioQueue, [pcb |-> p, time |-> op.time])

SubmitIoRequest(p, op) ==
  IF op.type = "IO" THEN Append(ioQueue, [pcb |-> p, time |-> op.time])
                    ELSE ioQueue

NextOperation(n, p) ==
  LET op == Program[p][opIndex[p] + 1] IN
  /\ opIndex' = [opIndex EXCEPT ![p] = @ + 1]
  /\ opTime' = [opTime EXCEPT ![p] = op.time]
  /\ ioQueue' = SubmitIoRequest(p, op)
  /\ IF op.type = "CPU"
     THEN UNCHANGED <<cpuState, cpuPc, supPc>> /\ supN' = n + 1
     ELSE /\ Dispatch(n, IF op.type = "IO" THEN "YIELD" ELSE "TERMINATE")
          /\ SupGoto("eventWait") /\ UNCHANGED supN
  /\ UNCHANGED preemptionTimer

\* A process that stands at an I/O operation or at its end is only reported.
SimulateProcess(n, p) ==
  IF Program[p][opIndex[p]].type = "CPU"
  THEN IF opTime[p] > 0 THEN RunBurst(n, p) ELSE NextOperation(n, p)
  ELSE /\ supN' = n + 1
       /\ UNCHANGED <<cpuState, preemptionTimer, opIndex, opTime, ioQueue,
                      cpuPc, supPc>>

SimulateCpus ==
  /\ supPc = "cpus"
  /\ IF supN = CpuCount
     THEN /\ SupGoto("io")
          /\ UNCHANGED <<cpuState, preemptionTimer, opIndex, opTime, ioQueue,
                         cpuPc, supN>>
     ELSE IF simCurrent[supN] = NULL
     THEN /\ supN' = supN + 1
          /\ UNCHANGED <<cpuState, preemptionTimer, opIndex, opTime, ioQueue,
                         cpuPc, supPc>>
     ELSE SimulateProcess(supN, simCurrent[supN])
  /\ UNCHANGED <<simCurrent, current, rq, procState, countVars, writers,
                 modeVars, cpuPcb, cpuEvent, supPcb, supReturn, status>>

\* pthread_cond_wait returns, and simulate_cpus() goes on with the next CPU.
EventHandled ==
  /\ supPc = "eventWoken"
  /\ SupGoto("cpus") /\ supN' = supN + 1
  /\ UNCHANGED <<simVars, current, rq, procVars, ioQueue, countVars, writers,
                 modeVars, cpuVars, supPcb, supReturn, status>>

\* simulate_io(): the head request runs, or is removed and its process woken.
SimulateIo ==
  /\ supPc = "io"
  /\ IF ioQueue = << >>
     THEN SupGoto("creat") /\ UNCHANGED <<ioQueue, opIndex, opTime, supPcb,
                                          supReturn>>
     ELSE IF Head(ioQueue).time > 0
     THEN /\ ioQueue' = [ioQueue EXCEPT ![1].time = @ - 1]
          /\ SupGoto("creat")
          /\ UNCHANGED <<opIndex, opTime, supPcb, supReturn>>
     ELSE LET p == Head(ioQueue).pcb IN
          /\ opIndex' = [opIndex EXCEPT ![p] = @ + 1]
          /\ opTime' = [opTime EXCEPT ![p] = Program[p][opIndex[p] + 1].time]
          /\ ioQueue' = Tail(ioQueue)
          /\ supPcb' = p /\ supReturn' = "creat"
          /\ SupGoto("wakeLock")
  /\ UNCHANGED <<simVars, current, rq, procState, countVars, writers,
                 modeVars, cpuVars, supN, status>>

NextTick == simulatorTime' = (simulatorTime + 1) % CreationPeriod

\* simulate_creat(), and the end of a tick that creates nothing.
SimulateCreat ==
  /\ supPc = "creat"
  /\ IF simulatorTime = 0 /\ processesCreated < ProcessCount
     THEN /\ supPcb' = processesCreated + 1 /\ supReturn' = "sleep"
          /\ SupGoto("wakeLock") /\ UNCHANGED simulatorTime
     ELSE /\ NextTick /\ SupGoto("sleep") /\ UNCHANGED <<supPcb, supReturn>>
  /\ UNCHANGED <<simVars, current, rq, procVars, ioQueue, processesCreated,
                 processesTerminated, writers, modeVars, cpuVars, supN,
                 status>>

-----------------------------------------------------------------------------
(* wake_up() and force_preempt(), which only the supervisor calls.         *)

WakeLock ==
  /\ supPc = "wakeLock"
  /\ WriterLock
  /\ SupGoto("wakeEnqueue")
  /\ UNCHANGED <<simVars, current, rq, procVars, ioQueue, countVars,
                 modeVars, cpuVars, supN, supPcb, supReturn, status>>

WakeEnqueue ==
  /\ supPc = "wakeEnqueue"
  /\ procState' = [procState EXCEPT ![supPcb] = "READY"]
  /\ rq' = EnqueueReady(rq, supPcb)
  /\ cpuPc' = BroadcastIdle(cpuPc)
  /\ SupGoto(IF staticPriority THEN "wakeScan" ELSE "wakeUnlock")
  /\ UNCHANGED <<simVars, current, opIndex, opTime, ioQueue, countVars,
                 writers, modeVars, cpuPcb, cpuEvent, supN, supPcb, supReturn,
                 status>>

\* The first CPU that runs a process of the lowest priority below 10.
LowestCpu(c) ==
  /\ Priority[current[c]] < 10
  /\ \A d \in Cpus : /\ Priority[current[c]] <= Priority[current[d]]
                     /\ d < c => Priority[current[c]] < Priority[current[d]]

\* The CPU that wake_up(p) preempts: none while some CPU is idle.
Victim(p, c) ==
  /\ \A d \in Cpus : current[d] # NULL
  /\ LowestCpu(c)
  /\ Priority[current[c]] < Priority[p]

WakeScan ==
  /\ supPc = "wakeScan"
  /\ IF \E c \in Cpus : Victim(supPcb, c)
     THEN /\ supN' = CHOOSE c \in Cpus : Victim(supPcb, c)
          /\ SupGoto("fpUnlock")
     ELSE SupGoto("wakeUnlock") /\ UNCHANGED supN
  /\ UNCHANGED <<simVars, current, rq, procVars, ioQueue, countVars, writers,
                 modeVars, cpuVars, supPcb, supReturn, status>>

ForcePreemptUnlock ==
  /\ supPc = "fpUnlock"
  /\ WriterUnlock
  /\ SupGoto("fpCheck")
  /\ UNCHANGED <<simVars, current, rq, procVars, ioQueue, countVars,
                 modeVars, cpuVars, supN, supPcb, supReturn, status>>

ForcePreemptCheck ==
  /\ supPc = "fpCheck"
  /\ IF cpuState[supN] = "RUNNING"
     THEN Dispatch(supN, "PREEMPT") /\ SupGoto("fpWait")
     ELSE SupGoto("fpLock") /\ UNCHANGED <<cpuState, cpuPc>>
  /\ UNCHANGED <<simCurrent, preemptionTimer, current, rq, procVars, ioQueue,
                 countVars, writers, modeVars, cpuPcb, cpuEvent, supN, supPcb,
                 supReturn, status>>

ForcePreemptLock ==
  /\ supPc = "fpLock"
  /\ WriterLock
  /\ SupGoto("wakeUnlock")
  /\ UNCHANGED <<simVars, current, rq, procVars, ioQueue, countVars,
                 modeVars, cpuVars, supN, supPcb, supReturn, status>>

WakeUnlock ==
  /\ supPc = "wakeUnlock"
  /\ WriterUnlock
  /\ SupGoto("wakeReturn")
  /\ UNCHANGED <<simVars, current, rq, procVars, ioQueue, countVars,
                 modeVars, cpuVars, supN, supPcb, supReturn, status>>

\* Back in simulate_io(), or in simulate_creat() and on to the next tick.
WakeReturn ==
  /\ supPc = "wakeReturn"
  /\ SupGoto(supReturn) /\ supPcb' = NULL
  /\ IF supReturn = "sleep"
     THEN processesCreated' = processesCreated + 1 /\ NextTick
     ELSE UNCHANGED <<processesCreated, simulatorTime>>
  /\ UNCHANGED <<simVars, current, rq, procVars, ioQueue,
                 processesTerminated, writers, modeVars, cpuVars, supN,
                 supReturn, status>>

Supervisor ==
  \/ SupLock \/ ReaderLock \/ ReaderUnlock \/ SimulateCpus \/ EventHandled
  \/ SimulateIo \/ SimulateCreat \/ WakeLock \/ WakeEnqueue \/ WakeScan
  \/ ForcePreemptUnlock \/ ForcePreemptCheck \/ ForcePreemptLock
  \/ WakeUnlock \/ WakeReturn

-----------------------------------------------------------------------------
(* A CPU thread: its loop, and the student's handlers it calls.            *)

\* "Let the simulator know the scheduler has been run", then idle or run.
LoopTop(c) ==
  /\ cpuPc[c] = "top" /\ ~HoldsSimulatorMutex
  /\ SignalSupervisor(c)
  /\ IF simCurrent[c] = NULL
     THEN cpuState' = [cpuState EXCEPT ![c] = "IDLE"] /\ CpuGoto(c, "idle")
     ELSE cpuState' = [cpuState EXCEPT ![c] = "RUNNING"]
          /\ CpuGoto(c, "runWait")
  /\ UNCHANGED <<simCurrent, preemptionTimer, current, rq, procVars, ioQueue,
                 countVars, writers, modeVars, cpuPcb, cpuEvent, supN, supPcb,
                 supReturn, status>>

\* Mistake: the case of CPU_YIELD counts a termination.
HandlerEntryCountsYields(state) ==
  IF state \in {"YIELD", "TERMINATE"} THEN "terminating" ELSE "enter"

\* The case of the switch that the state selects.
HandlerEntry(state) == IF state = "TERMINATE" THEN "terminating" ELSE "enter"

\* Mistake: an `if' around the wait of the CPU thread instead of the `while'.
RunWokenAlways(c) ==
  /\ cpuPc[c] = "runWoken" /\ ~HoldsSimulatorMutex
  /\ IF cpuState[c] = "RUNNING"
     THEN CpuGoto(c, "top") /\ UNCHANGED cpuEvent
     ELSE /\ cpuEvent' = [cpuEvent EXCEPT ![c] = cpuState[c]]
          /\ CpuGoto(c, HandlerEntry(cpuState[c]))
  /\ UNCHANGED <<simVars, current, rq, procVars, ioQueue, countVars, writers,
                 modeVars, cpuPcb, supVars, status>>

RunWoken(c) ==
  /\ cpuPc[c] = "runWoken" /\ ~HoldsSimulatorMutex
  /\ IF cpuState[c] = "RUNNING"
     THEN CpuGoto(c, "runWait") /\ UNCHANGED cpuEvent
     ELSE /\ cpuEvent' = [cpuEvent EXCEPT ![c] = cpuState[c]]
          /\ CpuGoto(c, HandlerEntry(cpuState[c]))
  /\ UNCHANGED <<simVars, current, rq, procVars, ioQueue, countVars, writers,
                 modeVars, cpuPcb, supVars, status>>

CountTerminated(c) ==
  /\ cpuPc[c] = "terminating" /\ ~HoldsSimulatorMutex
  /\ processesTerminated' = processesTerminated + 1
  /\ CpuGoto(c, "enter")
  /\ UNCHANGED <<simVars, current, rq, procVars, ioQueue, processesCreated,
                 simulatorTime, writers, modeVars, cpuPcb, cpuEvent, supVars,
                 status>>

EnterHandler(c) ==
  /\ cpuPc[c] = "enter"
  /\ WriterLock
  /\ CpuGoto(c, "handler")
  /\ UNCHANGED <<simVars, current, rq, procVars, ioQueue, countVars,
                 modeVars, cpuPcb, cpuEvent, supVars, status>>

\* Mistake: preempt() leaves the process in the state RUNNING.
HandlerStateUnmarked == [PREEMPT |-> "RUNNING", YIELD |-> "WAITING",
                         TERMINATE |-> "TERMINATED"]

\* What each handler makes of the state of the PCB that current[c] names.
HandlerState == [PREEMPT |-> "READY", YIELD |-> "WAITING",
                 TERMINATE |-> "TERMINATED"]

\* Mistake: terminate() puts the process back in the ready queue, too.
RequeuesTerminated(event) == event \in {"PREEMPT", "TERMINATE"}

\* Only preempt() puts the process back in the ready queue.
Requeues(event) == event = "PREEMPT"

Crash == status' = "crashed"

\* preempt(), yield() and terminate(), up to their call of schedule().
Handler(c) ==
  LET p == current[c] IN
  /\ cpuPc[c] = "handler"
  /\ IF p = NULL
     THEN Crash /\ UNCHANGED <<procState, rq, cpuPc>>
     ELSE /\ procState' = [procState EXCEPT ![p] = HandlerState[cpuEvent[c]]]
          /\ IF Requeues(cpuEvent[c])
             THEN /\ rq' = EnqueueReady(rq, p)
                  /\ cpuPc' = BroadcastIdle([cpuPc EXCEPT ![c] = "dequeue"])
             ELSE CpuGoto(c, "dequeue") /\ UNCHANGED rq
          /\ UNCHANGED status
  /\ UNCHANGED <<simVars, current, opIndex, opTime, ioQueue, countVars,
                 writers, modeVars, cpuPcb, cpuEvent, supVars>>

Idle(c) ==
  /\ cpuPc[c] = "idle"
  /\ CpuGoto(c, IF rq.count = 0 THEN "idleWait" ELSE "dequeue")
  /\ UNCHANGED <<simVars, current, rq, procVars, ioQueue, countVars, writers,
                 modeVars, cpuPcb, cpuEvent, supVars, status>>

\* schedule(): the call of dequeue_ready().
Dequeue(c) ==
  /\ cpuPc[c] = "dequeue"
  /\ IF DequeueCrashes(rq)
     THEN Crash /\ UNCHANGED <<rq, cpuPcb, cpuPc>>
     ELSE /\ rq' = DequeueReady(rq)
          /\ cpuPcb' = [cpuPcb EXCEPT ![c] = DequeueResult(rq)]
          /\ CpuGoto(c, "setCurrent") /\ UNCHANGED status
  /\ UNCHANGED <<simVars, current, procVars, ioQueue, countVars, writers,
                 modeVars, cpuEvent, supVars>>

\* schedule(): the state of the PCB, and current[] under its mutex.
SetCurrent(c) ==
  /\ cpuPc[c] = "setCurrent"
  /\ procState' = IF cpuPcb[c] = NULL THEN procState
                  ELSE [procState EXCEPT ![cpuPcb[c]] = "RUNNING"]
  /\ current' = [current EXCEPT ![c] = cpuPcb[c]]
  /\ CpuGoto(c, "switchUnlock")
  /\ UNCHANGED <<simVars, rq, opIndex, opTime, ioQueue, countVars, writers,
                 modeVars, cpuPcb, cpuEvent, supVars, status>>

\* context_switch() gives up the writer lock, even on the way from idle(),
\* which never took it.
SwitchUnlock(c) ==
  /\ cpuPc[c] = "switchUnlock"
  /\ WriterUnlock /\ SignalNoWriters
  /\ CpuGoto(c, "switchStore")
  /\ UNCHANGED <<simVars, current, rq, procVars, ioQueue, countVars,
                 modeVars, cpuPcb, cpuEvent, supN, supPcb, supReturn, status>>

SwitchStore(c) ==
  /\ cpuPc[c] = "switchStore" /\ ~HoldsSimulatorMutex
  /\ simCurrent' = [simCurrent EXCEPT ![c] = cpuPcb[c]]
  /\ preemptionTimer' = [preemptionTimer EXCEPT ![c] = timeSlice]
  /\ cpuPcb' = [cpuPcb EXCEPT ![c] = NULL]
  /\ CpuGoto(c, "switchLock")
  /\ UNCHANGED <<cpuState, current, rq, procVars, ioQueue, countVars, writers,
                 modeVars, cpuEvent, supVars, status>>

\* Mistake: context_switch() does not take the writer lock back.
SwitchLockMissing(c) ==
  /\ cpuPc[c] = "switchLock"
  /\ CpuGoto(c, IF cpuEvent[c] = "IDLE" THEN "top" ELSE "leave")
  /\ UNCHANGED <<simVars, current, rq, procVars, ioQueue, countVars, writers,
                 modeVars, cpuPcb, cpuEvent, supVars, status>>

SwitchLock(c) ==
  /\ cpuPc[c] = "switchLock"
  /\ WriterLock
  /\ CpuGoto(c, IF cpuEvent[c] = "IDLE" THEN "top" ELSE "leave")
  /\ UNCHANGED <<simVars, current, rq, procVars, ioQueue, countVars,
                 modeVars, cpuPcb, cpuEvent, supVars, status>>

LeaveHandler(c) ==
  /\ cpuPc[c] = "leave"
  /\ WriterUnlock /\ SignalNoWriters
  /\ cpuEvent' = [cpuEvent EXCEPT ![c] = "IDLE"]
  /\ CpuGoto(c, "top")
  /\ UNCHANGED <<simVars, current, rq, procVars, ioQueue, countVars,
                 modeVars, cpuPcb, supN, supPcb, supReturn, status>>

CpuThread(c) ==
  \/ LoopTop(c) \/ RunWoken(c) \/ CountTerminated(c) \/ EnterHandler(c)
  \/ Handler(c) \/ Idle(c) \/ Dequeue(c) \/ SetCurrent(c) \/ SwitchUnlock(c)
  \/ SwitchStore(c) \/ SwitchLock(c) \/ LeaveHandler(c)

-----------------------------------------------------------------------------
(* A wait that returns without a signal.  The CPU threads and the reader   *)
(* test their condition again; simulate_process() and force_preempt() go   *)
(* on as if the scheduler had run.                                         *)

AfterSpurious == [runWait |-> "runWoken", idleWait |-> "idle"]

SpuriousCpu(c) ==
  /\ cpuPc[c] \in {"runWait", "idleWait"}
  /\ CpuGoto(c, AfterSpurious[cpuPc[c]])
  /\ UNCHANGED <<simVars, current, rq, procVars, ioQueue, countVars, writers,
                 modeVars, cpuPcb, cpuEvent, supVars, status>>

SupAfterSpurious == [ganttWait |-> "gantt", eventWait |-> "eventWoken",
                     fpWait |-> "fpLock"]

SpuriousSupervisor ==
  /\ supPc \in {"ganttWait", "eventWait", "fpWait"}
  /\ SupGoto(SupAfterSpurious[supPc])
  /\ UNCHANGED <<simVars, current, rq, procVars, ioQueue, countVars, writers,
                 modeVars, cpuVars, supN, supPcb, supReturn, status>>

Spurious == /\ SpuriousWakeups
            /\ SpuriousSupervisor \/ \E c \in Cpus : SpuriousCpu(c)

\* exit() or a segmentation fault stops every thread.
Halted == status # "running" /\ UNCHANGED vars

Next == \/ status = "running" /\ Supervisor
        \/ status = "running" /\ \E c \in Cpus : CpuThread(c)
        \/ status = "running" /\ Spurious
        \/ Halted

Spec == Init /\ [][Next]_vars
=============================================================================
