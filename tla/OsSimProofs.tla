----------------------------- MODULE OsSimProofs ----------------------------
(***************************************************************************)
(* Theorems about the simulator of OsSim, for every number of CPUs and     *)
(* processes, every program, every timing and any spurious wakeups.        *)
(***************************************************************************)
EXTENDS OsSimProperties, FiniteSetTheorems, TLAPS

\* The inductive invariant: the types, the locals of the threads at their
\* labels, and the I/O requests, which keep every program counter in bounds.
IInv == TypeOK /\ SupervisorOK /\ CpuThreadOK /\ OneRequestPerProcess

-----------------------------------------------------------------------------
(* The programs and the ready queue.                                       *)

\* Every process has a next operation unless it stands at its last one.
LEMMA ProgramOps ==
  ASSUME NEW p \in Procs, NEW i \in 1 .. Len(Program[p])
  PROVE  /\ Program[p][i] \in Ops
         /\ Program[p][i].type \in OpTypes /\ Program[p][i].time \in Nat
         /\ Program[p][i].type # "TERMINATE" =>
              /\ i + 1 \in 1 .. Len(Program[p])
              /\ Program[p][i+1] \in Ops
              /\ Program[p][i+1].time \in Nat
<1>1. Program[p] \in Seq(Ops) /\ Len(Program[p]) \in Nat
  BY ProgramAssumption
<1>2. \A j \in 1 .. Len(Program[p]) : Program[p][j] \in Ops
  BY <1>1
<1>3. \A o \in Ops : o.type \in OpTypes /\ o.time \in Nat
  BY DEF Ops
<1>4. Program[p][i].type # "TERMINATE" => i + 1 \in 1 .. Len(Program[p])
  BY <1>1, ProgramAssumption
<1> QED BY <1>2, <1>3, <1>4

\* The empty queue is a queue.
LEMMA InitReadyQueueType == InitReadyQueue \in Queues
BY DEF InitReadyQueue, Queues

\* A queue whose tail is replaced, as a longer enqueue does it.
LEMMA QueueTail ==
  ASSUME NEW q \in Queues, NEW t \in Procs, NEW c \in Nat,
         NEW n \in [Procs -> Procs \cup {NULL}]
  PROVE  [q EXCEPT !.next = n, !.tail = t, !.count = c] \in Queues
BY DEF Queues

\* A queue whose head is replaced, as a dequeue does it.
LEMMA QueueHead ==
  ASSUME NEW q \in Queues, NEW h \in Procs \cup {NULL}, NEW c \in Nat
  PROVE  [q EXCEPT !.head = h, !.count = c] \in Queues
BY DEF Queues

\* An enqueue keeps the types of a queue and leaves it a tail.
LEMMA EnqueueType ==
  ASSUME NEW q \in Queues, NEW p \in Procs, q.count > 0 => q.tail \in Procs
  PROVE  /\ EnqueueReady(q, p) \in Queues
         /\ EnqueueReady(q, p).count = q.count + 1
         /\ EnqueueReady(q, p).tail = p
<1>1. q.count + 1 \in Nat /\ q.next \in [Procs -> Procs \cup {NULL}]
  BY DEF Queues
<1>2. CASE q.count = 0
  <2>1. EnqueueReady(q, p) = [q EXCEPT !.head = p, !.tail = p, !.count = 1]
    BY <1>2 DEF EnqueueReady
  <2>2. [q EXCEPT !.head = p, !.tail = p, !.count = 1] \in Queues
    BY DEF Queues
  <2> QED BY <1>2, <2>1, <2>2 DEF Queues
<1>3. CASE q.count # 0
  <2>1. [q.next EXCEPT ![q.tail] = p] \in [Procs -> Procs \cup {NULL}]
    BY <1>1
  <2>2. EnqueueReady(q, p) =
          [q EXCEPT !.next[q.tail] = p, !.tail = p, !.count = @ + 1]
    BY <1>3 DEF EnqueueReady
  <2>3. [q EXCEPT !.next[q.tail] = p, !.tail = p, !.count = @ + 1] \in Queues
    BY <1>1, <2>1, QueueTail
  <2>4. /\ EnqueueReady(q, p).count = q.count + 1
        /\ EnqueueReady(q, p).tail = p
    BY <2>2 DEF Queues
  <2> QED BY <2>2, <2>3, <2>4
<1> QED BY <1>2, <1>3

\* A dequeue that does not crash keeps the types of a queue, and its tail
\* while the queue is not empty.
LEMMA DequeueType ==
  ASSUME NEW q \in Queues, q.count > 0 => q.tail \in Procs, ~DequeueCrashes(q)
  PROVE  /\ DequeueReady(q) \in Queues
         /\ DequeueReady(q).count = IF q.count = 0 THEN 0 ELSE q.count - 1
         /\ DequeueReady(q).count > 0 => DequeueReady(q).tail \in Procs
         /\ DequeueResult(q) \in Procs \cup {NULL}
<1>0. /\ q.count \in Nat /\ q.next \in [Procs -> Procs \cup {NULL}]
      /\ q.head \in Procs \cup {NULL} /\ q.tail \in Procs \cup {NULL}
  BY DEF Queues
<1>1. DequeueResult(q) \in Procs \cup {NULL}
  BY <1>0 DEF DequeueResult
<1>2. CASE q.count = 0
  <2>1. DequeueReady(q) = q
    BY <1>2 DEF DequeueReady
  <2> QED BY <1>1, <1>2, <2>1
<1>3. CASE q.count = 1
  <2>1. DequeueReady(q) = [q EXCEPT !.head = NULL, !.tail = NULL, !.count = 0]
    BY <1>3 DEF DequeueReady
  <2>2. [q EXCEPT !.head = NULL, !.tail = NULL, !.count = 0] \in Queues
    BY DEF Queues
  <2>3. DequeueReady(q).count = 0
    BY <2>1 DEF Queues
  <2> QED BY <1>1, <1>3, <2>1, <2>2, <2>3
<1>4. CASE q.count > 1
  <2>1. q.next[q.head] \in Procs \cup {NULL} /\ q.count - 1 \in Nat
    BY <1>0, <1>4 DEF DequeueCrashes
  <2>2. DequeueReady(q) = [q EXCEPT !.head = q.next[q.head], !.count = @ - 1]
    BY <1>0, <1>4 DEF DequeueReady
  <2>3. [q EXCEPT !.head = q.next[q.head], !.count = @ - 1] \in Queues
    BY <2>1, QueueHead
  <2>4. DequeueReady(q).count = q.count - 1 /\ DequeueReady(q).tail = q.tail
    BY <2>2 DEF Queues
  <2> QED BY <1>0, <1>1, <1>4, <2>2, <2>3, <2>4
<1> QED BY <1>0, <1>2, <1>3, <1>4

-----------------------------------------------------------------------------
(* Type correctness.                                                       *)

LEMMA InitInv == Init => IInv
<1> SUFFICES ASSUME Init PROVE IInv
  OBVIOUS
<1>1. TypeOK
  BY ProcessCountAssumption, CpuCountAssumption, CreationPeriodAssumption,
     TimeSlicesAssumption, ProgramOps, InitReadyQueueType, ProgramAssumption
  DEF Init, TypeOK, CpuTypeOK, QueueTypeOK, ProcTypeOK, SupTypeOK,
      CountTypeOK, InitReadyQueue, CpuStates, ProcStates, CpuLabels,
      SupLabels, NULL, Cpus
<1>2. SupervisorOK /\ CpuThreadOK /\ OneRequestPerProcess
  BY DEF Init, SupervisorOK, CpuThreadOK, OneRequestPerProcess, WakeLabels
<1> QED BY <1>1, <1>2 DEF IInv

\* The steps below leave most variables alone: their tuples are always open.
USE DEF simVars, procVars, countVars, modeVars, cpuVars, supVars

\* The steps of the supervisor that only move it and count writers.
LEMMA LockSteps ==
  ASSUME IInv,
         \/ SupLock \/ ReaderLock \/ ReaderUnlock \/ WakeLock
         \/ ForcePreemptUnlock \/ ForcePreemptLock \/ WakeUnlock
  PROVE  IInv'
<1> USE DEF SupLock, ReaderLock, ReaderUnlock, WakeLock, ForcePreemptUnlock,
            ForcePreemptLock, WakeUnlock, SupGoto, WriterLock, WriterUnlock
<1>1. CpuTypeOK' /\ QueueTypeOK' /\ ProcTypeOK'
  BY DEF IInv, TypeOK, CpuTypeOK, QueueTypeOK, ProcTypeOK
<1>2. SupTypeOK'
  BY CpuCountAssumption DEF IInv, TypeOK, SupTypeOK, SupLabels
<1>3. CountTypeOK'
  BY DEF IInv, TypeOK, CountTypeOK
<1>4. SupervisorOK'
  BY DEF IInv, SupervisorOK, WakeLabels
<1>5. CpuThreadOK' /\ OneRequestPerProcess'
  BY DEF IInv, CpuThreadOK, OneRequestPerProcess
<1> QED BY <1>1, <1>2, <1>3, <1>4, <1>5 DEF IInv, TypeOK

\* The supervisor goes on with the next CPU.
LEMMA EventHandledStep ==
  ASSUME IInv, EventHandled
  PROVE  IInv'
<1> USE DEF EventHandled, SupGoto
<1>1. CpuTypeOK' /\ QueueTypeOK' /\ ProcTypeOK' /\ CountTypeOK'
  BY DEF IInv, TypeOK, CpuTypeOK, QueueTypeOK, ProcTypeOK, CountTypeOK
<1>2. supN + 1 \in 0 .. CpuCount
  BY CpuCountAssumption DEF IInv, SupervisorOK, Cpus
<1>3. SupTypeOK'
  BY <1>2 DEF IInv, TypeOK, SupTypeOK, SupLabels
<1>4. SupervisorOK'
  BY DEF IInv, SupervisorOK, WakeLabels
<1>5. CpuThreadOK' /\ OneRequestPerProcess'
  BY DEF IInv, CpuThreadOK, OneRequestPerProcess
<1> QED BY <1>1, <1>3, <1>4, <1>5 DEF IInv, TypeOK

\* simulate_creat() wakes only a process that exists.
LEMMA SimulateCreatStep ==
  ASSUME IInv, SimulateCreat
  PROVE  IInv'
<1> USE DEF SimulateCreat, SupGoto
<1>1. CpuTypeOK' /\ QueueTypeOK' /\ ProcTypeOK'
  BY DEF IInv, TypeOK, CpuTypeOK, QueueTypeOK, ProcTypeOK
<1>2. (simulatorTime + 1) % CreationPeriod \in 0 .. CreationPeriod - 1
  BY CreationPeriodAssumption DEF IInv, TypeOK, CountTypeOK
<1>3. CountTypeOK'
  BY <1>2 DEF IInv, TypeOK, CountTypeOK, NextTick
<1>4. processesCreated < ProcessCount => processesCreated + 1 \in Procs
  BY ProcessCountAssumption DEF IInv, TypeOK, CountTypeOK, Procs
<1>5. SupTypeOK' /\ SupervisorOK'
  BY <1>4 DEF IInv, TypeOK, SupTypeOK, SupLabels, SupervisorOK, WakeLabels
<1>6. CpuThreadOK' /\ OneRequestPerProcess'
  BY DEF IInv, CpuThreadOK, OneRequestPerProcess
<1> QED BY <1>1, <1>3, <1>5, <1>6 DEF IInv, TypeOK

\* simulate_creat() counts the process that wake_up() has taken.
LEMMA WakeReturnStep ==
  ASSUME IInv, WakeReturn
  PROVE  IInv'
<1> USE DEF WakeReturn, SupGoto
<1>1. CpuTypeOK' /\ QueueTypeOK' /\ ProcTypeOK'
  BY DEF IInv, TypeOK, CpuTypeOK, QueueTypeOK, ProcTypeOK
<1>2. (simulatorTime + 1) % CreationPeriod \in 0 .. CreationPeriod - 1
  BY CreationPeriodAssumption DEF IInv, TypeOK, CountTypeOK
<1>3. supReturn = "sleep" => processesCreated + 1 \in 0 .. ProcessCount
  BY ProcessCountAssumption
  DEF IInv, TypeOK, CountTypeOK, SupervisorOK, WakeLabels
<1>4. CountTypeOK'
  BY <1>2, <1>3 DEF IInv, TypeOK, CountTypeOK, NextTick
<1>5. SupTypeOK' /\ SupervisorOK'
  BY DEF IInv, TypeOK, SupTypeOK, SupLabels, SupervisorOK, WakeLabels
<1>6. CpuThreadOK' /\ OneRequestPerProcess'
  BY DEF IInv, CpuThreadOK, OneRequestPerProcess
<1> QED BY <1>1, <1>4, <1>5, <1>6 DEF IInv, TypeOK

\* wake_up() marks the process and puts it in the ready queue.
LEMMA WakeEnqueueStep ==
  ASSUME IInv, WakeEnqueue
  PROVE  IInv'
<1> USE DEF WakeEnqueue, SupGoto
<1>1. supPcb \in Procs
  BY DEF IInv, SupervisorOK, WakeLabels
<1>2. QueueTypeOK'
  BY <1>1, EnqueueType DEF IInv, TypeOK, QueueTypeOK
<1>3. cpuPc' \in [Cpus -> CpuLabels]
  BY DEF IInv, TypeOK, CpuTypeOK, BroadcastIdle, CpuLabels
<1>4. CpuTypeOK'
  BY <1>3 DEF IInv, TypeOK, CpuTypeOK
<1>5. ProcTypeOK'
  BY <1>1 DEF IInv, TypeOK, ProcTypeOK, ProcStates
<1>6. SupTypeOK' /\ SupervisorOK' /\ CountTypeOK'
  BY DEF IInv, TypeOK, SupTypeOK, SupLabels, SupervisorOK, WakeLabels,
         CountTypeOK
<1>7. CpuThreadOK'
  BY DEF IInv, TypeOK, CpuTypeOK, CpuThreadOK, BroadcastIdle
<1>8. OneRequestPerProcess'
  BY DEF IInv, OneRequestPerProcess
<1> QED BY <1>2, <1>4, <1>5, <1>6, <1>7, <1>8 DEF IInv, TypeOK

\* wake_up() looks for a CPU to preempt.
LEMMA WakeScanStep ==
  ASSUME IInv, WakeScan
  PROVE  IInv'
<1> USE DEF WakeScan, SupGoto
<1>1. CpuTypeOK' /\ QueueTypeOK' /\ ProcTypeOK' /\ CountTypeOK'
  BY DEF IInv, TypeOK, CpuTypeOK, QueueTypeOK, ProcTypeOK, CountTypeOK
<1>2. supN' # supN => supN' \in Cpus
  OBVIOUS
<1>3. supPc' = "fpUnlock" => supN' \in Cpus
  OBVIOUS
<1>4. Cpus \subseteq 0 .. CpuCount
  BY CpuCountAssumption DEF Cpus
<1>5. SupTypeOK' /\ SupervisorOK'
  BY <1>2, <1>3, <1>4
  DEF IInv, TypeOK, SupTypeOK, SupLabels, SupervisorOK, WakeLabels
<1>6. CpuThreadOK' /\ OneRequestPerProcess'
  BY DEF IInv, CpuThreadOK, OneRequestPerProcess
<1> QED BY <1>1, <1>5, <1>6 DEF IInv, TypeOK

\* An event for CPU n: its state, and its label if it waits for one.
LEMMA DispatchStep ==
  ASSUME IInv, NEW n \in Cpus, NEW event \in {"PREEMPT", "YIELD", "TERMINATE"},
         Dispatch(n, event), UNCHANGED cpuEvent
  PROVE  /\ cpuState' \in [Cpus -> CpuStates]
         /\ cpuPc' \in [Cpus -> CpuLabels]
         /\ CpuThreadOK'
BY DEF IInv, TypeOK, CpuTypeOK, CpuThreadOK, Dispatch, SignalCpu, CpuStates,
       CpuLabels

\* force_preempt() preempts a CPU that is RUNNING.
LEMMA ForcePreemptCheckStep ==
  ASSUME IInv, ForcePreemptCheck
  PROVE  IInv'
<1> USE DEF ForcePreemptCheck, SupGoto
<1>1. supN \in Cpus
  BY DEF IInv, SupervisorOK
<1>2. CpuTypeOK' /\ CpuThreadOK'
  <2>1. CASE cpuState[supN] = "RUNNING"
    BY <1>1, <2>1, DispatchStep DEF IInv, TypeOK, CpuTypeOK
  <2>2. CASE cpuState[supN] # "RUNNING"
    BY <2>2 DEF IInv, TypeOK, CpuTypeOK, CpuThreadOK
  <2> QED BY <2>1, <2>2
<1>3. QueueTypeOK' /\ ProcTypeOK' /\ CountTypeOK' /\ OneRequestPerProcess'
  BY DEF IInv, TypeOK, QueueTypeOK, ProcTypeOK, CountTypeOK,
         OneRequestPerProcess
<1>4. SupTypeOK' /\ SupervisorOK'
  BY DEF IInv, TypeOK, SupTypeOK, SupLabels, SupervisorOK, WakeLabels
<1> QED BY <1>2, <1>3, <1>4 DEF IInv, TypeOK

Requests == Seq([pcb : Procs, time : Nat])

\* The fields of a request, and the sequences that one more, one less, and
\* one tick less for the head make.
LEMMA RequestFacts ==
  ASSUME NEW q \in Requests
  PROVE  /\ Len(q) \in Nat
         /\ \A i \in 1 .. Len(q) : q[i].pcb \in Procs /\ q[i].time \in Nat
         /\ \A r \in [pcb : Procs, time : Nat] :
              /\ Append(q, r) \in Requests
              /\ Len(Append(q, r)) = Len(q) + 1
              /\ \A i \in 1 .. Len(q) : Append(q, r)[i] = q[i]
              /\ Append(q, r)[Len(q) + 1] = r
         /\ q # << >> =>
              /\ 1 \in 1 .. Len(q) /\ Head(q) = q[1]
              /\ Tail(q) \in Requests /\ Len(Tail(q)) = Len(q) - 1
              /\ \A i \in 1 .. Len(q) - 1 : Tail(q)[i] = q[i+1]
<1> DEFINE Request == [pcb : Procs, time : Nat]
<1>1. \A r \in Request : r.pcb \in Procs /\ r.time \in Nat
  OBVIOUS
<1> HIDE DEF Request
<1>2. q \in Seq(Request)
  BY DEF Requests, Request
<1>3. \A i \in 1 .. Len(q) : q[i] \in Request
  BY <1>2
<1>4. \A r \in Request :
        /\ Append(q, r) \in Seq(Request)
        /\ Len(Append(q, r)) = Len(q) + 1
        /\ \A i \in 1 .. Len(q) : Append(q, r)[i] = q[i]
        /\ Append(q, r)[Len(q) + 1] = r
  BY <1>2
<1>5. q # << >> =>
        /\ 1 \in 1 .. Len(q) /\ Head(q) = q[1]
        /\ Tail(q) \in Seq(Request) /\ Len(Tail(q)) = Len(q) - 1
        /\ \A i \in 1 .. Len(q) - 1 : Tail(q)[i] = q[i+1]
  BY <1>2
<1>6. Len(q) \in Nat
  BY <1>2
<1> QED BY <1>1, <1>3, <1>4, <1>5, <1>6 DEF Requests, Request

\* simulate_io() counts down the request at the head.
LEMMA RequestCountdown ==
  ASSUME NEW q \in Requests, q # << >>, Head(q).time > 0
  PROVE  LET qq == [q EXCEPT ![1].time = @ - 1]
         IN  /\ qq \in Requests /\ Len(qq) = Len(q)
             /\ \A i \in 1 .. Len(q) : qq[i].pcb = q[i].pcb
<1> DEFINE Request == [pcb : Procs, time : Nat]
           r == [q[1] EXCEPT !.time = @ - 1]
           qq == [q EXCEPT ![1] = r]
<1>0. 1 \in 1 .. Len(q) /\ Head(q) = q[1]
  BY RequestFacts
<1>1. q[1] \in Request /\ q[1].time > 0 /\ 1 \in 1 .. Len(q)
  <2>1. q \in Seq(Request)
    BY DEF Requests
  <2> HIDE DEF Request
  <2>2. q[1] \in Request
    BY <1>0, <2>1
  <2> QED BY <1>0, <2>2
<1>2. q[1].time - 1 \in Nat
  BY <1>1
<1>3. r \in Request /\ r.pcb = q[1].pcb
  BY <1>1, <1>2
<1>4. qq = [q EXCEPT ![1].time = @ - 1]
  OBVIOUS
<1> HIDE DEF Request, r
<1>5. q \in Seq(Request)
  BY DEF Requests, Request
<1>6. qq \in Seq(Request) /\ Len(qq) = Len(q)
  BY <1>1, <1>3, <1>5
<1>7. \A i \in 1 .. Len(q) : qq[i] = IF i = 1 THEN r ELSE q[i]
  BY <1>5
<1> QED BY <1>3, <1>4, <1>6, <1>7 DEF Requests, Request

\* The facts about the process on a CPU that the next three lemmas use.
LEMMA ProcessFacts ==
  ASSUME IInv, NEW p \in Procs
  PROVE  /\ opIndex[p] \in 1 .. Len(Program[p]) /\ opIndex[p] \in Nat
         /\ opTime[p] \in Nat
         /\ Program[p][opIndex[p]] \in Ops
         /\ Program[p][opIndex[p]].type # "TERMINATE" =>
              /\ opIndex[p] + 1 \in 1 .. Len(Program[p])
              /\ Program[p][opIndex[p] + 1] \in Ops
              /\ Program[p][opIndex[p] + 1].time \in Nat
BY ProgramOps DEF IInv, TypeOK, ProcTypeOK

\* The process on CPU n runs for a tick.
LEMMA RunBurstStep ==
  ASSUME IInv, SimulateCpus, NEW n \in Cpus, n = supN, NEW p \in Procs,
         opTime[p] > 0, RunBurst(n, p)
  PROVE  IInv'
<1> USE DEF SimulateCpus, RunBurst, SupGoto
<1>1. preemptionTimer' \in [Cpus -> Int]
  BY DEF IInv, TypeOK, CpuTypeOK, Tick
<1>2. CpuTypeOK' /\ CpuThreadOK'
  <2>1. CASE Tick(preemptionTimer[n]) = 0
    BY <1>1, <2>1, DispatchStep DEF IInv, TypeOK, CpuTypeOK
  <2>2. CASE Tick(preemptionTimer[n]) # 0
    BY <1>1, <2>2 DEF IInv, TypeOK, CpuTypeOK, CpuThreadOK
  <2> QED BY <2>1, <2>2
<1>3. opTime[p] - 1 \in Nat
  BY ProcessFacts
<1>4. ProcTypeOK'
  BY <1>3 DEF IInv, TypeOK, ProcTypeOK
<1>5. n + 1 \in 0 .. CpuCount /\ n \in 0 .. CpuCount
  BY CpuCountAssumption DEF Cpus
<1>6. SupTypeOK' /\ SupervisorOK'
  BY <1>5 DEF IInv, TypeOK, SupTypeOK, SupLabels, SupervisorOK, WakeLabels
<1>7. QueueTypeOK' /\ CountTypeOK' /\ OneRequestPerProcess'
  BY DEF IInv, TypeOK, QueueTypeOK, CountTypeOK, OneRequestPerProcess
<1> QED BY <1>2, <1>4, <1>6, <1>7 DEF IInv, TypeOK

\* The process on CPU n goes on to its next operation, and may queue a
\* request: it had none, since it was at a CPU burst.
LEMMA NextOperationStep ==
  ASSUME IInv, SimulateCpus, NEW n \in Cpus, n = supN, NEW p \in Procs,
         Program[p][opIndex[p]].type = "CPU", NextOperation(n, p)
  PROVE  IInv'
<1> DEFINE op == Program[p][opIndex[p] + 1]
<1>1. /\ opIndex[p] + 1 \in 1 .. Len(Program[p])
      /\ op \in Ops /\ op.time \in Nat /\ op.type \in OpTypes
  BY ProcessFacts DEF Ops
<1>2. CpuTypeOK' /\ CpuThreadOK'
  <2>1. CASE op.type = "CPU"
    BY <2>1 DEF IInv, TypeOK, CpuTypeOK, CpuThreadOK, SimulateCpus,
                NextOperation
  <2>2. CASE op.type # "CPU"
    BY <2>2, DispatchStep DEF IInv, TypeOK, CpuTypeOK, SimulateCpus,
                              NextOperation
  <2> QED BY <2>1, <2>2
<1>3. ioQueue' = SubmitIoRequest(p, op)
  BY DEF NextOperation
<1>4. ioQueue' \in Seq([pcb : Procs, time : Nat])
  BY <1>1, <1>3, RequestFacts
  DEF IInv, TypeOK, ProcTypeOK, SubmitIoRequest, Requests
<1>5. /\ opIndex' = [opIndex EXCEPT ![p] = opIndex[p] + 1]
      /\ opTime' = [opTime EXCEPT ![p] = op.time]
      /\ UNCHANGED procState
  BY DEF NextOperation, SimulateCpus
<1>6. ProcTypeOK'
  BY <1>1, <1>4, <1>5 DEF IInv, TypeOK, ProcTypeOK
<1>7. n + 1 \in 0 .. CpuCount /\ n \in 0 .. CpuCount
  BY CpuCountAssumption DEF Cpus
<1>8. SupTypeOK' /\ SupervisorOK'
  BY <1>7 DEF IInv, TypeOK, SupTypeOK, SupLabels, SupervisorOK, WakeLabels,
              SimulateCpus, NextOperation, SupGoto
<1>9. QueueTypeOK' /\ CountTypeOK'
  BY DEF IInv, TypeOK, QueueTypeOK, CountTypeOK, SimulateCpus
<1>10. OneRequestPerProcess'
  <2>1. \A i \in 1 .. Len(ioQueue) :
          /\ ioQueue[i].pcb \in Procs /\ ioQueue[i].pcb # p
    BY RequestFacts
    DEF IInv, TypeOK, ProcTypeOK, OneRequestPerProcess, Requests
  <2>2. opIndex \in [Procs -> Nat]
    BY DEF IInv, TypeOK, ProcTypeOK
  <2>3. CASE op.type # "IO"
    <3>1. ioQueue' = ioQueue
      BY <1>3, <2>3 DEF SubmitIoRequest
    <3> QED BY <1>5, <2>1, <2>2, <3>1 DEF IInv, OneRequestPerProcess
  <2>4. CASE op.type = "IO"
    <3>1. ioQueue' = Append(ioQueue, [pcb |-> p, time |-> op.time])
      BY <1>3, <2>4 DEF SubmitIoRequest
    <3>2. ioQueue \in Requests
      BY DEF IInv, TypeOK, ProcTypeOK, Requests
    <3>3. /\ Len(ioQueue') = Len(ioQueue) + 1
          /\ \A i \in 1 .. Len(ioQueue) : ioQueue'[i] = ioQueue[i]
          /\ ioQueue'[Len(ioQueue) + 1].pcb = p
          /\ Len(ioQueue) \in Nat
      BY <1>1, <3>1, <3>2, RequestFacts
    <3>4. /\ Program[p][opIndex'[p]].type = "IO"
          /\ \A q \in Procs : q # p => opIndex'[q] = opIndex[q]
      BY <1>5, <2>2, <2>4
    <3> QED BY <2>1, <3>3, <3>4 DEF IInv, OneRequestPerProcess
  <2> QED BY <2>3, <2>4
<1> QED BY <1>2, <1>6, <1>8, <1>9, <1>10 DEF IInv, TypeOK

\* simulate_cpus(): one CPU, or the end of the loop.
LEMMA SimulateCpusStep ==
  ASSUME IInv, SimulateCpus
  PROVE  IInv'
<1>1. supN = CpuCount \/ supN \in Cpus
  BY CpuCountAssumption DEF IInv, TypeOK, SupTypeOK, Cpus
<1>2. CpuCount \notin Cpus
  BY CpuCountAssumption DEF Cpus
<1>3. CASE UNCHANGED <<cpuState, preemptionTimer, opIndex, opTime, ioQueue,
                       cpuPc>>
  <2>1. supN' \in 0 .. CpuCount /\ supPc' \in {"cpus", "io", "eventWait"}
    BY <1>1, <1>2, CpuCountAssumption
    DEF IInv, TypeOK, SupTypeOK, SimulateCpus, SimulateProcess, RunBurst,
        NextOperation, SupGoto, Cpus
  <2>2. supPc' = "eventWait" => supN' \in Cpus
    BY <1>1, <1>2
    DEF SimulateCpus, SimulateProcess, RunBurst, NextOperation, SupGoto
  <2>3. CpuTypeOK' /\ QueueTypeOK' /\ ProcTypeOK' /\ CountTypeOK'
    BY <1>3 DEF IInv, TypeOK, CpuTypeOK, QueueTypeOK, ProcTypeOK, CountTypeOK,
                SimulateCpus
  <2>4. SupTypeOK' /\ SupervisorOK'
    BY <2>1, <2>2 DEF IInv, TypeOK, SupTypeOK, SupLabels, SupervisorOK,
                      WakeLabels, SimulateCpus
  <2>5. CpuThreadOK' /\ OneRequestPerProcess'
    BY <1>3 DEF IInv, CpuThreadOK, OneRequestPerProcess, SimulateCpus
  <2> QED BY <2>3, <2>4, <2>5 DEF IInv, TypeOK
<1>4. CASE supN \in Cpus /\ simCurrent[supN] # NULL
  <2> DEFINE p == simCurrent[supN]
  <2>1. p \in Procs
    BY <1>4 DEF IInv, TypeOK, CpuTypeOK
  <2>2. SimulateProcess(supN, p)
    BY <1>2, <1>4 DEF SimulateCpus
  <2>3. opTime[p] \in Nat
    BY <2>1, ProcessFacts
  <2>4. CASE Program[p][opIndex[p]].type = "CPU" /\ opTime[p] > 0
    BY <1>4, <2>1, <2>2, <2>4, RunBurstStep DEF SimulateProcess
  <2>5. CASE Program[p][opIndex[p]].type = "CPU" /\ ~(opTime[p] > 0)
    BY <1>4, <2>1, <2>2, <2>5, NextOperationStep DEF SimulateProcess
  <2>6. CASE Program[p][opIndex[p]].type # "CPU"
    BY <1>3, <2>2, <2>6 DEF SimulateProcess
  <2> QED BY <2>4, <2>5, <2>6
<1>5. CASE supN = CpuCount \/ simCurrent[supN] = NULL
  BY <1>3, <1>5 DEF SimulateCpus
<1> QED BY <1>1, <1>4, <1>5

\* simulate_io(): the request at the head names a process that stands at an
\* I/O operation, so that a next operation exists.
LEMMA SimulateIoStep ==
  ASSUME IInv, SimulateIo
  PROVE  IInv'
<1> USE DEF SimulateIo, SupGoto
<1>1. ioQueue \in Requests
  BY DEF IInv, TypeOK, ProcTypeOK, Requests
<1>2. CpuTypeOK' /\ QueueTypeOK' /\ CountTypeOK' /\ CpuThreadOK'
  BY DEF IInv, TypeOK, CpuTypeOK, QueueTypeOK, CountTypeOK, CpuThreadOK
<1>3. CASE ioQueue = << >>
  BY <1>2, <1>3
  DEF IInv, TypeOK, ProcTypeOK, SupTypeOK, SupLabels, SupervisorOK,
      WakeLabels, OneRequestPerProcess
<1>4. CASE ioQueue # << >> /\ Head(ioQueue).time > 0
  <2>1. /\ ioQueue' \in Requests
        /\ Len(ioQueue') = Len(ioQueue)
        /\ \A i \in 1 .. Len(ioQueue) : ioQueue'[i].pcb = ioQueue[i].pcb
    BY <1>1, <1>4, RequestCountdown
  <2>2. ProcTypeOK' /\ OneRequestPerProcess'
    BY <1>4, <2>1
    DEF IInv, TypeOK, ProcTypeOK, OneRequestPerProcess, Requests
  <2>3. SupTypeOK' /\ SupervisorOK'
    BY <1>4 DEF IInv, TypeOK, SupTypeOK, SupLabels, SupervisorOK, WakeLabels
  <2> QED BY <1>2, <2>2, <2>3 DEF IInv, TypeOK
<1>5. CASE ioQueue # << >> /\ ~(Head(ioQueue).time > 0)
  <2> DEFINE p == Head(ioQueue).pcb
  <2>1. /\ p \in Procs /\ p = ioQueue[1].pcb
        /\ 1 \in 1 .. Len(ioQueue) /\ Len(ioQueue) \in Nat
    BY <1>1, <1>5, RequestFacts
  <2>2. Program[p][opIndex[p]].type = "IO"
    BY <2>1 DEF IInv, OneRequestPerProcess
  <2>3. /\ opIndex[p] + 1 \in 1 .. Len(Program[p])
        /\ Program[p][opIndex[p] + 1].time \in Nat
    BY <2>1, <2>2, ProcessFacts
  <2>4. /\ opIndex' = [opIndex EXCEPT ![p] = opIndex[p] + 1]
        /\ opTime' = [opTime EXCEPT ![p] = Program[p][opIndex[p] + 1].time]
        /\ ioQueue' = Tail(ioQueue) /\ UNCHANGED procState
        /\ supPcb' = p /\ supReturn' = "creat" /\ supPc' = "wakeLock"
        /\ UNCHANGED supN
    BY <1>5
  <2>5. /\ ioQueue' \in Requests
        /\ Len(ioQueue') = Len(ioQueue) - 1
        /\ \A i \in 1 .. Len(ioQueue) - 1 : ioQueue'[i] = ioQueue[i+1]
    BY <1>1, <1>5, <2>4, RequestFacts
  <2>6. ProcTypeOK'
    BY <2>1, <2>3, <2>4, <2>5, SMTT(30) DEF IInv, TypeOK, ProcTypeOK, Requests
  <2>7. SupTypeOK' /\ SupervisorOK'
    BY <2>1, <2>4 DEF IInv, TypeOK, SupTypeOK, SupLabels, SupervisorOK,
                      WakeLabels
  <2>8. OneRequestPerProcess'
    <3>1. opIndex \in [Procs -> Nat]
      BY DEF IInv, TypeOK, ProcTypeOK
    <3>2. \A i \in 1 .. Len(ioQueue) - 1 :
            /\ i + 1 \in 1 .. Len(ioQueue)
            /\ ioQueue[i+1].pcb \in Procs
            /\ ioQueue[i+1].pcb # p
      <4> HIDE DEF p
      <4>1. \A i, j \in 1 .. Len(ioQueue) :
              ioQueue[i].pcb = ioQueue[j].pcb => i = j
        BY DEF IInv, OneRequestPerProcess
      <4>2. \A i \in 1 .. Len(ioQueue) - 1 :
              i + 1 \in 1 .. Len(ioQueue) /\ i + 1 # 1
        BY <2>1
      <4>3. \A i \in 1 .. Len(ioQueue) : ioQueue[i].pcb \in Procs
        BY <1>1, RequestFacts
      <4> QED BY <2>1, <4>1, <4>2, <4>3
    <3>3. \A q \in Procs : q # p => opIndex'[q] = opIndex[q]
      BY <2>4, <3>1
    <3>4. \A i \in 1 .. Len(ioQueue) - 1 :
            Program[ioQueue'[i].pcb][opIndex'[ioQueue'[i].pcb]].type = "IO"
      BY <2>5, <3>2, <3>3 DEF IInv, OneRequestPerProcess
    <3>5. \A i, j \in 1 .. Len(ioQueue) - 1 :
            ioQueue'[i].pcb = ioQueue'[j].pcb => i = j
      BY <2>5, <3>2 DEF IInv, OneRequestPerProcess
    <3> QED BY <2>1, <2>5, <3>4, <3>5 DEF OneRequestPerProcess
  <2> QED BY <1>2, <2>6, <2>7, <2>8 DEF IInv, TypeOK
<1> QED BY <1>3, <1>4, <1>5

\* The steps of a CPU thread that leave the ready queue alone.
LEMMA CpuStep ==
  ASSUME IInv, NEW c \in Cpus,
         \/ LoopTop(c) \/ RunWoken(c) \/ CountTerminated(c) \/ EnterHandler(c)
         \/ Idle(c) \/ SetCurrent(c) \/ SwitchUnlock(c) \/ SwitchStore(c)
         \/ SwitchLock(c) \/ LeaveHandler(c)
  PROVE  IInv'
<1> USE DEF LoopTop, RunWoken, CountTerminated, EnterHandler, Idle,
            SetCurrent, SwitchUnlock, SwitchStore, SwitchLock, LeaveHandler
<1>1. cpuPc' \in [Cpus -> CpuLabels]
  BY DEF IInv, TypeOK, CpuTypeOK, CpuGoto, CpuLabels, HandlerEntry
<1>2. /\ cpuState' \in [Cpus -> CpuStates]
      /\ cpuEvent' \in [Cpus -> CpuStates \ {"RUNNING"}]
  BY DEF IInv, TypeOK, CpuTypeOK, CpuStates
<1>3. /\ simCurrent' \in [Cpus -> Procs \cup {NULL}]
      /\ current' \in [Cpus -> Procs \cup {NULL}]
      /\ cpuPcb' \in [Cpus -> Procs \cup {NULL}]
      /\ preemptionTimer' \in [Cpus -> Int]
  BY DEF IInv, TypeOK, CpuTypeOK, CountTypeOK
<1>4. CpuTypeOK'
  BY <1>1, <1>2, <1>3 DEF CpuTypeOK
<1>5. QueueTypeOK' /\ OneRequestPerProcess'
  BY DEF IInv, TypeOK, QueueTypeOK, OneRequestPerProcess
<1>6. procState' \in [Procs -> ProcStates]
  BY DEF IInv, TypeOK, CpuTypeOK, ProcTypeOK, ProcStates
<1>7. ProcTypeOK'
  BY <1>6 DEF IInv, TypeOK, ProcTypeOK
<1>8. CountTypeOK'
  BY DEF IInv, TypeOK, CountTypeOK, WriterLock, WriterUnlock
<1>9. SupTypeOK' /\ SupervisorOK'
  BY DEF IInv, TypeOK, SupTypeOK, SupLabels, SupervisorOK, WakeLabels,
         SignalSupervisor, SignalNoWriters
<1>10. CpuThreadOK'
  BY DEF IInv, TypeOK, CpuTypeOK, CpuThreadOK, CpuGoto, HandlerEntry
<1> QED BY <1>4, <1>5, <1>7, <1>8, <1>9, <1>10 DEF IInv, TypeOK

\* A handler marks the process, and preempt() puts it in the ready queue.
LEMMA HandlerStep ==
  ASSUME IInv, NEW c \in Cpus, Handler(c)
  PROVE  IInv'
<1> USE DEF Handler
<1>1. current[c] \in Procs \cup {NULL}
  BY DEF IInv, TypeOK, CpuTypeOK
<1>2. cpuPc' \in [Cpus -> CpuLabels] /\ CpuThreadOK'
  BY DEF IInv, TypeOK, CpuTypeOK, CpuThreadOK, CpuGoto, CpuLabels,
         BroadcastIdle
<1>3. QueueTypeOK'
  BY <1>1, EnqueueType DEF IInv, TypeOK, QueueTypeOK
<1>4. ProcTypeOK'
  <2>1. cpuPc[c] = "handler" => HandlerState[cpuEvent[c]] \in ProcStates
    BY DEF IInv, TypeOK, CpuTypeOK, CpuThreadOK, CpuStates, HandlerState,
           ProcStates
  <2> QED BY <1>1, <2>1 DEF IInv, TypeOK, ProcTypeOK
<1>5. CountTypeOK'
  BY DEF IInv, TypeOK, CountTypeOK, Crash
<1>6. SupTypeOK' /\ SupervisorOK' /\ OneRequestPerProcess'
  BY DEF IInv, TypeOK, SupTypeOK, SupervisorOK, OneRequestPerProcess
<1>7. CpuTypeOK'
  BY <1>2 DEF IInv, TypeOK, CpuTypeOK
<1> QED BY <1>2, <1>3, <1>4, <1>5, <1>6, <1>7 DEF IInv, TypeOK

\* schedule() takes the head of the ready queue.
LEMMA DequeueStep ==
  ASSUME IInv, NEW c \in Cpus, Dequeue(c)
  PROVE  IInv'
<1> USE DEF Dequeue
<1>1. QueueTypeOK' /\ cpuPcb' \in [Cpus -> Procs \cup {NULL}]
  BY DequeueType DEF IInv, TypeOK, QueueTypeOK, CpuTypeOK
<1>2. cpuPc' \in [Cpus -> CpuLabels] /\ CpuThreadOK'
  BY DEF IInv, TypeOK, CpuTypeOK, CpuThreadOK, CpuGoto, CpuLabels
<1>3. CpuTypeOK'
  BY <1>1, <1>2 DEF IInv, TypeOK, CpuTypeOK
<1>4. CountTypeOK'
  BY DEF IInv, TypeOK, CountTypeOK, Crash
<1>5. /\ ProcTypeOK' /\ SupTypeOK' /\ SupervisorOK'
      /\ OneRequestPerProcess'
  BY DEF IInv, TypeOK, ProcTypeOK, SupTypeOK, SupervisorOK,
         OneRequestPerProcess
<1> QED BY <1>1, <1>2, <1>3, <1>4, <1>5 DEF IInv, TypeOK

\* A wait returns without a signal.
LEMMA SpuriousStep ==
  ASSUME IInv, Spurious
  PROVE  IInv'
<1>1. CASE SpuriousSupervisor
  <2> USE DEF SpuriousSupervisor, SupGoto, SupAfterSpurious
  <2>1. supPc' \in {"gantt", "eventWoken", "fpLock"}
    BY <1>1
  <2>2. SupTypeOK' /\ SupervisorOK'
    BY <1>1 DEF IInv, TypeOK, SupTypeOK, SupLabels, SupervisorOK, WakeLabels
  <2>3. /\ CpuTypeOK' /\ QueueTypeOK' /\ ProcTypeOK' /\ CountTypeOK'
        /\ CpuThreadOK' /\ OneRequestPerProcess'
    BY <1>1 DEF IInv, TypeOK, CpuTypeOK, QueueTypeOK, ProcTypeOK, CountTypeOK,
                CpuThreadOK, OneRequestPerProcess
  <2> QED BY <2>2, <2>3 DEF IInv, TypeOK
<1>2. ASSUME NEW c \in Cpus, SpuriousCpu(c) PROVE IInv'
  <2> USE DEF SpuriousCpu, CpuGoto, AfterSpurious
  <2>1. CpuTypeOK' /\ CpuThreadOK'
    BY <1>2 DEF IInv, TypeOK, CpuTypeOK, CpuThreadOK, CpuLabels
  <2>2. /\ QueueTypeOK' /\ ProcTypeOK' /\ SupTypeOK' /\ CountTypeOK'
        /\ SupervisorOK' /\ OneRequestPerProcess'
    BY <1>2 DEF IInv, TypeOK, QueueTypeOK, ProcTypeOK, SupTypeOK, CountTypeOK,
                SupervisorOK, OneRequestPerProcess
  <2> QED BY <2>1, <2>2 DEF IInv, TypeOK
<1> QED BY <1>1, <1>2 DEF Spurious

\* A step that changes nothing.
LEMMA StutterStep ==
  ASSUME IInv, UNCHANGED vars
  PROVE  IInv'
BY DEF vars, IInv, TypeOK, CpuTypeOK, QueueTypeOK, ProcTypeOK, SupTypeOK,
       CountTypeOK, SupervisorOK, CpuThreadOK, OneRequestPerProcess

LEMMA NextInv == IInv /\ [Next]_vars => IInv'
<1> SUFFICES ASSUME IInv, [Next]_vars PROVE IInv'
  OBVIOUS
<1>1. CASE Supervisor
  BY <1>1, LockSteps, EventHandledStep, SimulateCreatStep, WakeReturnStep,
     WakeEnqueueStep, WakeScanStep, ForcePreemptCheckStep, SimulateCpusStep,
     SimulateIoStep DEF Supervisor
<1>2. CASE \E c \in Cpus : CpuThread(c)
  BY <1>2, CpuStep, HandlerStep, DequeueStep DEF CpuThread
<1>3. CASE Spurious
  BY <1>3, SpuriousStep
<1>4. CASE Halted
  BY <1>4, StutterStep DEF Halted
<1>5. CASE UNCHANGED vars
  BY <1>5, StutterStep
<1> QED BY <1>1, <1>2, <1>3, <1>4, <1>5 DEF Next

LEMMA SpecInv == Spec => []IInv
BY InitInv, NextInv, PTL DEF Spec

\* Whatever the timing, the variables keep their types: in particular no
\* program counter of a process runs past its program.
THEOREM TypeCorrect == Spec => []TypeOK
BY SpecInv, PTL DEF IInv

\* Whatever the timing, a process has at most one I/O request, made by the
\* operation at which its program counter stands.
THEOREM RequestsMatchCounters == Spec => []OneRequestPerProcess
BY SpecInv, PTL DEF IInv

-----------------------------------------------------------------------------
(* The sleepers of the ready queue.                                        *)

\* Every step keeps the sleepers out of a queue with elements: an enqueue
\* into the empty queue wakes all of them, a thread goes to sleep only on an
\* empty queue, and a dequeue never makes an empty queue longer.
LEMMA WakeupStep == IInv /\ WakeupNotLost /\ [Next]_vars => WakeupNotLost'
<1> SUFFICES ASSUME IInv, WakeupNotLost, [Next]_vars PROVE WakeupNotLost'
  OBVIOUS
<1> USE DEF WakeupNotLost
<1>0. cpuPc \in [Cpus -> CpuLabels]
  BY DEF IInv, TypeOK, CpuTypeOK
<1>1. ASSUME UNCHANGED rq,
             \A c \in Cpus : cpuPc'[c] = "idleWait" => cpuPc[c] = "idleWait"
      PROVE  WakeupNotLost'
  BY <1>1
<1>2. CASE WakeEnqueue
  <2>1. \A c \in Cpus : cpuPc'[c] # "idleWait"
    BY <1>0, <1>2 DEF WakeEnqueue, BroadcastIdle
  <2> QED BY <2>1
<1>3. CASE Supervisor /\ ~WakeEnqueue
  <2>1. UNCHANGED rq
    BY <1>3 DEF Supervisor, SupLock, ReaderLock, ReaderUnlock, SimulateCpus,
         EventHandled, SimulateIo, SimulateCreat, WakeLock, WakeScan,
         ForcePreemptUnlock, ForcePreemptCheck, ForcePreemptLock, WakeUnlock,
         WakeReturn
  <2>2. UNCHANGED cpuPc \/ \E n \in Cpus : SignalCpu(n)
    <3>1. CASE SimulateCpus
      <4>1. supN = CpuCount \/ supN \in Cpus
        BY CpuCountAssumption DEF IInv, TypeOK, SupTypeOK, Cpus
      <4> QED BY <3>1, <4>1 DEF SimulateCpus, SimulateProcess, RunBurst,
                                NextOperation, Dispatch
    <3>2. CASE ForcePreemptCheck
      BY <3>2 DEF ForcePreemptCheck, Dispatch, IInv, SupervisorOK
    <3>3. CASE ~SimulateCpus /\ ~ForcePreemptCheck
      BY <1>3, <3>3 DEF Supervisor, SupLock, ReaderLock, ReaderUnlock,
           EventHandled, SimulateIo, SimulateCreat, WakeLock, WakeScan,
           ForcePreemptUnlock, ForcePreemptLock, WakeUnlock, WakeReturn
    <3> QED BY <3>1, <3>2, <3>3
  <2>3. \A c \in Cpus : cpuPc'[c] = "idleWait" => cpuPc[c] = "idleWait"
    BY <1>0, <2>2 DEF SignalCpu
  <2> QED BY <1>1, <2>1, <2>3
<1>4. ASSUME NEW d \in Cpus, Handler(d) PROVE WakeupNotLost'
  <2>1. \/ UNCHANGED <<rq, cpuPc>>
        \/ cpuPc' = [cpuPc EXCEPT ![d] = "dequeue"] /\ UNCHANGED rq
        \/ cpuPc' = BroadcastIdle([cpuPc EXCEPT ![d] = "dequeue"])
    BY <1>4 DEF Handler, CpuGoto
  <2>2. CASE cpuPc' = BroadcastIdle([cpuPc EXCEPT ![d] = "dequeue"])
    <3>1. \A c \in Cpus : cpuPc'[c] # "idleWait"
      BY <1>0, <2>2 DEF BroadcastIdle
    <3> QED BY <3>1
  <2> QED BY <1>0, <1>1, <2>1, <2>2
<1>5. ASSUME NEW d \in Cpus, Dequeue(d) PROVE WakeupNotLost'
  <2>1. \A c \in Cpus : cpuPc'[c] = "idleWait" => cpuPc[c] = "idleWait"
    BY <1>0, <1>5 DEF Dequeue, CpuGoto
  <2>2. rq.count = 0 => rq'.count = 0
    BY <1>5 DEF Dequeue, DequeueReady
  <2> QED BY <2>1, <2>2
<1>6. ASSUME NEW d \in Cpus, Idle(d) PROVE WakeupNotLost'
  BY <1>0, <1>6 DEF Idle, CpuGoto
<1>7. ASSUME NEW d \in Cpus, CpuThread(d), ~Handler(d), ~Dequeue(d), ~Idle(d)
      PROVE  WakeupNotLost'
  <2>1. UNCHANGED rq
    BY <1>7 DEF CpuThread, LoopTop, RunWoken, CountTerminated, EnterHandler,
         SetCurrent, SwitchUnlock, SwitchStore, SwitchLock, LeaveHandler
  <2>2. \E label \in CpuLabels \ {"idleWait"} : CpuGoto(d, label)
    BY <1>7 DEF CpuThread, LoopTop, RunWoken, CountTerminated, EnterHandler,
         SetCurrent, SwitchUnlock, SwitchStore, SwitchLock, LeaveHandler,
         HandlerEntry, CpuLabels
  <2> QED BY <1>0, <1>1, <2>1, <2>2 DEF CpuGoto
<1>8. CASE Spurious
  <2>1. UNCHANGED rq
    BY <1>8 DEF Spurious, SpuriousSupervisor, SpuriousCpu
  <2>2. \A c \in Cpus : cpuPc'[c] = "idleWait" => cpuPc[c] = "idleWait"
    BY <1>0, <1>8 DEF Spurious, SpuriousSupervisor, SpuriousCpu, CpuGoto,
                      AfterSpurious
  <2> QED BY <1>1, <2>1, <2>2
<1>9. CASE UNCHANGED vars
  BY <1>9 DEF vars
<1> QED BY <1>2, <1>3, <1>4, <1>5, <1>6, <1>7, <1>8, <1>9 DEF Next, Halted

\* Whatever the timing, no CPU thread sleeps in idle() beside a process that
\* waits in the ready queue.
THEOREM NoWakeupLost == Spec => []WakeupNotLost
<1>1. Init => WakeupNotLost
  BY DEF Init, WakeupNotLost
<1> QED BY <1>1, SpecInv, WakeupStep, PTL DEF Spec

-----------------------------------------------------------------------------
(* The count of writers.                                                   *)

Counted == IF SupervisorIsWriter THEN 1 ELSE 0

\* student_lock.writers counts the threads in student code, less one for each
\* idle CPU inside context_switch(), which unlocks what it never locked: the
\* count goes below zero, and comes back.
WritersBalance ==
  writers = Cardinality(Writers) + Counted - Cardinality(Debtors)

\* A set of CPUs has a size, one more with a new element, one less without
\* an old one.
LEMMA CpuSets ==
  ASSUME NEW S \in SUBSET Cpus
  PROVE  /\ Cardinality(S) \in Nat
         /\ \A c \in Cpus \ S : Cardinality(S \cup {c}) = Cardinality(S) + 1
         /\ \A c \in S : Cardinality(S \ {c}) = Cardinality(S) - 1
<1>1. IsFiniteSet(Cpus)
  BY CpuCountAssumption, FS_Interval DEF Cpus
<1>2. IsFiniteSet(S)
  BY <1>1, FS_Subset
<1> QED BY <1>2, FS_CardinalityType, FS_AddElement, FS_RemoveElement

\* The balance before and after a step.
LEMMA BalanceSets ==
  /\ WritersBalance <=>
       writers = Cardinality(Writers) + Counted - Cardinality(Debtors)
  /\ WritersBalance' <=>
       writers' = Cardinality(Writers)' + Counted' - Cardinality(Debtors)'
BY DEF WritersBalance

\* A step of the supervisor leaves the sets alone, and counts itself.
LEMMA SupervisorBalance ==
  ASSUME IInv, WritersBalance, Supervisor
  PROVE  WritersBalance'
<1>0. cpuPc \in [Cpus -> CpuLabels] /\ writers \in Int
  BY DEF IInv, TypeOK, CpuTypeOK, CountTypeOK
<1>1. /\ UNCHANGED cpuEvent
      /\ \/ UNCHANGED cpuPc
         \/ \E n \in Cpus : SignalCpu(n)
         \/ cpuPc' = BroadcastIdle(cpuPc)
  <2>1. CASE SimulateCpus
    <3>1. supN = CpuCount \/ supN \in Cpus
      BY CpuCountAssumption DEF IInv, TypeOK, SupTypeOK, Cpus
    <3> QED BY <2>1, <3>1 DEF SimulateCpus, SimulateProcess, RunBurst,
                              NextOperation, Dispatch
  <2>2. CASE ForcePreemptCheck
    BY <2>2 DEF ForcePreemptCheck, Dispatch, IInv, SupervisorOK
  <2>3. CASE ~SimulateCpus /\ ~ForcePreemptCheck
    BY <2>3 DEF Supervisor, SupLock, ReaderLock, ReaderUnlock, EventHandled,
         SimulateIo, SimulateCreat, WakeLock, WakeEnqueue, WakeScan,
         ForcePreemptUnlock, ForcePreemptLock, WakeUnlock, WakeReturn
  <2> QED BY <2>1, <2>2, <2>3
<1>2. Writers' = Writers /\ Debtors' = Debtors
  BY <1>0, <1>1 DEF Writers, Debtors, IsWriter, IsDebtor, SignalCpu,
                    BroadcastIdle
<1>3. writers' - Counted' = writers - Counted
  <2>1. CASE SimulateCpus
    <3>1. UNCHANGED writers /\ supPc = "cpus" /\ supPc' \in {"cpus", "io", "eventWait"}
      BY <2>1 DEF SimulateCpus, SimulateProcess, RunBurst, NextOperation,
                  SupGoto
    <3> QED BY <3>1 DEF Counted, SupervisorIsWriter
  <2>2. CASE SupLock \/ ReaderLock \/ ReaderUnlock \/ EventHandled
             \/ SimulateIo \/ SimulateCreat \/ ForcePreemptCheck
    <3>1. /\ UNCHANGED writers
          /\ supPc \in {"sleep", "gantt", "reading", "eventWoken", "io",
                        "creat", "fpCheck"}
          /\ supPc' \in {"exit", "gantt", "ganttWait", "reading", "cpus",
                         "creat", "wakeLock", "sleep", "fpWait", "fpLock"}
      BY <2>2 DEF SupLock, ReaderLock, ReaderUnlock, EventHandled, SimulateIo,
                  SimulateCreat, ForcePreemptCheck, SupGoto
    <3> QED BY <3>1 DEF Counted, SupervisorIsWriter
  <2>3. CASE WakeEnqueue \/ WakeScan
    BY <2>3 DEF WakeEnqueue, WakeScan, SupGoto, Counted, SupervisorIsWriter
  <2>4. CASE WakeLock \/ ForcePreemptLock
    BY <1>0, <2>4 DEF WakeLock, ForcePreemptLock, SupGoto, WriterLock,
                      Counted, SupervisorIsWriter
  <2>5. CASE ForcePreemptUnlock \/ WakeUnlock
    BY <1>0, <2>5 DEF ForcePreemptUnlock, WakeUnlock, SupGoto, WriterUnlock,
                      Counted, SupervisorIsWriter
  <2>6. CASE WakeReturn
    <3>1. supReturn \in {"creat", "sleep"}
      BY DEF IInv, TypeOK, SupTypeOK
    <3> QED BY <2>6, <3>1 DEF WakeReturn, SupGoto, Counted, SupervisorIsWriter
  <2> QED BY <2>1, <2>2, <2>3, <2>4, <2>5, <2>6 DEF Supervisor
<1>4. Cardinality(Writers) \in Nat /\ Cardinality(Debtors) \in Nat
  BY CpuSets DEF Writers, Debtors
<1>5. Counted \in Int /\ Counted' \in Int
  BY DEF Counted
<1>6. writers' \in Int
  BY <1>0 DEF Supervisor, SupLock, ReaderLock, ReaderUnlock,
     SimulateCpus, EventHandled, SimulateIo, SimulateCreat, WakeLock,
     WakeEnqueue, WakeScan, ForcePreemptUnlock, ForcePreemptCheck,
     ForcePreemptLock, WakeUnlock, WakeReturn, WriterLock, WriterUnlock
<1> QED BY <1>0, <1>2, <1>3, <1>4, <1>5, <1>6, BalanceSets

\* A step of a CPU thread moves it into or out of a set as it counts.
LEMMA CpuBalance ==
  ASSUME IInv, WritersBalance, NEW c \in Cpus, CpuThread(c)
  PROVE  WritersBalance'
<1>0. /\ cpuPc \in [Cpus -> CpuLabels] /\ writers \in Int
      /\ cpuEvent \in [Cpus -> CpuStates \ {"RUNNING"}]
      /\ supPc \in SupLabels
  BY DEF IInv, TypeOK, CpuTypeOK, CountTypeOK, SupTypeOK
<1>1. Writers \in SUBSET Cpus /\ Debtors \in SUBSET Cpus
  BY DEF Writers, Debtors
<1>2. Counted' = Counted /\ Counted \in Int
  BY DEF CpuThread, LoopTop, RunWoken, CountTerminated, EnterHandler, Handler,
     Idle, Dequeue, SetCurrent, SwitchUnlock, SwitchStore, SwitchLock,
     LeaveHandler, SignalSupervisor, SignalNoWriters, Counted,
     SupervisorIsWriter
<1>3. CASE EnterHandler(c) \/ (SwitchLock(c) /\ cpuEvent[c] # "IDLE")
  <2>1. /\ Writers' = Writers \cup {c} /\ c \notin Writers
        /\ Debtors' = Debtors /\ writers' = writers + 1
    BY <1>0, <1>3 DEF EnterHandler, SwitchLock, CpuGoto, WriterLock,
       Writers, Debtors, IsWriter, IsDebtor
  <2> QED BY <1>0, <1>1, <1>2, <2>1, CpuSets, BalanceSets
<1>4. CASE LeaveHandler(c) \/ (SwitchUnlock(c) /\ cpuEvent[c] # "IDLE")
  <2>1. /\ Writers' = Writers \ {c} /\ c \in Writers
        /\ Debtors' = Debtors /\ writers' = writers - 1
    BY <1>0, <1>4 DEF LeaveHandler, SwitchUnlock, CpuGoto, WriterUnlock,
       Writers, Debtors, IsWriter, IsDebtor
  <2> QED BY <1>0, <1>1, <1>2, <2>1, CpuSets, BalanceSets
<1>5. CASE SwitchUnlock(c) /\ cpuEvent[c] = "IDLE"
  <2>1. /\ Debtors' = Debtors \cup {c} /\ c \notin Debtors
        /\ Writers' = Writers /\ writers' = writers - 1
    BY <1>0, <1>5 DEF SwitchUnlock, CpuGoto, WriterUnlock, Writers,
       Debtors, IsWriter, IsDebtor
  <2> QED BY <1>0, <1>1, <1>2, <2>1, CpuSets, BalanceSets
<1>6. CASE SwitchLock(c) /\ cpuEvent[c] = "IDLE"
  <2>1. /\ Debtors' = Debtors \ {c} /\ c \in Debtors
        /\ Writers' = Writers /\ writers' = writers + 1
    BY <1>0, <1>6 DEF SwitchLock, CpuGoto, WriterLock, Writers, Debtors,
       IsWriter, IsDebtor
  <2> QED BY <1>0, <1>1, <1>2, <2>1, CpuSets, BalanceSets
<1>7. ASSUME UNCHANGED writers,
             \A d \in Cpus : /\ IsWriter(d)' <=> IsWriter(d)
                             /\ IsDebtor(d)' <=> IsDebtor(d)
      PROVE  WritersBalance'
  <2>1. Writers' = Writers /\ Debtors' = Debtors
    BY <1>7 DEF Writers, Debtors
  <2> QED BY <1>2, <1>7, <2>1, BalanceSets
<1>8. CASE LoopTop(c) \/ RunWoken(c) \/ CountTerminated(c) \/ Idle(c)
           \/ Dequeue(c) \/ SetCurrent(c) \/ SwitchStore(c)
  BY <1>0, <1>7, <1>8
  DEF LoopTop, RunWoken, CountTerminated, Idle, Dequeue, SetCurrent,
      SwitchStore, CpuGoto, HandlerEntry, IsWriter, IsDebtor, IInv,
      CpuThreadOK
<1>9. CASE Handler(c)
  <2>1. cpuEvent[c] # "IDLE" /\ UNCHANGED <<cpuEvent, writers>>
    BY <1>9 DEF Handler, IInv, CpuThreadOK
  <2>2. \/ UNCHANGED cpuPc
        \/ cpuPc' = [cpuPc EXCEPT ![c] = "dequeue"]
        \/ cpuPc' = BroadcastIdle([cpuPc EXCEPT ![c] = "dequeue"])
    BY <1>9 DEF Handler, CpuGoto
  <2> QED BY <1>0, <1>7, <1>9, <2>1, <2>2
          DEF BroadcastIdle, IsWriter, IsDebtor, Handler
<1> QED BY <1>3, <1>4, <1>5, <1>6, <1>8, <1>9 DEF CpuThread

LEMMA BalanceStep == IInv /\ WritersBalance /\ [Next]_vars => WritersBalance'
<1> SUFFICES ASSUME IInv, WritersBalance, [Next]_vars PROVE WritersBalance'
  OBVIOUS
<1>1. CASE Spurious
  <2>1. /\ UNCHANGED writers /\ Counted' = Counted
    BY <1>1 DEF Spurious, SpuriousSupervisor, SpuriousCpu, SupGoto,
                SupAfterSpurious, Counted, SupervisorIsWriter
  <2>2. Writers' = Writers /\ Debtors' = Debtors
    BY <1>1 DEF Spurious, SpuriousSupervisor, SpuriousCpu, CpuGoto,
                AfterSpurious, Writers, Debtors, IsWriter, IsDebtor,
                IInv, TypeOK, CpuTypeOK
  <2> QED BY <2>1, <2>2, BalanceSets
<1>2. CASE UNCHANGED vars
  <2>1. /\ UNCHANGED writers /\ Counted' = Counted
        /\ Writers' = Writers /\ Debtors' = Debtors
    BY <1>2 DEF vars, Counted, SupervisorIsWriter, Writers, Debtors,
                IsWriter, IsDebtor
  <2> QED BY <2>1, BalanceSets
<1> QED BY <1>1, <1>2, SupervisorBalance, CpuBalance DEF Next, Halted

\* Whatever the timing, the count of the inverted readers-writers lock is the
\* number of writers less the idle CPUs that gave up what they never took.
LEMMA WritersAreBalanced == Spec => []WritersBalance
<1>1. Init => WritersBalance
  <2> SUFFICES ASSUME Init PROVE WritersBalance
    OBVIOUS
  <2>1. Writers = {} /\ Debtors = {} /\ Counted = 0 /\ writers = 0
    BY DEF Init, Writers, Debtors, Counted, SupervisorIsWriter, IsWriter,
           IsDebtor
  <2> QED BY <2>1, FS_EmptySet, BalanceSets
<1> QED BY <1>1, SpecInv, BalanceStep, PTL DEF Spec

\* The reader gets the lock at a count of zero or less, and nobody moves the
\* count while the reader holds the mutex of the lock.
ReaderSeesNone == HoldsReader => writers <= 0

LEMMA ReaderStep ==
  IInv /\ ReaderSeesNone /\ [Next]_vars => ReaderSeesNone'
<1> SUFFICES ASSUME IInv, ReaderSeesNone, [Next]_vars, HoldsReader'
             PROVE  writers' <= 0
  BY DEF ReaderSeesNone
<1>0. writers \in Int /\ supPc' = "reading"
  BY DEF IInv, TypeOK, CountTypeOK, HoldsReader
<1>1. CASE ReaderLock
  BY <1>0, <1>1 DEF ReaderLock, SupGoto
<1>2. CASE supPc = "reading" /\ UNCHANGED writers
  BY <1>2 DEF ReaderSeesNone, HoldsReader
<1>3. CASE Supervisor
  <2>1. CASE SimulateCpus
    BY <1>0, <2>1 DEF SimulateCpus, SimulateProcess, RunBurst, NextOperation,
                      SupGoto
  <2>2. CASE WakeReturn
    <3>1. supReturn \in {"creat", "sleep"}
      BY DEF IInv, TypeOK, SupTypeOK
    <3> QED BY <1>0, <2>2, <3>1 DEF WakeReturn, SupGoto
  <2> QED BY <1>0, <1>1, <1>3, <2>1, <2>2 DEF Supervisor, SupLock,
       ReaderUnlock, EventHandled, SimulateIo, SimulateCreat, WakeLock,
       WakeEnqueue, WakeScan, ForcePreemptUnlock, ForcePreemptCheck,
       ForcePreemptLock, WakeUnlock, SupGoto
<1>4. ASSUME NEW c \in Cpus, CpuThread(c)
      PROVE  supPc = "reading" /\ UNCHANGED writers
  <2>1. supPc = "reading"
    BY <1>0, <1>4 DEF CpuThread, LoopTop, RunWoken, CountTerminated,
       EnterHandler, Handler, Idle, Dequeue, SetCurrent, SwitchUnlock,
       SwitchStore, SwitchLock, LeaveHandler, SignalSupervisor,
       SignalNoWriters, supVars
  <2> QED BY <2>1, <1>4 DEF CpuThread, LoopTop, RunWoken, CountTerminated,
       EnterHandler, Handler, Idle, Dequeue, SetCurrent, SwitchUnlock,
       SwitchStore, SwitchLock, LeaveHandler, WriterLock, WriterUnlock,
       HoldsReader
<1>5. CASE Spurious
  BY <1>0, <1>2, <1>5 DEF Spurious, SpuriousSupervisor, SpuriousCpu, SupGoto,
                          SupAfterSpurious, supVars
<1>6. CASE UNCHANGED vars
  BY <1>0, <1>2, <1>6 DEF vars, supVars
<1> QED BY <1>2, <1>3, <1>4, <1>5, <1>6 DEF Next, Halted

\* Whatever the timing, the library reads the PCBs beside no more handlers than
\* there are idle CPUs inside context_switch().
THEOREM ReaderExcludesWriters == Spec => []ReaderExclusion
<1>1. Init => ReaderSeesNone
  BY DEF Init, ReaderSeesNone, HoldsReader
<1>2. IInv /\ WritersBalance /\ ReaderSeesNone => ReaderExclusion
  <2> SUFFICES ASSUME IInv, WritersBalance, ReaderSeesNone, HoldsReader
               PROVE  Cardinality(Writers) <= Cardinality(Debtors)
    BY DEF ReaderExclusion
  <2>1. Counted = 0 /\ writers <= 0 /\ writers \in Int
    BY DEF Counted, SupervisorIsWriter, HoldsReader, ReaderSeesNone, IInv,
           TypeOK, CountTypeOK
  <2>2. Cardinality(Writers) \in Nat /\ Cardinality(Debtors) \in Nat
    BY CpuSets DEF Writers, Debtors
  <2> QED BY <2>1, <2>2 DEF WritersBalance
<1> QED BY <1>1, <1>2, SpecInv, WritersAreBalanced, ReaderStep, PTL DEF Spec

-----------------------------------------------------------------------------
(* The count of terminations.                                              *)

DoneSet    == {p \in Procs : Done(p)}
PendingSet == {c \in Cpus : CountPending(c)}
CountBound == processesTerminated + Cardinality(PendingSet)
                <= Cardinality(DoneSet)

\* The processes at their ends are no more than the processes.
LEMMA DoneSets ==
  ASSUME NEW S \in SUBSET Procs
  PROVE  /\ Cardinality(S) \in Nat /\ Cardinality(S) <= ProcessCount
         /\ Cardinality(S) = ProcessCount => S = Procs
         /\ \A T \in SUBSET S : Cardinality(T) <= Cardinality(S)
         /\ \A p \in Procs \ S : Cardinality(S \cup {p}) = Cardinality(S) + 1
<1>1. IsFiniteSet(Procs) /\ Cardinality(Procs) = ProcessCount
  BY ProcessCountAssumption, FS_Interval DEF Procs
<1>2. IsFiniteSet(S)
  BY <1>1, FS_Subset
<1> QED BY <1>1, <1>2, FS_CardinalityType, FS_Subset, FS_AddElement

\* Fewer pending CPUs are fewer to count.
LEMMA PendingSets ==
  ASSUME NEW S \in SUBSET Cpus
  PROVE  /\ Cardinality(S) \in Nat
         /\ \A T \in SUBSET S : Cardinality(T) <= Cardinality(S)
         /\ \A c \in Cpus : Cardinality(S \cup {c}) <= Cardinality(S) + 1
<1>1. IsFiniteSet(Cpus)
  BY CpuCountAssumption, FS_Interval DEF Cpus
<1>2. IsFiniteSet(S)
  BY <1>1, FS_Subset
<1> QED BY <1>2, FS_CardinalityType, FS_Subset, FS_AddElement

\* A step that ends no process and makes no new count pending.
LEMMA QuietStep ==
  ASSUME IInv, CountBound, UNCHANGED processesTerminated,
         PendingSet' \subseteq PendingSet, DoneSet \subseteq DoneSet'
  PROVE  CountBound'
<1>1. processesTerminated \in Nat
  BY DEF IInv, TypeOK, CountTypeOK
<1>2. Cardinality(PendingSet') <= Cardinality(PendingSet)
  BY PendingSets DEF PendingSet
<1>3. Cardinality(DoneSet) <= Cardinality(DoneSet')
  BY DoneSets DEF DoneSet
<1>4. /\ Cardinality(PendingSet) \in Nat /\ Cardinality(PendingSet') \in Nat
      /\ Cardinality(DoneSet) \in Nat /\ Cardinality(DoneSet') \in Nat
  BY PendingSets, DoneSets DEF PendingSet, DoneSet
<1>5. CountBound' <=> processesTerminated' + Cardinality(PendingSet')
                        <= Cardinality(DoneSet')
  BY DEF CountBound
<1> QED BY <1>1, <1>2, <1>3, <1>4, <1>5 DEF CountBound

\* The event of CPU n makes no count pending, but for a termination there.
LEMMA DispatchPending ==
  ASSUME IInv, NEW n \in Cpus, NEW event \in {"PREEMPT", "YIELD", "TERMINATE"},
         Dispatch(n, event)
  PROVE  PendingSet' \subseteq
           IF event = "TERMINATE" THEN PendingSet \cup {n} ELSE PendingSet
BY DEF IInv, TypeOK, CpuTypeOK, CpuThreadOK, Dispatch, SignalCpu, PendingSet,
       CountPending

\* The process that moves on at CPU n was not at its end before.
LEMMA NextOperationCount ==
  ASSUME IInv, CountBound, SimulateCpus, NEW n \in Cpus, n = supN,
         NEW p \in Procs, Program[p][opIndex[p]].type = "CPU",
         NextOperation(n, p)
  PROVE  CountBound'
<1> DEFINE op == Program[p][opIndex[p] + 1]
<1>1. opIndex \in [Procs -> Nat]
  BY DEF IInv, TypeOK, ProcTypeOK
<1>2. opIndex' = [opIndex EXCEPT ![p] = opIndex[p] + 1]
  BY DEF NextOperation
<1>3. p \notin DoneSet /\ DoneSet \subseteq DoneSet'
  BY <1>1, <1>2 DEF DoneSet, Done
<1>4. UNCHANGED processesTerminated
  BY DEF SimulateCpus
<1>5. op.type \in OpTypes
  BY ProcessFacts DEF Ops
<1>6. CASE op.type = "CPU"
  <2>1. PendingSet' = PendingSet
    BY <1>6 DEF NextOperation, PendingSet, CountPending
  <2> QED BY <1>3, <1>4, <2>1, QuietStep
<1>7. CASE op.type = "IO"
  <2>1. Dispatch(n, "YIELD")
    BY <1>7 DEF NextOperation
  <2> QED BY <1>3, <1>4, <2>1, DispatchPending, QuietStep
<1>8. CASE op.type = "TERMINATE"
  <2>1. Dispatch(n, "TERMINATE")
    BY <1>8 DEF NextOperation
  <2>2. PendingSet' \subseteq PendingSet \cup {n}
    BY <2>1, DispatchPending
  <2>3. DoneSet \cup {p} \subseteq DoneSet'
    BY <1>1, <1>2, <1>3, <1>8 DEF DoneSet, Done
  <2>4. Cardinality(DoneSet) + 1 <= Cardinality(DoneSet')
    <3>1. Cardinality(DoneSet \cup {p}) = Cardinality(DoneSet) + 1
      BY <1>3, DoneSets DEF DoneSet
    <3>2. DoneSet' \in SUBSET Procs
      BY DEF DoneSet
    <3>3. Cardinality(DoneSet \cup {p}) <= Cardinality(DoneSet')
      BY <2>3, <3>2, DoneSets
    <3> QED BY <3>1, <3>3
  <2>5. Cardinality(PendingSet') <= Cardinality(PendingSet) + 1
    <3>1. PendingSet \cup {n} \in SUBSET Cpus /\ PendingSet \in SUBSET Cpus
      BY DEF PendingSet
    <3>2. Cardinality(PendingSet') <= Cardinality(PendingSet \cup {n})
      BY <2>2, <3>1, PendingSets
    <3>3. Cardinality(PendingSet \cup {n}) <= Cardinality(PendingSet) + 1
      BY <3>1, PendingSets
    <3>4. /\ Cardinality(PendingSet) \in Nat
          /\ Cardinality(PendingSet \cup {n}) \in Nat
          /\ Cardinality(PendingSet') \in Nat
      BY <2>2, <3>1, PendingSets
    <3> QED BY <3>2, <3>3, <3>4
  <2>6. /\ Cardinality(PendingSet) \in Nat /\ Cardinality(PendingSet') \in Nat
        /\ Cardinality(DoneSet) \in Nat /\ Cardinality(DoneSet') \in Nat
    BY PendingSets, DoneSets DEF PendingSet, DoneSet
  <2>7. processesTerminated \in Nat
    BY DEF IInv, TypeOK, CountTypeOK
  <2>8. CountBound' <=> processesTerminated' + Cardinality(PendingSet')
                          <= Cardinality(DoneSet')
    BY DEF CountBound
  <2> QED BY <1>4, <2>4, <2>5, <2>6, <2>7, <2>8 DEF CountBound
<1> QED BY <1>5, <1>6, <1>7, <1>8 DEF OpTypes

LEMMA SupervisorCount ==
  ASSUME IInv, CountBound, Supervisor
  PROVE  CountBound'
<1>1. CASE SimulateCpus
  <2>0. supN = CpuCount \/ supN \in Cpus
    BY CpuCountAssumption DEF IInv, TypeOK, SupTypeOK, Cpus
  <2>1. CASE UNCHANGED <<cpuState, cpuPc, opIndex>>
    <3>1. /\ PendingSet' = PendingSet /\ DoneSet' = DoneSet
          /\ UNCHANGED processesTerminated
      BY <1>1, <2>1 DEF SimulateCpus, PendingSet, CountPending, DoneSet, Done
    <3> QED BY <3>1, QuietStep
  <2>2. ASSUME NEW n \in Cpus, NEW p \in Procs, n = supN,
               Program[p][opIndex[p]].type = "CPU", NextOperation(n, p)
        PROVE  CountBound'
    BY <1>1, <2>2, NextOperationCount
  <2>3. ASSUME NEW n \in Cpus, NEW p \in Procs, RunBurst(n, p)
        PROVE  CountBound'
    <3>1. CASE Dispatch(n, "PREEMPT")
      <4>1. DoneSet' = DoneSet /\ UNCHANGED processesTerminated
        BY <1>1, <2>3 DEF RunBurst, SimulateCpus, DoneSet, Done
      <4>2. PendingSet' \subseteq PendingSet
        BY <3>1, DispatchPending
      <4> QED BY <4>1, <4>2, QuietStep
    <3>2. CASE UNCHANGED <<cpuState, cpuPc>>
      BY <2>1, <2>3, <3>2 DEF RunBurst
    <3> QED BY <2>3, <3>1, <3>2 DEF RunBurst
  <2>4. CASE supN \in Cpus /\ simCurrent[supN] # NULL
    <3>1. simCurrent[supN] \in Procs /\ supN # CpuCount
      BY <2>4, CpuCountAssumption DEF IInv, TypeOK, CpuTypeOK, Cpus
    <3> QED BY <1>1, <2>1, <2>2, <2>3, <2>4, <3>1
            DEF SimulateCpus, SimulateProcess
  <2>5. CASE supN = CpuCount \/ simCurrent[supN] = NULL
    BY <1>1, <2>1, <2>5 DEF SimulateCpus
  <2> QED BY <2>0, <2>4, <2>5
<1>2. CASE SimulateIo
  <2>1. ioQueue \in Requests
    BY DEF IInv, TypeOK, ProcTypeOK, Requests
  <2>2. ASSUME ioQueue # << >>
        PROVE  Program[Head(ioQueue).pcb][opIndex[Head(ioQueue).pcb]].type = "IO"
    BY <2>1, <2>2, RequestFacts DEF IInv, OneRequestPerProcess
  <2>3. opIndex \in [Procs -> Nat]
    BY DEF IInv, TypeOK, ProcTypeOK
  <2>4. DoneSet \subseteq DoneSet'
    BY <1>2, <2>2, <2>3 DEF SimulateIo, DoneSet, Done
  <2>5. PendingSet' = PendingSet /\ UNCHANGED processesTerminated
    BY <1>2 DEF SimulateIo, PendingSet, CountPending
  <2> QED BY <2>4, <2>5, QuietStep
<1>3. CASE ForcePreemptCheck
  <2>1. DoneSet' = DoneSet /\ UNCHANGED processesTerminated
    BY <1>3 DEF ForcePreemptCheck, DoneSet, Done
  <2>2. CASE Dispatch(supN, "PREEMPT")
    <3>1. supN \in Cpus
      BY <1>3 DEF ForcePreemptCheck, IInv, SupervisorOK
    <3>2. PendingSet' \subseteq PendingSet
      BY <2>2, <3>1, DispatchPending
    <3> QED BY <2>1, <3>2, QuietStep
  <2>3. CASE UNCHANGED <<cpuState, cpuPc>>
    <3>1. PendingSet' = PendingSet
      BY <2>3 DEF PendingSet, CountPending
    <3> QED BY <2>1, <3>1, QuietStep
  <2> QED BY <1>3, <2>2, <2>3 DEF ForcePreemptCheck
<1>4. CASE ~SimulateCpus /\ ~SimulateIo /\ ~ForcePreemptCheck
  <2>1. /\ UNCHANGED <<cpuState, opIndex, processesTerminated>>
        /\ UNCHANGED cpuPc \/ cpuPc' = BroadcastIdle(cpuPc)
    BY <1>4 DEF Supervisor, SupLock, ReaderLock, ReaderUnlock, EventHandled,
         SimulateCreat, WakeLock, WakeEnqueue, WakeScan, ForcePreemptUnlock,
         ForcePreemptLock, WakeUnlock, WakeReturn
  <2>2. DoneSet' = DoneSet /\ PendingSet' = PendingSet
    BY <2>1 DEF DoneSet, Done, PendingSet, CountPending, BroadcastIdle, IInv,
                TypeOK, CpuTypeOK
  <2> QED BY <2>1, <2>2, QuietStep
<1> QED BY <1>1, <1>2, <1>3, <1>4

LEMMA CpuCountStep ==
  ASSUME IInv, CountBound, NEW c \in Cpus, CpuThread(c)
  PROVE  CountBound'
<1>0. cpuPc \in [Cpus -> CpuLabels] /\ cpuState \in [Cpus -> CpuStates]
  BY DEF IInv, TypeOK, CpuTypeOK
<1>1. DoneSet' = DoneSet
  BY DEF CpuThread, LoopTop, RunWoken, CountTerminated, EnterHandler, Handler,
     Idle, Dequeue, SetCurrent, SwitchUnlock, SwitchStore, SwitchLock,
     LeaveHandler, DoneSet, Done
<1>2. CASE CountTerminated(c)
  <2>1. /\ PendingSet' = PendingSet \ {c} /\ c \in PendingSet
        /\ processesTerminated' = processesTerminated + 1
    BY <1>0, <1>2 DEF CountTerminated, CpuGoto, PendingSet, CountPending
  <2>2. Cardinality(PendingSet') = Cardinality(PendingSet) - 1
    BY <2>1, CpuSets DEF PendingSet
  <2>3. /\ Cardinality(PendingSet) \in Nat /\ Cardinality(DoneSet) \in Nat
        /\ processesTerminated \in Nat
    BY CpuSets, DoneSets DEF PendingSet, DoneSet, IInv, TypeOK, CountTypeOK
  <2>4. CountBound' <=> processesTerminated' + Cardinality(PendingSet')
                          <= Cardinality(DoneSet')
    BY DEF CountBound
  <2> QED BY <1>1, <2>1, <2>2, <2>3, <2>4 DEF CountBound
<1>3. CASE ~CountTerminated(c)
  <2>1. UNCHANGED processesTerminated
    BY <1>3 DEF CpuThread, LoopTop, RunWoken, EnterHandler, Handler, Idle,
       Dequeue, SetCurrent, SwitchUnlock, SwitchStore, SwitchLock, LeaveHandler
  <2>2. PendingSet' \subseteq PendingSet
    <3>1. CASE RunWoken(c) \/ LoopTop(c)
      BY <1>0, <3>1 DEF RunWoken, LoopTop, CpuGoto, HandlerEntry, PendingSet,
                        CountPending
    <3>2. CASE Handler(c)
      BY <1>0, <3>2 DEF Handler, CpuGoto, BroadcastIdle, PendingSet,
                        CountPending
    <3>3. CASE EnterHandler(c) \/ Idle(c) \/ Dequeue(c) \/ SetCurrent(c)
               \/ SwitchUnlock(c) \/ SwitchStore(c) \/ SwitchLock(c)
               \/ LeaveHandler(c)
      BY <1>0, <3>3 DEF EnterHandler, Idle, Dequeue, SetCurrent, SwitchUnlock,
         SwitchStore, SwitchLock, LeaveHandler, CpuGoto, PendingSet,
         CountPending
    <3> QED BY <1>3, <3>1, <3>2, <3>3 DEF CpuThread
  <2> QED BY <1>1, <2>1, <2>2, QuietStep
<1> QED BY <1>2, <1>3

LEMMA CountStep == IInv /\ CountBound /\ [Next]_vars => CountBound'
<1> SUFFICES ASSUME IInv, CountBound, [Next]_vars PROVE CountBound'
  OBVIOUS
<1>1. CASE Spurious
  <2>1. DoneSet' = DoneSet /\ UNCHANGED processesTerminated
    BY <1>1 DEF Spurious, SpuriousSupervisor, SpuriousCpu, DoneSet, Done
  <2>2. PendingSet' \subseteq PendingSet
    BY <1>1 DEF Spurious, SpuriousSupervisor, SpuriousCpu, CpuGoto,
       AfterSpurious, PendingSet, CountPending, IInv, TypeOK, CpuTypeOK,
       CpuThreadOK
  <2> QED BY <2>1, <2>2, QuietStep
<1>2. CASE UNCHANGED vars
  BY <1>2 DEF vars, CountBound, PendingSet, CountPending, DoneSet, Done
<1> QED BY <1>1, <1>2, SupervisorCount, CpuCountStep DEF Next, Halted

\* The program exits only at SupLock, with every termination counted, and
\* takes no step after that.
ExitInv == status = "exited" => DoneSet = Procs

LEMMA ExitStep == IInv /\ CountBound /\ ExitInv /\ [Next]_vars => ExitInv'
<1> SUFFICES ASSUME IInv, CountBound, ExitInv, [Next]_vars PROVE ExitInv'
  OBVIOUS
<1>1. CASE status = "running" /\ SupLock
  <2>1. DoneSet' = DoneSet
    BY <1>1 DEF SupLock, DoneSet, Done
  <2>2. CASE processesTerminated >= ProcessCount
    <3>1. /\ Cardinality(DoneSet) <= ProcessCount /\ Cardinality(DoneSet) \in Nat
          /\ Cardinality(PendingSet) \in Nat /\ processesTerminated \in Nat
          /\ Cardinality(DoneSet) = ProcessCount => DoneSet = Procs
      BY CpuSets, DoneSets DEF PendingSet, DoneSet, IInv, TypeOK, CountTypeOK
    <3>2. DoneSet = Procs
      BY <2>2, <3>1, ProcessCountAssumption DEF CountBound
    <3> QED BY <2>1, <3>2 DEF ExitInv
  <2>3. CASE ~(processesTerminated >= ProcessCount)
    BY <1>1, <2>3 DEF SupLock, ExitInv
  <2> QED BY <2>2, <2>3
<1>2. CASE status = "running" /\ Supervisor /\ ~SupLock
  <2>1. status' # "exited"
    BY <1>2 DEF Supervisor, ReaderLock, ReaderUnlock, SimulateCpus,
       EventHandled, SimulateIo, SimulateCreat, WakeLock, WakeEnqueue,
       WakeScan, ForcePreemptUnlock, ForcePreemptCheck, ForcePreemptLock,
       WakeUnlock, WakeReturn
  <2> QED BY <2>1 DEF ExitInv
<1>3. CASE status = "running" /\ \E c \in Cpus : CpuThread(c)
  <2>1. status' # "exited"
    BY <1>3 DEF CpuThread, LoopTop, RunWoken, CountTerminated, EnterHandler,
       Handler, Idle, Dequeue, SetCurrent, SwitchUnlock, SwitchStore,
       SwitchLock, LeaveHandler, Crash
  <2> QED BY <2>1 DEF ExitInv
<1>4. CASE status = "running" /\ Spurious
  BY <1>4 DEF Spurious, SpuriousSupervisor, SpuriousCpu, ExitInv
<1>5. CASE UNCHANGED vars
  BY <1>5 DEF vars, ExitInv, DoneSet, Done
<1> QED BY <1>1, <1>2, <1>3, <1>4, <1>5 DEF Next, Halted

\* Whatever the timing, processes_terminated never runs ahead of the
\* processes that have reached their end, and the program exits only when
\* all of them have.
THEOREM ExitIsNeverEarly == Spec => []TerminationsCounted
<1>1. Init => CountBound /\ ExitInv
  <2> SUFFICES ASSUME Init PROVE CountBound /\ ExitInv
    OBVIOUS
  <2>1. PendingSet = {} /\ processesTerminated = 0 /\ status = "running"
    BY DEF Init, PendingSet, CountPending
  <2>2. Cardinality(DoneSet) \in Nat
    BY DoneSets DEF DoneSet
  <2> QED BY <2>1, <2>2, FS_EmptySet DEF CountBound, ExitInv
<1>2. CountBound /\ ExitInv => TerminationsCounted
  BY DEF CountBound, ExitInv, TerminationsCounted, PendingSet, DoneSet
<1> QED BY <1>1, <1>2, SpecInv, CountStep, ExitStep, PTL DEF Spec
=============================================================================
