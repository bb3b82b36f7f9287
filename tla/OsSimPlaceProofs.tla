--------------------------- MODULE OsSimPlaceProofs --------------------------
(***************************************************************************)
(* Where the processes of OsSim are, for every number of CPUs and          *)
(* processes, every program, every timing and any spurious wakeups, up to  *)
(* the first time that the simulator overtakes the scheduler; and what     *)
(* follows for the ready queue, the life of a process and the state in its *)
(* PCB.                                                                    *)
(***************************************************************************)
EXTENDS OsSimProofs, OsSimOrder, WellFoundedInduction

-----------------------------------------------------------------------------
(* The linked list of student.c is a FIFO queue, whatever its length: the  *)
(* operations on the list do to the sequence it holds what a queue's       *)
(* operations do.  Stale `next' fields of processes outside the list are   *)
(* arbitrary throughout.                                                   *)

\* No process is twice in s.
Distinct(s) == \A i, j \in 1 .. Len(s) : s[i] = s[j] => i = j

\* The list that init_ready_queue() makes holds nothing.
THEOREM InitIsEmpty == Represents(InitReadyQueue, << >>)
BY DEF Represents, InitReadyQueue

\* enqueue_ready() puts a process that is not in the list at its end.
THEOREM EnqueueAppends ==
  ASSUME NEW q \in Queues, NEW s \in Seq(Procs), NEW p \in Procs,
         Represents(q, s), Distinct(s), \A i \in 1 .. Len(s) : s[i] # p
  PROVE  /\ Represents(EnqueueReady(q, p), Append(s, p))
         /\ Distinct(Append(s, p))
<1> DEFINE t == Append(s, p)
<1>1. /\ Len(s) \in Nat /\ Len(t) = Len(s) + 1
      /\ \A i \in 1 .. Len(s) : t[i] = s[i] /\ s[i] \in Procs
      /\ t[Len(s) + 1] = p
  OBVIOUS
<1> HIDE DEF t
<1>2. Distinct(t)
  BY <1>1 DEF Distinct
<1>3. q.count = Len(s)
  BY DEF Represents
<1>4. CASE Len(s) = 0
  <2>1. EnqueueReady(q, p) = [q EXCEPT !.head = p, !.tail = p, !.count = 1]
    BY <1>3, <1>4 DEF EnqueueReady
  <2>2. /\ EnqueueReady(q, p).head = p /\ EnqueueReady(q, p).tail = p
        /\ EnqueueReady(q, p).count = 1
    BY <2>1 DEF Queues
  <2>3. Represents(EnqueueReady(q, p), t)
    BY <1>1, <1>4, <2>2 DEF Represents
  <2> QED BY <1>2, <2>3 DEF t
<1>5. CASE Len(s) > 0
  <2>1. q.head = s[1] /\ q.tail = s[Len(s)] /\ q.tail \in Procs
    BY <1>1, <1>5 DEF Represents
  <2>2. EnqueueReady(q, p) =
          [q EXCEPT !.next[q.tail] = p, !.tail = p, !.count = @ + 1]
    BY <1>3, <1>5 DEF EnqueueReady
  <2>3. /\ EnqueueReady(q, p).head = s[1] /\ EnqueueReady(q, p).tail = p
        /\ EnqueueReady(q, p).count = Len(s) + 1
        /\ EnqueueReady(q, p).next = [q.next EXCEPT ![q.tail] = p]
    BY <1>3, <2>1, <2>2 DEF Queues
  <2>4. q.next \in [Procs -> Procs \cup {NULL}]
    BY DEF Queues
  <2>5. \A i \in 1 .. Len(s) - 1 : EnqueueReady(q, p).next[s[i]] = s[i+1]
    <3> SUFFICES ASSUME NEW i \in 1 .. Len(s) - 1
                 PROVE  EnqueueReady(q, p).next[s[i]] = s[i+1]
      OBVIOUS
    <3>1. s[i] # q.tail /\ s[i] \in Procs
      BY <1>1, <2>1 DEF Distinct
    <3>2. q.next[s[i]] = s[i+1]
      BY DEF Represents
    <3> QED BY <2>3, <2>4, <3>1, <3>2
  <2>6. EnqueueReady(q, p).next[s[Len(s)]] = p
    BY <2>1, <2>3, <2>4
  <2>7. \A i \in 1 .. Len(t) - 1 : EnqueueReady(q, p).next[t[i]] = t[i+1]
    BY <1>1, <1>5, <2>5, <2>6
  <2>8. Represents(EnqueueReady(q, p), t)
    BY <1>1, <1>5, <2>3, <2>7 DEF Represents
  <2> QED BY <1>2, <2>8 DEF t
<1> QED BY <1>1, <1>4, <1>5

\* dequeue_ready() takes the process at the front of the list, never follows
\* a NULL pointer, and returns NULL just when the list is empty.
THEOREM DequeueTakesHead ==
  ASSUME NEW q \in Queues, NEW s \in Seq(Procs), Represents(q, s)
  PROVE  /\ ~DequeueCrashes(q)
         /\ s = << >> => DequeueResult(q) = NULL /\ DequeueReady(q) = q
         /\ s # << >> => /\ DequeueResult(q) = Head(s)
                         /\ Represents(DequeueReady(q), Tail(s))
<1>0. \A n \in Nat : n > 1 => n # 0 /\ n # 1
  OBVIOUS
<1>1. Len(s) \in Nat /\ q.count = Len(s)
  BY DEF Represents
<1>2. \A i \in 1 .. Len(s) : s[i] \in Procs /\ s[i] # NULL
  <2>1. \A i \in 1 .. Len(s) : s[i] \in Procs
    OBVIOUS
  <2>2. \A p \in Procs : p # NULL
    BY ProcessCountAssumption DEF Procs, NULL
  <2> QED BY <2>1, <2>2
<1>3. CASE Len(s) = 0
  BY <1>1, <1>3 DEF DequeueCrashes, DequeueResult, DequeueReady
<1>4. CASE Len(s) > 0
  <2> DEFINE t == Tail(s)
  <2>1. /\ s # << >> /\ Head(s) = s[1] /\ Len(t) = Len(s) - 1
        /\ \A i \in 1 .. Len(s) - 1 : t[i] = s[i+1]
    BY <1>4
  <2> HIDE DEF t
  <2>2. q.head = s[1] /\ q.tail = s[Len(s)]
    BY <1>4 DEF Represents
  <2>3. ~DequeueCrashes(q) /\ DequeueResult(q) = Head(s)
    BY <1>1, <1>2, <1>4, <2>1, <2>2 DEF DequeueCrashes, DequeueResult
  <2>4. CASE Len(s) = 1
    <3>1. DequeueReady(q) = [q EXCEPT !.head = NULL, !.tail = NULL, !.count = 0]
      BY <1>1, <2>4 DEF DequeueReady
    <3>2. DequeueReady(q).count = 0
      BY <3>1 DEF Queues
    <3>3. Represents(DequeueReady(q), t)
      BY <2>1, <2>4, <3>2 DEF Represents
    <3> QED BY <2>1, <2>3, <3>3 DEF t
  <2>5. CASE Len(s) > 1
    <3>1. DequeueReady(q) = [q EXCEPT !.head = q.next[q.head], !.count = @ - 1]
      <4>1. q.count # 0 /\ q.count # 1
        BY <1>1, <1>0, <2>5
      <4> QED BY <4>1 DEF DequeueReady
    <3>2. /\ DequeueReady(q).head = q.next[q.head]
          /\ DequeueReady(q).count = Len(s) - 1
          /\ DequeueReady(q).tail = q.tail /\ DequeueReady(q).next = q.next
      BY <1>1, <3>1 DEF Queues
    <3>3. \A i \in 1 .. Len(s) - 1 : q.next[s[i]] = s[i+1]
      BY DEF Represents
    <3>4. DequeueReady(q).head = t[1] /\ DequeueReady(q).tail = t[Len(t)]
      BY <2>1, <2>2, <2>5, <3>2, <3>3
    <3>5. \A i \in 1 .. Len(t) - 1 : DequeueReady(q).next[t[i]] = t[i+1]
      BY <1>1, <2>1, <3>2, <3>3
    <3>6. Represents(DequeueReady(q), t)
      BY <1>1, <2>1, <2>5, <3>2, <3>4, <3>5 DEF Represents
    <3> QED BY <2>1, <2>3, <3>6 DEF t
  <2>6. Len(s) = 1 \/ Len(s) > 1
    <3> DEFINE n == Len(s)
    <3>1. n \in Nat /\ n > 0
      BY <1>1, <1>4
    <3> HIDE DEF n
    <3>2. n = 1 \/ n > 1
      BY <3>1
    <3> QED BY <3>2 DEF n
  <2> QED BY <2>4, <2>5, <2>6
<1> QED BY <1>1, <1>3, <1>4

-----------------------------------------------------------------------------
(* The inductive invariant, of the states in which the simulator has not   *)
(* overtaken the scheduler.                                                *)

\* The supervisor waits for the one CPU that handles an event, or has just
\* been woken.
OneEvent ==
  \A c \in Cpus :
    cpuState[c] \in Events =>
      supPc \in {"eventWait", "eventWoken", "fpWait", "fpLock"} /\ supN = c

\* The labels of a CPU thread in each state of its CPU.
StateOfThread ==
  \A c \in Cpus :
    /\ cpuState[c] = "RUNNING" => cpuPc[c] \in {"runWait", "runWoken"}
    /\ cpuState[c] \in Events => cpuPc[c] \notin {"runWait", "idle", "idleWait"}
    /\ cpuState[c] = "IDLE" =>
         /\ cpuPc[c] \notin {"runWait", "runWoken", "terminating", "enter", "handler"}
         /\ simCurrent[c] # NULL => Dispatching(c)
    /\ cpuPc[c] = "terminating" => cpuEvent[c] = "TERMINATE"

\* The two notions of the process of a CPU agree but inside context_switch().
SameCurrent ==
  \A c \in Cpus :
    /\ current[c] = IF cpuPc[c] \in {"switchUnlock", "switchStore"}
                    THEN cpuPcb[c] ELSE simCurrent[c]
    /\ current[c] # NULL => procState[current[c]] # "NEW"

\* The process that simulate_creat() is creating, and those still to come.
Creating == supPc \in WakeLabels /\ supReturn = "sleep"
Arrived  == Creating /\ supPc \notin {"wakeLock", "wakeEnqueue"}

CreatedInOrder ==
  /\ Creating => supPcb = processesCreated + 1
  /\ Arrived => procState[processesCreated + 1] # "NEW"
  /\ \A p \in Procs :
       /\ p > processesCreated /\ ~(Arrived /\ p = processesCreated + 1)
            => procState[p] = "NEW"
       /\ New(p) => ~Done(p)
       /\ BeingWoken(p) /\ ~Creating => ~New(p)

\* The list is a queue without repetitions.
QueueOK ==
  /\ Contents(rq) \in Seq(Procs)
  /\ Represents(rq, Contents(rq))
  /\ Distinct(Contents(rq))

\* The process has at most one place, and is on at most one CPU.
Alone(p) ==
  /\ Ready(p) => ~Waiting(p) /\ ~BeingWoken(p) /\ ~Running(p)
  /\ Waiting(p) => ~BeingWoken(p) /\ ~Running(p)
  /\ BeingWoken(p) => ~Running(p)
  /\ \A c, d \in Cpus : Held(c) = p /\ Held(d) = p => c = d

\* A process has no place just when it is not there yet or not any more.
Placed(p) ==
  Ready(p) \/ Waiting(p) \/ BeingWoken(p) \/ Running(p)
    <=> ~ (Done(p) \/ (New(p) /\ ~BeingWoken(p)))

EachPlaced == \A p \in Procs : Alone(p) /\ Placed(p)

PlacesOK == CreatedInOrder /\ QueueOK /\ EachPlaced

ThreadsOK == OneEvent /\ StateOfThread /\ SameCurrent

-----------------------------------------------------------------------------
(* The list as a sequence.                                                 *)

\* A set of natural numbers that is not empty has a smallest one.
LEMMA Smallest ==
  ASSUME NEW S \in SUBSET Nat, S # {}
  PROVE  \E x \in S : \A y \in S : x <= y
<1>1. \E x \in S : \A y \in S : ~ (<<y, x>> \in OpToRel(<, Nat))
  BY NatLessThanWellFounded, WFMin, Zenon
<1>2. \A x, y \in Nat : y < x => <<y, x>> \in OpToRel(<, Nat)
  <2> TAKE x, y \in Nat
  <2> HAVE y < x
  <2>1. <<y, x>> \in Nat \X Nat /\ <<y, x>>[1] < <<y, x>>[2]
    OBVIOUS
  <2>2. OpToRel(<, Nat) = {ss \in Nat \X Nat : ss[1] < ss[2]}
    BY Zenon DEF OpToRel
  <2> QED BY <2>1, <2>2
<1>3. \A x \in S : x \in Nat
  OBVIOUS
<1>4. \E x \in S : \A y \in S : ~ (y < x)
  BY <1>1, <1>2, <1>3, Zenon
<1> QED BY <1>3, <1>4

\* What a list represents is its contents: the recursion of Contents meets
\* the elements of the sequence one after the other.
LEMMA ContentsIs ==
  ASSUME NEW q \in Queues, NEW s \in Seq(Procs), Represents(q, s)
  PROVE  Contents(q) = s
<1> DEFINE n == q.count
           Nodes(f) == [i \in 1 .. n |->
                         IF i = 1 THEN q.head
                         ELSE IF f[i-1] = NULL THEN NULL ELSE q.next[f[i-1]]]
           node == CHOOSE f : f = Nodes(f)
<1>1. /\ n = Len(s) /\ n \in Nat
      /\ s \in [1 .. n -> Procs]
      /\ \A i \in 1 .. n : s[i] \in Procs /\ s[i] # NULL
  <2>1. \A p \in Procs : p # NULL
    BY ProcessCountAssumption DEF Procs, NULL
  <2> QED BY <2>1 DEF Represents
<1>2. /\ n > 0 => q.head = s[1]
      /\ \A i \in 1 .. n - 1 : q.next[s[i]] = s[i+1]
  BY <1>1 DEF Represents
<1>3. Contents(q) = [i \in 1 .. n |-> node[i]]
  BY DEF Contents
<1> HIDE DEF n
<1>4. s = Nodes(s)
  <2>1. \A i \in 1 .. n : s[i] = IF i = 1 THEN q.head
                                 ELSE IF s[i-1] = NULL THEN NULL ELSE q.next[s[i-1]]
    <3> TAKE i \in 1 .. n
    <3>1. CASE i = 1
      BY <1>1, <1>2, <3>1
    <3>2. CASE i # 1
      <4>1. i - 1 \in 1 .. n - 1 /\ i - 1 \in 1 .. n /\ (i - 1) + 1 = i
        BY <1>1, <3>2
      <4> QED BY <1>1, <1>2, <3>2, <4>1
    <3> QED BY <3>1, <3>2
  <2>2. s = [i \in 1 .. n |-> s[i]]
    BY <1>1
  <2> QED BY <2>1, <2>2
<1>5. node = Nodes(node)
  BY <1>4
<1> HIDE DEF node
<1>6. \A i \in 1 .. n :
        node[i] = IF i = 1 THEN q.head
                  ELSE IF node[i-1] = NULL THEN NULL ELSE q.next[node[i-1]]
  BY <1>5
<1>7. \A i \in 1 .. n : node[i] = s[i]
  <2> DEFINE Wrong == {i \in 1 .. n : node[i] # s[i]}
  <2> SUFFICES ASSUME Wrong # {} PROVE FALSE
    OBVIOUS
  <2>1. PICK i \in Wrong : \A j \in Wrong : i <= j
    <3>1. Wrong \in SUBSET Nat
      BY <1>1
    <3> HIDE DEF Wrong
    <3> QED BY <3>1, Smallest
  <2>2. i \in 1 .. n /\ node[i] # s[i]
    OBVIOUS
  <2>3. i # 1
    BY <1>1, <1>2, <1>6, <2>2
  <2>4. i - 1 \in 1 .. n /\ i - 1 \in 1 .. n - 1 /\ (i - 1) + 1 = i /\ ~ (i <= i - 1)
    BY <1>1, <2>2, <2>3
  <2>5. node[i-1] = s[i-1]
    BY <2>1, <2>4
  <2> QED BY <1>1, <1>2, <1>6, <2>2, <2>3, <2>4, <2>5
<1> QED BY <1>1, <1>3, <1>7

\* enqueue_ready() of a process that is not in the list.
LEMMA Enqueued ==
  ASSUME QueueOK, rq \in Queues, NEW p \in Procs, ~Ready(p),
         rq' = EnqueueReady(rq, p), rq' \in Queues
  PROVE  /\ QueueOK' /\ \A q \in Procs : Ready(q)' <=> Ready(q) \/ q = p
         /\ Fifo!Enqueue(p)
<1> DEFINE s == Contents(rq)
           t == Append(s, p)
<1>1. s \in Seq(Procs) /\ Represents(rq, s) /\ Distinct(s) /\ rq.count = Len(s)
  BY DEF QueueOK, Represents
<1>2. \A i \in 1 .. Len(s) : s[i] # p
  BY <1>1 DEF Ready
<1> HIDE DEF s
<1>3. Represents(rq', t) /\ Distinct(t)
  BY <1>1, <1>2, EnqueueAppends
<1>4. t \in Seq(Procs)
  BY <1>1
<1>5. Contents(rq') = t
  BY <1>3, <1>4, ContentsIs
<1>6. QueueOK'
  BY <1>3, <1>4, <1>5 DEF QueueOK
<1>7. /\ rq'.count = Len(s) + 1 /\ Len(s) \in Nat
      /\ \A i \in 1 .. Len(s) : t[i] = s[i]
      /\ t[Len(s) + 1] = p
  BY <1>1, <1>3 DEF Represents
<1>8. \A q \in Procs : Ready(q) <=> \E i \in 1 .. Len(s) : s[i] = q
  BY <1>1 DEF Ready, s
<1>9. \A q \in Procs : Ready(q)' <=> \E i \in 1 .. Len(s) + 1 : t[i] = q
  BY <1>5, <1>7 DEF Ready
<1> HIDE DEF t
<1>10. \A q \in Procs : (\E i \in 1 .. Len(s) + 1 : t[i] = q)
                         <=> (\E i \in 1 .. Len(s) : s[i] = q) \/ q = p
  <2> TAKE q \in Procs
  <2>1. ASSUME NEW i \in 1 .. Len(s) + 1, t[i] = q
        PROVE  (\E j \in 1 .. Len(s) : s[j] = q) \/ q = p
    <3>1. i \in 1 .. Len(s) \/ i = Len(s) + 1
      BY <1>7
    <3> QED BY <1>7, <2>1, <3>1
  <2>2. ASSUME NEW j \in 1 .. Len(s), s[j] = q
        PROVE  \E i \in 1 .. Len(s) + 1 : t[i] = q
    BY <1>7, <2>2
  <2>3. Len(s) + 1 \in 1 .. Len(s) + 1
    BY <1>7
  <2> QED BY <1>7, <2>1, <2>2, <2>3
<1>11. Fifo!Enqueue(p)
  BY <1>2, <1>5 DEF Fifo!Enqueue, s, t
<1> QED BY <1>6, <1>8, <1>9, <1>10, <1>11

\* dequeue_ready() takes the process it returns out of the list, and no other.
LEMMA Dequeued ==
  ASSUME QueueOK, rq \in Queues
  PROVE  /\ ~DequeueCrashes(rq)
         /\ DequeueResult(rq) # NULL => DequeueResult(rq) \in Procs /\ Ready(DequeueResult(rq))
         /\ rq' = DequeueReady(rq) /\ rq' \in Queues
              => /\ QueueOK'
                 /\ \A q \in Procs : Ready(q)' <=> Ready(q) /\ q # DequeueResult(rq)
                 /\ Fifo!Dequeue \/ UNCHANGED Contents(rq)
<1> DEFINE s == Contents(rq)
           t == Tail(s)
<1>1. /\ s \in Seq(Procs) /\ Represents(rq, s) /\ Distinct(s) /\ rq.count = Len(s)
      /\ Len(s) \in Nat
  BY DEF QueueOK, Represents
<1>2. \A q \in Procs : Ready(q) <=> \E i \in 1 .. Len(s) : s[i] = q
  BY <1>1 DEF Ready
<1>3. \A p \in Procs : p # NULL
  BY ProcessCountAssumption DEF Procs, NULL
<1> HIDE DEF s
<1>4. /\ ~DequeueCrashes(rq)
      /\ s = <<>> => DequeueResult(rq) = NULL /\ DequeueReady(rq) = rq
      /\ s # <<>> => /\ DequeueResult(rq) = Head(s)
                     /\ Represents(DequeueReady(rq), Tail(s))
  BY <1>1, DequeueTakesHead
<1>5. CASE s = <<>>
  <2>1. Len(s) = 0
    BY <1>5
  <2>2. \A q \in Procs : ~Ready(q)
    BY <1>2, <2>1
  <2>3. rq' = DequeueReady(rq) => rq' = rq
    BY <1>4, <1>5
  <2>4. rq' = rq => /\ QueueOK' /\ \A q \in Procs : Ready(q)' <=> Ready(q)
                    /\ UNCHANGED Contents(rq)
    BY DEF QueueOK, Ready
  <2> QED BY <1>4, <1>5, <2>2, <2>3, <2>4
<1>6. CASE s # <<>>
  <2>1. /\ Len(s) > 0 /\ Head(s) = s[1] /\ s[1] \in Procs
        /\ t \in Seq(Procs) /\ Len(t) = Len(s) - 1
        /\ \A i \in 1 .. Len(s) - 1 : t[i] = s[i + 1]
    BY <1>1, <1>6
  <2> HIDE DEF t
  <2>2. DequeueResult(rq) = s[1] /\ Ready(s[1])
    BY <1>1, <1>2, <1>4, <1>6, <2>1
  <2>3. ASSUME rq' = DequeueReady(rq), rq' \in Queues
        PROVE  /\ QueueOK'
               /\ \A q \in Procs : Ready(q)' <=> Ready(q) /\ q # s[1]
               /\ Fifo!Dequeue
    <3>1. Represents(rq', t)
      BY <1>4, <1>6, <2>3 DEF t
    <3>2. Contents(rq') = t
      BY <2>1, <2>3, <3>1, ContentsIs
    <3>3. Distinct(t)
      <4> SUFFICES ASSUME NEW i \in 1 .. Len(s) - 1, NEW j \in 1 .. Len(s) - 1,
                          t[i] = t[j]
                   PROVE  i = j
        BY <2>1 DEF Distinct
      <4>1. s[i + 1] = s[j + 1] /\ i + 1 \in 1 .. Len(s) /\ j + 1 \in 1 .. Len(s)
        BY <1>1, <2>1
      <4>2. i + 1 = j + 1
        BY <1>1, <4>1 DEF Distinct
      <4> QED BY <4>2
    <3>4. QueueOK'
      BY <2>1, <3>1, <3>2, <3>3 DEF QueueOK
    <3>5. rq'.count = Len(s) - 1
      BY <2>1, <3>1 DEF Represents
    <3>6. \A q \in Procs : Ready(q)' <=> \E i \in 1 .. Len(s) - 1 : t[i] = q
      BY <3>2, <3>5 DEF Ready
    <3>7. \A q \in Procs : (\E i \in 1 .. Len(s) - 1 : t[i] = q)
                             <=> (\E i \in 1 .. Len(s) : s[i] = q) /\ q # s[1]
      <4> TAKE q \in Procs
      <4>1. ASSUME NEW i \in 1 .. Len(s) - 1, t[i] = q
            PROVE  (\E j \in 1 .. Len(s) : s[j] = q) /\ q # s[1]
        <5>1. i + 1 \in 1 .. Len(s) /\ 1 \in 1 .. Len(s) /\ i + 1 # 1 /\ s[i + 1] = q
          BY <1>1, <2>1, <4>1
        <5> QED BY <1>1, <5>1 DEF Distinct
      <4>2. ASSUME NEW j \in 1 .. Len(s), s[j] = q, q # s[1]
            PROVE  \E i \in 1 .. Len(s) - 1 : t[i] = q
        <5>1. j - 1 \in 1 .. Len(s) - 1 /\ (j - 1) + 1 = j
          BY <1>1, <4>2
        <5>2. t[j - 1] = q
          BY <2>1, <4>2, <5>1
        <5> QED BY <5>1, <5>2
      <4> QED BY <4>1, <4>2
    <3>8. Fifo!Dequeue
      BY <1>6, <3>2 DEF Fifo!Dequeue, s, t
    <3> QED BY <1>2, <3>4, <3>6, <3>7, <3>8
  <2> QED BY <1>4, <2>1, <2>2, <2>3
<1> QED BY <1>5, <1>6

-----------------------------------------------------------------------------
(* The threads.                                                            *)

USE DEF simVars, procVars, countVars, modeVars, cpuVars, supVars

LEMMA InitThreads == Init => ThreadsOK
BY DEF Init, ThreadsOK, OneEvent, StateOfThread, SameCurrent, Events

\* The steps of the supervisor that change no CPU.
LEMMA SupervisorMoves ==
  ASSUME ~Overtakes, IInv, ThreadsOK,
         \/ SupLock \/ ReaderLock \/ ReaderUnlock \/ EventHandled \/ SimulateIo
         \/ SimulateCreat \/ WakeLock \/ WakeScan \/ ForcePreemptUnlock
         \/ ForcePreemptLock \/ WakeUnlock \/ WakeReturn
  PROVE  ThreadsOK'
<1>1. /\ UNCHANGED <<simVars, current, procState, cpuVars>>
      /\ supPc \notin {"eventWait", "fpWait"} /\ supPc' # supPc
  BY DEF SupLock, ReaderLock, ReaderUnlock, EventHandled, SimulateIo,
         SimulateCreat, WakeLock, WakeScan, ForcePreemptUnlock,
         ForcePreemptLock, WakeUnlock, WakeReturn, SupGoto, IInv, TypeOK,
         SupTypeOK
<1>2. \A c \in Cpus : cpuState[c] \notin Events
  BY <1>1 DEF ThreadsOK, OneEvent, Overtakes, LeavesEarly
<1>3. \A c \in Cpus : Dispatching(c)' <=> Dispatching(c)
  BY <1>1 DEF Dispatching
<1> QED BY <1>1, <1>2, <1>3 DEF ThreadsOK, OneEvent, StateOfThread, SameCurrent

\* An event for a CPU that runs a process.
LEMMA DispatchThreads ==
  ASSUME IInv, ThreadsOK, NEW n \in Cpus, NEW event \in Events,
         cpuState[n] = "RUNNING", Dispatch(n, event),
         supPc' \in {"eventWait", "fpWait"}, supN' = n,
         supPc \notin {"eventWait", "eventWoken", "fpWait", "fpLock"},
         UNCHANGED <<simCurrent, current, procState, cpuPcb, cpuEvent>>
  PROVE  ThreadsOK'
<1>1. cpuState \in [Cpus -> CpuStates] /\ cpuPc \in [Cpus -> CpuLabels]
  BY DEF IInv, TypeOK, CpuTypeOK
<1>2. /\ cpuPc[n] \in {"runWait", "runWoken"}
      /\ cpuState' = [cpuState EXCEPT ![n] = event]
      /\ cpuPc' = [cpuPc EXCEPT ![n] = "runWoken"]
  BY <1>1 DEF ThreadsOK, StateOfThread, Dispatch, SignalCpu
<1>3. /\ \A c \in Cpus : c # n => cpuState'[c] = cpuState[c] /\ cpuPc'[c] = cpuPc[c]
      /\ cpuState'[n] = event /\ cpuPc'[n] = "runWoken"
  BY <1>1, <1>2
<1>4. OneEvent'
  BY <1>3 DEF ThreadsOK, OneEvent
<1>5. \A c \in Cpus : c # n => (Dispatching(c)' <=> Dispatching(c))
  BY <1>3 DEF Dispatching
<1>6. StateOfThread'
  BY <1>3, <1>5 DEF ThreadsOK, StateOfThread, Events
<1>7. SameCurrent'
  BY <1>2, <1>3 DEF ThreadsOK, SameCurrent
<1> QED BY <1>4, <1>6, <1>7 DEF ThreadsOK

\* A CPU in the state CPU_RUNNING runs the process it has stored.
LEMMA CpuRuns ==
  ASSUME IInv, ThreadsOK, NEW n \in Cpus, cpuState[n] = "RUNNING"
  PROVE  /\ cpuPc[n] \in {"runWait", "runWoken"}
         /\ current[n] = simCurrent[n] /\ Held(n) = simCurrent[n]
<1>1. cpuPc[n] \in {"runWait", "runWoken"}
  BY DEF ThreadsOK, StateOfThread
<1>2. current[n] = simCurrent[n]
  BY <1>1 DEF ThreadsOK, SameCurrent
<1> QED BY <1>1, <1>2 DEF Held

\* The four things that simulate_cpus() may do.
LEMMA CpusCases ==
  ASSUME IInv, ThreadsOK, SimulateCpus
  PROVE  \/ /\ UNCHANGED <<cpuState, preemptionTimer, opIndex, opTime, ioQueue, cpuPc>>
            /\ supPc' \in {"cpus", "io"}
         \/ /\ supN \in Cpus /\ simCurrent[supN] # NULL
            /\ RunBurst(supN, simCurrent[supN])
         \/ /\ supN \in Cpus /\ simCurrent[supN] # NULL
            /\ Program[simCurrent[supN]][opIndex[simCurrent[supN]]].type = "CPU"
            /\ NextOperation(supN, simCurrent[supN])
<1>1. supN \in 0 .. CpuCount
  BY DEF IInv, TypeOK, SupTypeOK
<1>2. supN # CpuCount => supN \in Cpus
  BY <1>1, CpuCountAssumption DEF Cpus
<1> QED BY <1>2 DEF SimulateCpus, SimulateProcess, SupGoto

\* An event is posted in time if the CPU is in the state CPU_RUNNING.
LEMMA PostedInTime ==
  ASSUME ~Overtakes, SimulateCpus, supPc' = "eventWait"
  PROVE  cpuState[supN] = "RUNNING"
BY DEF Overtakes, PostsEarly, SimulateCpus

LEMMA SimulateCpusThreads ==
  ASSUME ~Overtakes, IInv, ThreadsOK, SimulateCpus
  PROVE  ThreadsOK'
<1>1. /\ supPc = "cpus"
      /\ UNCHANGED <<simCurrent, current, procState, cpuPcb, cpuEvent>>
  BY DEF SimulateCpus
<1>2. CASE UNCHANGED <<cpuState, cpuPc>>
  BY <1>1, <1>2 DEF ThreadsOK, OneEvent, StateOfThread, SameCurrent, Dispatching
<1>3. ASSUME NEW event \in Events, supN \in Cpus,
             Dispatch(supN, event), SupGoto("eventWait"), UNCHANGED supN
      PROVE  ThreadsOK'
  BY <1>1, <1>3, PostedInTime, DispatchThreads DEF SupGoto
<1>4. CASE RunBurst(supN, simCurrent[supN]) /\ supN \in Cpus /\ simCurrent[supN] # NULL
  BY <1>2, <1>3, <1>4 DEF RunBurst, Events
<1>5. CASE NextOperation(supN, simCurrent[supN]) /\ supN \in Cpus /\ simCurrent[supN] # NULL
  BY <1>2, <1>3, <1>5 DEF NextOperation, Events
<1> QED BY <1>2, <1>4, <1>5, CpusCases

LEMMA ForcePreemptCheckThreads ==
  ASSUME IInv, ThreadsOK, ForcePreemptCheck
  PROVE  ThreadsOK'
<1>1. /\ supPc = "fpCheck" /\ supN \in Cpus
      /\ UNCHANGED <<simCurrent, current, procState, cpuPcb, cpuEvent, supN>>
  BY DEF ForcePreemptCheck, IInv, SupervisorOK
<1>2. CASE cpuState[supN] = "RUNNING"
  BY <1>1, <1>2, DispatchThreads DEF ForcePreemptCheck, SupGoto, Events
<1>3. CASE cpuState[supN] # "RUNNING"
  <2>1. UNCHANGED <<cpuState, cpuPc>>
    BY <1>3 DEF ForcePreemptCheck
  <2> QED BY <1>1, <2>1 DEF ThreadsOK, OneEvent, StateOfThread, SameCurrent,
                            Dispatching
<1> QED BY <1>2, <1>3

\* A broadcast moves only threads that sleep in idle().
LEMMA BroadcastMoves ==
  ASSUME NEW pcs \in [Cpus -> CpuLabels], cpuPc' = BroadcastIdle(pcs)
  PROVE  /\ cpuPc' \in [Cpus -> CpuLabels]
         /\ \A c \in Cpus : \/ cpuPc'[c] = pcs[c]
                            \/ pcs[c] = "idleWait" /\ cpuPc'[c] = "idle"
BY DEF BroadcastIdle, CpuLabels

LEMMA WakeEnqueueThreads ==
  ASSUME IInv, ThreadsOK, WakeEnqueue
  PROVE  ThreadsOK'
<1>1. /\ UNCHANGED <<simVars, current, cpuPcb, cpuEvent, supN>>
      /\ supPc = "wakeEnqueue" /\ supPc' \in {"wakeScan", "wakeUnlock"}
      /\ procState' = [procState EXCEPT ![supPcb] = "READY"]
  BY DEF WakeEnqueue, SupGoto
<1>2. \A c \in Cpus : \/ cpuPc'[c] = cpuPc[c]
                      \/ cpuPc[c] = "idleWait" /\ cpuPc'[c] = "idle"
  BY BroadcastMoves DEF WakeEnqueue, IInv, TypeOK, CpuTypeOK
<1>3. \A p \in Procs : procState[p] # "NEW" => procState'[p] # "NEW"
  BY <1>1 DEF IInv, TypeOK, ProcTypeOK
<1>4. \A c \in Cpus : Dispatching(c)' <=> Dispatching(c)
  BY <1>1, <1>2 DEF Dispatching
<1>5. OneEvent'
  BY <1>1 DEF ThreadsOK, OneEvent
<1>6. StateOfThread'
  BY <1>1, <1>2, <1>4 DEF ThreadsOK, StateOfThread
<1>7. \A c \in Cpus : current[c] \in Procs \cup {NULL}
  BY DEF IInv, TypeOK, CpuTypeOK
<1>8. SameCurrent'
  BY <1>1, <1>2, <1>3, <1>7 DEF ThreadsOK, SameCurrent
<1> QED BY <1>5, <1>6, <1>8 DEF ThreadsOK

\* A step of a CPU thread that leaves its process and the state of its CPU.
LEMMA CpuMoves ==
  ASSUME IInv, ThreadsOK, NEW c \in Cpus,
         \/ RunWoken(c) \/ CountTerminated(c) \/ EnterHandler(c) \/ Idle(c)
         \/ SwitchUnlock(c) \/ SwitchLock(c) \/ LeaveHandler(c)
  PROVE  ThreadsOK'
<1>1. cpuPc \in [Cpus -> CpuLabels] /\ cpuState[c] \in CpuStates
      /\ cpuEvent \in [Cpus -> CpuStates \ {"RUNNING"}]
  BY DEF IInv, TypeOK, CpuTypeOK
<1>2. /\ UNCHANGED <<simCurrent, cpuState, current, procState, cpuPcb, supN>>
      /\ \A d \in Cpus : d # c => cpuPc'[d] = cpuPc[d] /\ cpuEvent'[d] = cpuEvent[d]
      /\ supPc' = supPc \/ (supPc = "ganttWait" /\ supPc' = "gantt")
  BY <1>1 DEF RunWoken, CountTerminated, EnterHandler, Idle, SwitchUnlock,
              SwitchLock, LeaveHandler, CpuGoto, SignalNoWriters
<1>3. cpuPc[c] = "runWoken" => cpuState[c] \in Events \cup {"RUNNING"}
  BY <1>1 DEF IInv, CpuThreadOK, Events, CpuStates
<1>4. \/ cpuPc[c] = "runWoken" /\ cpuPc'[c] = "runWait" /\ cpuState[c] = "RUNNING"
         /\ cpuEvent'[c] = cpuEvent[c]
      \/ cpuPc[c] = "runWoken" /\ cpuState[c] \in Events
         /\ cpuPc'[c] \in {"terminating", "enter"}
         /\ (cpuPc'[c] = "terminating" => cpuEvent'[c] = "TERMINATE")
      \/ cpuPc[c] = "terminating" /\ cpuPc'[c] = "enter"
      \/ cpuPc[c] = "enter" /\ cpuPc'[c] = "handler"
      \/ cpuPc[c] = "idle" /\ cpuPc'[c] \in {"idleWait", "dequeue"}
      \/ cpuPc[c] = "switchUnlock" /\ cpuPc'[c] = "switchStore"
      \/ cpuPc[c] = "switchLock" /\ cpuPc'[c] \in {"top", "leave"}
      \/ cpuPc[c] = "leave" /\ cpuPc'[c] = "top"
  BY <1>1, <1>3 DEF RunWoken, CountTerminated, EnterHandler, Idle, SwitchUnlock,
              SwitchLock, LeaveHandler, CpuGoto, HandlerEntry, Events
<1>5. \A d \in Cpus : Dispatching(d)' <=> Dispatching(d)
  BY <1>2, <1>4 DEF Dispatching
<1>6. OneEvent'
  BY <1>2 DEF ThreadsOK, OneEvent
<1>8. StateOfThread'
  BY <1>2, <1>3, <1>4, <1>5 DEF ThreadsOK, StateOfThread, Events
<1>9. SameCurrent'
  BY <1>2, <1>4 DEF ThreadsOK, SameCurrent
<1> QED BY <1>6, <1>8, <1>9 DEF ThreadsOK

\* The scheduler has run: the CPU is idle or runs its process, and the
\* supervisor goes on if it has waited for this CPU.
LEMMA LoopTopThreads ==
  ASSUME IInv, ThreadsOK, NEW c \in Cpus, LoopTop(c)
  PROVE  ThreadsOK'
<1>1. /\ cpuPc \in [Cpus -> CpuLabels] /\ cpuState \in [Cpus -> CpuStates]
      /\ cpuPc[c] = "top"
      /\ UNCHANGED <<simCurrent, current, procState, cpuPcb, cpuEvent, supN>>
  BY DEF IInv, TypeOK, CpuTypeOK, LoopTop
<1>2. /\ \A d \in Cpus : d # c => cpuPc'[d] = cpuPc[d] /\ cpuState'[d] = cpuState[d]
      /\ IF simCurrent[c] = NULL
         THEN cpuState'[c] = "IDLE" /\ cpuPc'[c] = "idle"
         ELSE cpuState'[c] = "RUNNING" /\ cpuPc'[c] = "runWait"
  BY <1>1 DEF LoopTop, CpuGoto
<1>3. /\ supPc \in {"eventWait", "eventWoken", "fpWait", "fpLock"} /\ supN # c
           => supPc' = supPc
      /\ supPc' = supPc \/ supPc' \in {"eventWoken", "fpLock"}
  BY DEF LoopTop, SignalSupervisor
<1>4. OneEvent'
  BY <1>1, <1>2, <1>3 DEF ThreadsOK, OneEvent, Events
<1>5. /\ ~Dispatching(c)'
      /\ \A d \in Cpus : d # c => (Dispatching(d)' <=> Dispatching(d))
  BY <1>1, <1>2 DEF Dispatching
<1>7. StateOfThread'
  BY <1>1, <1>2, <1>5 DEF ThreadsOK, StateOfThread, Events
<1>8. SameCurrent'
  BY <1>1, <1>2 DEF ThreadsOK, SameCurrent
<1> QED BY <1>4, <1>7, <1>8 DEF ThreadsOK

LEMMA HandlerThreads ==
  ASSUME IInv, ThreadsOK, NEW c \in Cpus, Handler(c)
  PROVE  ThreadsOK'
<1>1. /\ cpuPc \in [Cpus -> CpuLabels]
      /\ cpuPc[c] = "handler"
      /\ UNCHANGED <<simCurrent, cpuState, current, cpuPcb, cpuEvent, supPc, supN>>
  BY DEF IInv, TypeOK, CpuTypeOK, Handler
<1>2. \/ cpuPc' = cpuPc
      \/ /\ cpuPc'[c] = "dequeue"
         /\ \A d \in Cpus : d # c => \/ cpuPc'[d] = cpuPc[d]
                                     \/ cpuPc[d] = "idleWait" /\ cpuPc'[d] = "idle"
  <2>1. [cpuPc EXCEPT ![c] = "dequeue"] \in [Cpus -> CpuLabels]
    BY <1>1 DEF CpuLabels
  <2>2. \A d \in Cpus : [cpuPc EXCEPT ![c] = "dequeue"][d]
                          = IF d = c THEN "dequeue" ELSE cpuPc[d]
    BY <1>1
  <2>3. CASE cpuPc' = BroadcastIdle([cpuPc EXCEPT ![c] = "dequeue"])
    BY <2>1, <2>2, <2>3, BroadcastMoves
  <2>4. CASE cpuPc' = [cpuPc EXCEPT ![c] = "dequeue"]
    BY <2>2, <2>4
  <2> QED BY <2>3, <2>4 DEF Handler, CpuGoto
<1>3. cpuEvent[c] \in Events
  BY <1>1 DEF IInv, TypeOK, CpuTypeOK, CpuThreadOK, Events, CpuStates
<1>4. \A p \in Procs : procState[p] # "NEW" => procState'[p] # "NEW"
  BY <1>3 DEF IInv, TypeOK, ProcTypeOK, Handler, HandlerState, Events
<1>5. \A d \in Cpus : Dispatching(d)' <=> Dispatching(d)
  BY <1>1, <1>2 DEF Dispatching
<1>6. OneEvent'
  BY <1>1 DEF ThreadsOK, OneEvent
<1>7. StateOfThread'
  BY <1>1, <1>2, <1>5 DEF ThreadsOK, StateOfThread, Events
<1>8. \A d \in Cpus : current[d] \in Procs \cup {NULL}
  BY DEF IInv, TypeOK, CpuTypeOK
<1>9. SameCurrent'
  BY <1>1, <1>2, <1>4, <1>8 DEF ThreadsOK, SameCurrent
<1> QED BY <1>6, <1>7, <1>9 DEF ThreadsOK

\* schedule() and context_switch(), which give a CPU another process.
LEMMA ScheduleThreads ==
  ASSUME IInv, ThreadsOK, NEW c \in Cpus,
         Dequeue(c) \/ SetCurrent(c) \/ SwitchStore(c)
  PROVE  ThreadsOK'
<1>1. /\ cpuPc \in [Cpus -> CpuLabels] /\ cpuPcb \in [Cpus -> Procs \cup {NULL}]
      /\ simCurrent \in [Cpus -> Procs \cup {NULL}]
      /\ current \in [Cpus -> Procs \cup {NULL}]
      /\ procState \in [Procs -> ProcStates]
  BY DEF IInv, TypeOK, CpuTypeOK, ProcTypeOK
<1>2. UNCHANGED <<cpuState, cpuEvent, supPc, supN>>
  BY DEF Dequeue, SetCurrent, SwitchStore
<1>3. /\ \A d \in Cpus : d # c => /\ cpuPc'[d] = cpuPc[d]
                                  /\ cpuPcb'[d] = cpuPcb[d]
                                  /\ simCurrent'[d] = simCurrent[d]
                                  /\ current'[d] = current[d]
      /\ \A p \in Procs : procState[p] # "NEW" => procState'[p] # "NEW"
  BY <1>1 DEF Dequeue, SetCurrent, SwitchStore, CpuGoto
<1>4. \/ cpuPc[c] = "dequeue" /\ cpuPc' = cpuPc
         /\ UNCHANGED <<simCurrent, current, cpuPcb>>
      \/ cpuPc[c] = "dequeue" /\ cpuPc'[c] = "setCurrent"
         /\ UNCHANGED <<simCurrent, current>>
      \/ cpuPc[c] = "setCurrent" /\ cpuPc'[c] = "switchUnlock"
         /\ UNCHANGED <<simCurrent, cpuPcb>> /\ current'[c] = cpuPcb[c]
         /\ (current'[c] # NULL => procState'[current'[c]] = "RUNNING")
      \/ cpuPc[c] = "switchStore" /\ cpuPc'[c] = "switchLock"
         /\ UNCHANGED current /\ simCurrent'[c] = cpuPcb[c]
  BY <1>1 DEF Dequeue, SetCurrent, SwitchStore, CpuGoto
<1>5. OneEvent'
  BY <1>2 DEF ThreadsOK, OneEvent
<1>6. \A d \in Cpus : d # c => (Dispatching(d)' <=> Dispatching(d))
  BY <1>3 DEF Dispatching
<1>7. /\ cpuPc'[c] = "switchLock" => (Dispatching(c)' <=> simCurrent'[c] # NULL)
      /\ cpuPc'[c] # "switchLock" => ~Dispatching(c)'
  BY <1>4 DEF Dispatching
<1>9. StateOfThread'
  BY <1>2, <1>3, <1>4, <1>6, <1>7
     DEF ThreadsOK, StateOfThread, Events, Dispatching
<1>10. SameCurrent'
  BY <1>1, <1>2, <1>3, <1>4 DEF ThreadsOK, SameCurrent
<1> QED BY <1>5, <1>9, <1>10 DEF ThreadsOK

\* A wait that returns without a signal moves threads and nothing else.
LEMMA SpuriousMoves ==
  ASSUME IInv, Spurious
  PROVE  /\ UNCHANGED <<simVars, current, rq, procVars, ioQueue, countVars,
                        cpuPcb, cpuEvent, supN, supPcb, supReturn, status>>
         /\ \A c \in Cpus :
              \/ cpuPc'[c] = cpuPc[c]
              \/ cpuPc[c] = "runWait" /\ cpuPc'[c] = "runWoken"
                 /\ cpuState[c] = "RUNNING"
              \/ cpuPc[c] = "idleWait" /\ cpuPc'[c] = "idle"
         /\ \/ supPc' = supPc
            \/ supPc = "ganttWait" /\ supPc' = "gantt"
            \/ supPc = "eventWait" /\ supPc' = "eventWoken"
            \/ supPc = "fpWait" /\ supPc' = "fpLock"
<1>1. cpuPc \in [Cpus -> CpuLabels] /\ CpuThreadOK
  BY DEF IInv, TypeOK, CpuTypeOK
<1> QED BY <1>1 DEF Spurious, SpuriousSupervisor, SpuriousCpu, SupGoto, CpuGoto,
                    AfterSpurious, SupAfterSpurious, CpuThreadOK

LEMMA SpuriousThreads ==
  ASSUME IInv, ThreadsOK, Spurious
  PROVE  ThreadsOK'
<1>1. \A c \in Cpus : Dispatching(c)' <=> Dispatching(c)
  BY SpuriousMoves DEF Dispatching
<1>2. OneEvent'
  BY SpuriousMoves DEF ThreadsOK, OneEvent
<1>3. StateOfThread'
  BY <1>1, SpuriousMoves DEF ThreadsOK, StateOfThread, Events
<1>4. SameCurrent'
  BY SpuriousMoves DEF ThreadsOK, SameCurrent
<1> QED BY <1>2, <1>3, <1>4 DEF ThreadsOK

LEMMA ThreadsStep ==
  ASSUME ~Overtakes, IInv, ThreadsOK, [Next]_vars
  PROVE  ThreadsOK'
<1>1. CASE Supervisor
  BY <1>1, SupervisorMoves, SimulateCpusThreads, ForcePreemptCheckThreads,
     WakeEnqueueThreads DEF Supervisor
<1>2. ASSUME NEW c \in Cpus, CpuThread(c)
      PROVE  ThreadsOK'
  BY <1>2, CpuMoves, LoopTopThreads, HandlerThreads, ScheduleThreads DEF CpuThread
<1>3. CASE UNCHANGED vars
  BY <1>3 DEF vars, ThreadsOK, OneEvent, StateOfThread, SameCurrent, Dispatching
<1> QED BY <1>1, <1>2, <1>3, SpuriousThreads DEF Next, Halted

-----------------------------------------------------------------------------
(* The places.                                                             *)

\* A step leaves process p where it is, moves no process, or only p.
SamePlace(p) ==
  /\ Ready(p)' <=> Ready(p)
  /\ Waiting(p)' <=> Waiting(p)
  /\ BeingWoken(p)' <=> BeingWoken(p)
  /\ \A c \in Cpus : Held(c)' = p <=> Held(c) = p
  /\ Done(p)' <=> Done(p)
  /\ New(p)' <=> New(p)

AllStay      == \A p \in Procs : SamePlace(p)
OnlyMoves(p) == \A q \in Procs \ {p} : SamePlace(q)

\* A process that stays where it is keeps its one place.
LEMMA Stays ==
  ASSUME EachPlaced, NEW p \in Procs, SamePlace(p)
  PROVE  Alone(p)' /\ Placed(p)'
<1>1. Running(p)' <=> Running(p)
  BY DEF SamePlace, Running
<1> QED BY <1>1 DEF EachPlaced, SamePlace, Alone, Placed

\* A step that moves no process.
LEMMA NothingMoves ==
  ASSUME PlacesOK, UNCHANGED <<rq, ioQueue, opIndex, processesCreated>>,
         Creating' <=> Creating, Creating => supPcb' = supPcb,
         Arrived' <=> Arrived,
         \A p \in Procs : BeingWoken(p)' <=> BeingWoken(p),
         \A p \in Procs : \/ procState'[p] = procState[p]
                          \/ ~New(p) /\ procState'[p] # "NEW",
         \A c \in Cpus : Held(c)' = Held(c),
         processesCreated + 1 \in Procs \/ ~Arrived
  PROVE  PlacesOK' /\ AllStay
<1>1. QueueOK' /\ \A p \in Procs : Ready(p)' <=> Ready(p)
  BY DEF PlacesOK, QueueOK, Ready
<1>2. \A p \in Procs : /\ Waiting(p)' <=> Waiting(p)
                       /\ Done(p)' <=> Done(p)
                       /\ New(p)' <=> New(p)
  BY DEF Waiting, Done, New
<1>3. AllStay
  BY <1>1, <1>2 DEF AllStay, SamePlace
<1>4. CreatedInOrder'
  BY <1>2 DEF PlacesOK, CreatedInOrder, New
<1> QED BY <1>1, <1>3, <1>4, Stays DEF PlacesOK, AllStay, EachPlaced

\* The labels of the supervisor that the invariant speaks of.
LEMMA WakeSteps ==
  ASSUME IInv, UNCHANGED <<supPcb, supReturn>>,
         \/ supPc' = supPc
         \/ {supPc, supPc'} \cap WakeLabels = {}
         \/ supPc = "wakeLock" /\ supPc' = "wakeEnqueue"
         \/ {supPc, supPc'} \subseteq WakeLabels \ {"wakeLock", "wakeEnqueue"}
  PROVE  /\ Creating' <=> Creating
         /\ Arrived' <=> Arrived
         /\ \A p \in Procs : BeingWoken(p)' <=> BeingWoken(p)
BY DEF Creating, Arrived, BeingWoken, WakeLabels

\* While simulate_creat() creates a process, there is one left to create.
LEMMA CreatingProcess ==
  ASSUME IInv, Creating
  PROVE  processesCreated + 1 \in Procs
BY ProcessCountAssumption
DEF IInv, TypeOK, CountTypeOK, SupervisorOK, Creating, Procs

LEMMA InitPlaces == Init => PlacesOK
<1> SUFFICES ASSUME Init PROVE PlacesOK
  OBVIOUS
<1>1. /\ supPc = "sleep" /\ processesCreated = 0 /\ rq = InitReadyQueue
      /\ ioQueue = << >>
      /\ procState = [p \in Procs |-> "NEW"]
      /\ \A c \in Cpus : Held(c) = NULL
  BY DEF Init, Held
<1>2. rq \in Queues /\ Represents(rq, << >>) /\ << >> \in Seq(Procs) /\ rq.count = 0
  BY <1>1, InitReadyQueueType DEF Represents, InitReadyQueue
<1>3. Contents(rq) = << >>
  BY <1>2, ContentsIs
<1>4. QueueOK /\ \A p \in Procs : ~Ready(p)
  BY <1>2, <1>3 DEF QueueOK, Distinct, Ready
<1>5. \A p \in Procs : New(p) /\ ~Done(p) /\ p # NULL
  BY ProcessCountAssumption, ProgramAssumption DEF Init, New, Done, Procs, NULL
<1>6. \A p \in Procs : ~Waiting(p) /\ ~BeingWoken(p) /\ ~Running(p)
  BY <1>1, <1>5 DEF Waiting, BeingWoken, Running
<1>7. EachPlaced
  BY <1>1, <1>4, <1>5, <1>6 DEF EachPlaced, Alone, Placed
<1>8. CreatedInOrder
  BY <1>1, <1>5, <1>6 DEF CreatedInOrder, Creating, Arrived, WakeLabels
<1> QED BY <1>4, <1>7, <1>8 DEF PlacesOK

\* The steps of the supervisor that move no process.
LEMMA SupervisorPlaces ==
  ASSUME IInv, ThreadsOK, PlacesOK,
         \/ SupLock \/ ReaderLock \/ ReaderUnlock \/ EventHandled \/ WakeLock
         \/ WakeScan \/ ForcePreemptUnlock \/ ForcePreemptLock \/ WakeUnlock
  PROVE  PlacesOK' /\ AllStay
<1>1. UNCHANGED <<simVars, current, cpuVars, rq, ioQueue, opIndex, procState,
                  processesCreated, supPcb, supReturn>>
  BY DEF SupLock, ReaderLock, ReaderUnlock, EventHandled, WakeLock, WakeScan,
         ForcePreemptUnlock, ForcePreemptLock, WakeUnlock
<1>2. \/ {supPc, supPc'} \cap WakeLabels = {}
      \/ supPc = "wakeLock" /\ supPc' = "wakeEnqueue"
      \/ {supPc, supPc'} \subseteq WakeLabels \ {"wakeLock", "wakeEnqueue"}
  BY DEF SupLock, ReaderLock, ReaderUnlock, EventHandled, WakeLock, WakeScan,
         ForcePreemptUnlock, ForcePreemptLock, WakeUnlock, SupGoto, WakeLabels
<1>3. \A c \in Cpus : Held(c)' = Held(c)
  BY <1>1 DEF Held
<1>4. processesCreated + 1 \in Procs \/ ~Arrived
  BY CreatingProcess DEF Arrived
<1>5. /\ Creating' <=> Creating
      /\ Arrived' <=> Arrived
      /\ \A p \in Procs : BeingWoken(p)' <=> BeingWoken(p)
  BY <1>1, <1>2, WakeSteps
<1> QED BY <1>1, <1>3, <1>4, <1>5, NothingMoves

\* The supervisor takes no process away from the CPU that it makes preempt
\* one: it is the handler that does.
LEMMA PreemptHolds ==
  ASSUME IInv, ThreadsOK, NEW n \in Cpus, cpuState[n] = "RUNNING",
         Dispatch(n, "PREEMPT"), UNCHANGED <<simCurrent, current, cpuPcb, cpuEvent>>
  PROVE  \A c \in Cpus : Held(c)' = Held(c)
<1>1. cpuState \in [Cpus -> CpuStates] /\ cpuPc \in [Cpus -> CpuLabels]
  BY DEF IInv, TypeOK, CpuTypeOK
<1>2. /\ cpuPc[n] \in {"runWait", "runWoken"}
      /\ cpuState' = [cpuState EXCEPT ![n] = "PREEMPT"]
      /\ cpuPc' = [cpuPc EXCEPT ![n] = "runWoken"]
  BY <1>1 DEF ThreadsOK, StateOfThread, Dispatch, SignalCpu
<1>3. /\ \A c \in Cpus : c # n => cpuState'[c] = cpuState[c] /\ cpuPc'[c] = cpuPc[c]
      /\ cpuState'[n] = "PREEMPT" /\ cpuPc'[n] = "runWoken"
  BY <1>1, <1>2
<1> QED BY <1>2, <1>3 DEF Held

LEMMA ForcePreemptCheckPlaces ==
  ASSUME IInv, ThreadsOK, PlacesOK, ForcePreemptCheck
  PROVE  PlacesOK' /\ AllStay
<1>1. /\ supN \in Cpus
      /\ UNCHANGED <<simCurrent, current, cpuPcb, cpuEvent, rq, ioQueue, opIndex,
                     procState, processesCreated, supPcb, supReturn>>
  BY DEF ForcePreemptCheck, IInv, SupervisorOK
<1>2. {supPc, supPc'} \subseteq WakeLabels \ {"wakeLock", "wakeEnqueue"}
  BY DEF ForcePreemptCheck, SupGoto, WakeLabels
<1>3. \A c \in Cpus : Held(c)' = Held(c)
  <2>1. CASE cpuState[supN] = "RUNNING"
    BY <1>1, <2>1, PreemptHolds DEF ForcePreemptCheck
  <2>2. CASE cpuState[supN] # "RUNNING"
    BY <1>1, <2>2 DEF ForcePreemptCheck, Held
  <2> QED BY <2>1, <2>2
<1>4. processesCreated + 1 \in Procs \/ ~Arrived
  BY CreatingProcess DEF Arrived
<1>5. /\ Creating' <=> Creating
      /\ Arrived' <=> Arrived
      /\ \A p \in Procs : BeingWoken(p)' <=> BeingWoken(p)
  BY <1>1, <1>2, WakeSteps
<1> QED BY <1>1, <1>3, <1>4, <1>5, NothingMoves

\* The steps of a CPU thread that leave every CPU what it holds.
LEMMA CpuHolds ==
  ASSUME IInv, ThreadsOK, NEW c \in Cpus,
         \/ LoopTop(c) \/ RunWoken(c) \/ CountTerminated(c) \/ EnterHandler(c)
         \/ Idle(c) \/ SetCurrent(c) \/ SwitchUnlock(c) \/ SwitchStore(c)
         \/ SwitchLock(c) \/ LeaveHandler(c)
  PROVE  \A d \in Cpus : Held(d)' = Held(d)
<1>1. /\ cpuPc \in [Cpus -> CpuLabels] /\ cpuPcb \in [Cpus -> Procs \cup {NULL}]
      /\ cpuState \in [Cpus -> CpuStates] /\ cpuEvent \in [Cpus -> CpuStates \ {"RUNNING"}]
      /\ simCurrent \in [Cpus -> Procs \cup {NULL}]
      /\ current \in [Cpus -> Procs \cup {NULL}]
      /\ procState \in [Procs -> ProcStates]
  BY DEF IInv, TypeOK, CpuTypeOK, ProcTypeOK
<1>2. \A d \in Cpus : d # c => /\ cpuPc'[d] = cpuPc[d] /\ cpuPcb'[d] = cpuPcb[d]
                               /\ cpuState'[d] = cpuState[d]
                               /\ cpuEvent'[d] = cpuEvent[d]
                               /\ simCurrent'[d] = simCurrent[d]
                               /\ current'[d] = current[d]
  BY <1>1 DEF LoopTop, RunWoken, CountTerminated, EnterHandler, Idle, SetCurrent,
              SwitchUnlock, SwitchStore, SwitchLock, LeaveHandler, CpuGoto
<1>3. \A d \in Cpus : d # c => Held(d)' = Held(d)
  BY <1>2 DEF Held
<1>4. Held(c)' = Held(c)
  <2>1. CASE LoopTop(c)
    BY <1>1, <2>1 DEF LoopTop, CpuGoto, Held
  <2>2. CASE RunWoken(c)
    <3>1. /\ cpuPc[c] = "runWoken" /\ cpuState[c] \in Events \cup {"RUNNING"}
          /\ current[c] = simCurrent[c]
          /\ UNCHANGED <<current, simCurrent, cpuState>>
      BY <1>1, <2>2 DEF RunWoken, ThreadsOK, SameCurrent, IInv, CpuThreadOK,
                        CpuStates, Events
    <3>2. CASE cpuState[c] = "RUNNING"
      BY <1>1, <2>2, <3>1, <3>2 DEF RunWoken, CpuGoto, Held
    <3>3. CASE cpuState[c] \in Events
      <4>1. cpuPc'[c] = HandlerEntry(cpuState[c]) /\ cpuEvent'[c] = cpuState[c]
        BY <1>1, <2>2, <3>3 DEF RunWoken, CpuGoto, Events
      <4> QED BY <3>1, <3>3, <4>1 DEF HandlerEntry, Held, Events
    <3> QED BY <3>1, <3>2, <3>3
  <2>3. CASE CountTerminated(c)
    BY <1>1, <2>3 DEF CountTerminated, CpuGoto, Held, ThreadsOK, StateOfThread
  <2>4. CASE EnterHandler(c) \/ Idle(c)
    BY <1>1, <2>4 DEF EnterHandler, Idle, CpuGoto, Held
  <2>5. CASE SetCurrent(c) \/ SwitchUnlock(c)
    BY <1>1, <2>5 DEF SetCurrent, SwitchUnlock, CpuGoto, Held
  <2>6. CASE SwitchStore(c) \/ SwitchLock(c) \/ LeaveHandler(c)
    BY <1>1, <2>6 DEF SwitchStore, SwitchLock, LeaveHandler, CpuGoto, Held
  <2> QED BY <2>1, <2>2, <2>3, <2>4, <2>5, <2>6
<1> QED BY <1>3, <1>4

\* They move no process.
LEMMA CpuPlaces ==
  ASSUME IInv, ThreadsOK, PlacesOK, NEW c \in Cpus,
         \/ LoopTop(c) \/ RunWoken(c) \/ CountTerminated(c) \/ EnterHandler(c)
         \/ Idle(c) \/ SetCurrent(c) \/ SwitchUnlock(c) \/ SwitchStore(c)
         \/ SwitchLock(c) \/ LeaveHandler(c)
  PROVE  PlacesOK' /\ AllStay
<1>1. cpuPcb \in [Cpus -> Procs \cup {NULL}] /\ procState \in [Procs -> ProcStates]
  BY DEF IInv, TypeOK, CpuTypeOK, ProcTypeOK
<1>2. /\ UNCHANGED <<rq, ioQueue, opIndex, processesCreated, supPcb, supReturn>>
      /\ \/ supPc' = supPc
         \/ {supPc, supPc'} \cap WakeLabels = {}
         \/ {supPc, supPc'} \subseteq WakeLabels \ {"wakeLock", "wakeEnqueue"}
  BY DEF LoopTop, RunWoken, CountTerminated, EnterHandler, Idle, SetCurrent,
         SwitchUnlock, SwitchStore, SwitchLock, LeaveHandler, SignalNoWriters,
         SignalSupervisor, WakeLabels
<1>3. \A p \in Procs : \/ procState'[p] = procState[p]
                       \/ ~New(p) /\ procState'[p] # "NEW"
  <2>1. CASE SetCurrent(c) /\ cpuPcb[c] # NULL
    <3>1. /\ Held(c) = cpuPcb[c] /\ cpuPcb[c] \in Procs
          /\ procState' = [procState EXCEPT ![cpuPcb[c]] = "RUNNING"]
      BY <1>1, <2>1 DEF SetCurrent, Held
    <3>2. ~New(cpuPcb[c])
      BY <3>1 DEF PlacesOK, EachPlaced, Alone, Placed, Running
    <3> QED BY <1>1, <3>1, <3>2
  <2>2. CASE ~(SetCurrent(c) /\ cpuPcb[c] # NULL)
    <3>1. procState' = procState
      BY <2>2 DEF LoopTop, RunWoken, CountTerminated, EnterHandler, Idle,
                  SetCurrent, SwitchUnlock, SwitchStore, SwitchLock, LeaveHandler
    <3> QED BY <3>1
  <2> QED BY <2>1, <2>2
<1>4. processesCreated + 1 \in Procs \/ ~Arrived
  BY CreatingProcess DEF Arrived
<1>5. /\ Creating' <=> Creating
      /\ Arrived' <=> Arrived
      /\ \A p \in Procs : BeingWoken(p)' <=> BeingWoken(p)
  BY <1>2, WakeSteps
<1>6. \A d \in Cpus : Held(d)' = Held(d)
  BY CpuHolds
<1> QED BY <1>2, <1>3, <1>4, <1>5, <1>6, NothingMoves

\* A broadcast changes what no CPU holds.
LEMMA BroadcastHolds ==
  ASSUME NEW pcs \in [Cpus -> CpuLabels], cpuPc' = BroadcastIdle(pcs),
         UNCHANGED <<simCurrent, current, cpuState, cpuPcb, cpuEvent>>,
         NEW c \in Cpus, pcs[c] = cpuPc[c]
  PROVE  Held(c)' = Held(c)
<1>1. cpuPc'[c] = cpuPc[c] \/ (cpuPc[c] = "idleWait" /\ cpuPc'[c] = "idle")
  BY BroadcastMoves
<1> QED BY <1>1 DEF Held

\* wake_up() puts its process in the ready queue.
LEMMA WakeEnqueuePlaces ==
  ASSUME IInv, IInv', PlacesOK, WakeEnqueue
  PROVE  /\ PlacesOK'
         /\ \E p \in Procs : /\ p = supPcb /\ BeingWoken(p) /\ Ready(p)'
                             /\ OnlyMoves(p)
<1>0. PICK p \in Procs : p = supPcb
  BY DEF WakeEnqueue, IInv, SupervisorOK, WakeLabels
<1>1. /\ UNCHANGED <<simVars, current, cpuPcb, cpuEvent, opIndex, ioQueue,
                     processesCreated, supPcb, supReturn>>
      /\ supPc = "wakeEnqueue" /\ supPc' \in {"wakeScan", "wakeUnlock"}
      /\ procState' = [procState EXCEPT ![p] = "READY"]
      /\ rq' = EnqueueReady(rq, p)
      /\ cpuPc' = BroadcastIdle(cpuPc)
  BY <1>0 DEF WakeEnqueue, SupGoto
<1>2. /\ BeingWoken(p)
      /\ procState \in [Procs -> ProcStates] /\ cpuPc \in [Cpus -> CpuLabels]
      /\ rq \in Queues /\ rq' \in Queues
  BY <1>0, <1>1 DEF IInv, TypeOK, CpuTypeOK, ProcTypeOK, QueueTypeOK, BeingWoken
<1>3. Alone(p) /\ Placed(p)
  BY <1>2 DEF PlacesOK, EachPlaced
<1>4. ~Ready(p) /\ ~Waiting(p) /\ ~Running(p) /\ ~Done(p)
  BY <1>2, <1>3 DEF Alone, Placed
<1>5. QueueOK' /\ \A q \in Procs : Ready(q)' <=> Ready(q) \/ q = p
  BY <1>1, <1>2, <1>4, Enqueued DEF PlacesOK
<1>6. \A c \in Cpus : Held(c)' = Held(c)
  BY <1>1, <1>2, BroadcastHolds
<1>7. \A q \in Procs : /\ Waiting(q)' <=> Waiting(q)
                       /\ Done(q)' <=> Done(q)
                       /\ Running(q)' <=> Running(q)
                       /\ ~BeingWoken(q)'
                       /\ q # p => ~BeingWoken(q)
  BY <1>0, <1>1, <1>6 DEF Waiting, Done, Running, BeingWoken
<1>8. /\ procState'[p] = "READY"
      /\ \A q \in Procs : q # p => procState'[q] = procState[q]
  BY <1>1, <1>2
<1>9. /\ ~New(p)'
      /\ \A q \in Procs : q # p => (New(q)' <=> New(q))
  BY <1>1, <1>8 DEF New
<1>10. OnlyMoves(p)
  BY <1>5, <1>6, <1>7, <1>9 DEF OnlyMoves, SamePlace
<1>11. Alone(p)' /\ Placed(p)'
  BY <1>2, <1>3, <1>4, <1>5, <1>6, <1>7, <1>9 DEF Alone, Placed
<1>12. EachPlaced'
  BY <1>10, <1>11, Stays DEF PlacesOK, OnlyMoves, EachPlaced
<1>13. CreatedInOrder'
  <2>1. /\ Creating' <=> Creating
        /\ Arrived' <=> Creating
        /\ ~Arrived
    BY <1>1 DEF Creating, Arrived, WakeLabels
  <2>2. Creating => p = processesCreated + 1
    BY <1>0 DEF PlacesOK, CreatedInOrder
  <2>3. p > processesCreated /\ ~Creating => FALSE
    <3>1. ~Creating => ~New(p)
      BY <1>2 DEF PlacesOK, CreatedInOrder
    <3> QED BY <2>1, <3>1 DEF PlacesOK, CreatedInOrder, New
  <2> QED BY <1>0, <1>1, <1>2, <1>4, <1>7, <1>8, <1>9, <2>1, <2>2, <2>3
          DEF PlacesOK, CreatedInOrder
<1> QED BY <1>0, <1>2, <1>5, <1>10, <1>12, <1>13 DEF PlacesOK

\* wake_up() returns: a process that has been created is counted.
LEMMA WakeReturnPlaces ==
  ASSUME IInv, PlacesOK, WakeReturn
  PROVE  PlacesOK' /\ AllStay
<1>1. /\ UNCHANGED <<simVars, current, cpuVars, opIndex, ioQueue, rq, procState>>
      /\ supPc = "wakeReturn" /\ supPc' \in {"creat", "sleep"}
      /\ processesCreated' = IF supReturn = "sleep" THEN processesCreated + 1
                                                    ELSE processesCreated
      /\ processesCreated \in 0 .. ProcessCount
  BY DEF WakeReturn, SupGoto, IInv, TypeOK, CountTypeOK, SupTypeOK
<1>2. /\ Arrived <=> supReturn = "sleep"
      /\ ~Creating' /\ ~Arrived'
      /\ \A q \in Procs : ~BeingWoken(q) /\ ~BeingWoken(q)'
  BY <1>1 DEF Creating, Arrived, BeingWoken, WakeLabels
<1>3. \A q \in Procs : /\ Ready(q)' <=> Ready(q)
                       /\ Waiting(q)' <=> Waiting(q)
                       /\ Done(q)' <=> Done(q)
                       /\ \A c \in Cpus : Held(c)' = Held(c)
  BY <1>1 DEF Ready, Waiting, Done, Held
<1>4. \A q \in Procs : New(q)' <=> New(q)
  <2>1. Arrived => procState[processesCreated + 1] # "NEW"
    BY DEF PlacesOK, CreatedInOrder
  <2>2. \A q \in Procs : q \in Nat
    BY ProcessCountAssumption DEF Procs
  <2> QED BY <1>1, <1>2, <2>1, <2>2 DEF New
<1>5. AllStay
  BY <1>2, <1>3, <1>4 DEF AllStay, SamePlace
<1>6. CreatedInOrder'
  <2>1. \A q \in Procs : q > processesCreated'
                           => /\ q > processesCreated
                              /\ ~(Arrived /\ q = processesCreated + 1)
    <3>1. \A q \in Procs : q \in Nat
      BY ProcessCountAssumption DEF Procs
    <3> QED BY <1>1, <1>2, <3>1
  <2> QED BY <1>1, <1>2, <1>3, <1>4, <2>1 DEF PlacesOK, CreatedInOrder
<1>7. QueueOK'
  BY <1>1 DEF PlacesOK, QueueOK
<1> QED BY <1>5, <1>6, <1>7, Stays DEF PlacesOK, AllStay, EachPlaced

\* simulate_creat(): the next process is in the hands of wake_up().
LEMMA SimulateCreatPlaces ==
  ASSUME IInv, IInv', PlacesOK, SimulateCreat
  PROVE  /\ PlacesOK'
         /\ \/ AllStay
            \/ \E p \in Procs : /\ New(p) /\ New(p)' /\ OnlyMoves(p)
<1>1. /\ UNCHANGED <<simVars, current, cpuVars, opIndex, ioQueue, rq, procState,
                     processesCreated>>
      /\ supPc = "creat"
      /\ processesCreated \in 0 .. ProcessCount
  BY DEF SimulateCreat, IInv, TypeOK, CountTypeOK
<1>2. CASE supPc' = "sleep" /\ UNCHANGED <<supPcb, supReturn>>
  <2>1. \A c \in Cpus : Held(c)' = Held(c)
    BY <1>1 DEF Held
  <2>2. /\ ~Creating /\ ~Arrived /\ ~Creating' /\ ~Arrived'
        /\ \A p \in Procs : BeingWoken(p)' <=> BeingWoken(p)
    BY <1>1, <1>2 DEF Creating, Arrived, BeingWoken, WakeLabels
  <2> QED BY <1>1, <2>1, <2>2, NothingMoves
<1>3. CASE ~(supPc' = "sleep" /\ UNCHANGED <<supPcb, supReturn>>)
  <2>0. PICK p \in Procs : p = processesCreated + 1
    <3>1. processesCreated < ProcessCount
      BY <1>3 DEF SimulateCreat, SupGoto
    <3> QED BY <1>1, <3>1, ProcessCountAssumption DEF Procs
  <2>1. /\ supPcb' = p /\ supReturn' = "sleep" /\ supPc' = "wakeLock"
        /\ processesCreated < ProcessCount
    BY <1>3, <2>0 DEF SimulateCreat, SupGoto
  <2>2. p \in Procs /\ p > processesCreated
    BY <1>1, <2>0
  <2>3. /\ Creating' /\ ~Arrived' /\ ~Creating /\ ~Arrived
        /\ \A q \in Procs : ~BeingWoken(q) /\ (BeingWoken(q)' <=> q = p)
    BY <1>1, <2>1 DEF Creating, Arrived, BeingWoken, WakeLabels
  <2>4. procState[p] = "NEW" /\ New(p) /\ ~Done(p)
    BY <2>2, <2>3 DEF PlacesOK, CreatedInOrder, New
  <2>5. \A q \in Procs : /\ Ready(q)' <=> Ready(q)
                         /\ Waiting(q)' <=> Waiting(q)
                         /\ Done(q)' <=> Done(q)
                         /\ New(q)' <=> New(q)
                         /\ Running(q)' <=> Running(q)
                         /\ \A c \in Cpus : Held(c)' = Held(c)
    BY <1>1 DEF Ready, Waiting, Done, New, Running, Held
  <2>6. CreatedInOrder'
    BY <1>1, <2>0, <2>1, <2>3, <2>5 DEF PlacesOK, CreatedInOrder
  <2>7. QueueOK'
    BY <1>1 DEF PlacesOK, QueueOK
  <2>8. OnlyMoves(p)
    BY <2>3, <2>5 DEF OnlyMoves, SamePlace
  <2>9. Alone(p)' /\ Placed(p)'
    <3>1. Alone(p) /\ Placed(p)
      BY <2>2 DEF PlacesOK, EachPlaced
    <3> QED BY <2>2, <2>3, <2>4, <2>5, <3>1 DEF Alone, Placed
  <2>10. EachPlaced'
    BY <2>2, <2>8, <2>9, Stays DEF PlacesOK, OnlyMoves, EachPlaced
  <2> QED BY <2>2, <2>4, <2>5, <2>6, <2>7, <2>8, <2>10 DEF PlacesOK
<1> QED BY <1>2, <1>3

\* preempt() puts its process back in the ready queue; yield() and
\* terminate() have none any more.
LEMMA HandlerPlaces ==
  ASSUME IInv, IInv', ThreadsOK, PlacesOK, NEW c \in Cpus, Handler(c)
  PROVE  /\ PlacesOK'
         /\ IF current[c] # NULL /\ cpuEvent[c] = "PREEMPT"
            THEN \E p \in Procs : /\ p = current[c] /\ Held(c) = p /\ Ready(p)'
                                 /\ OnlyMoves(p)
            ELSE AllStay
<1>1. /\ UNCHANGED <<simCurrent, cpuState, current, cpuPcb, cpuEvent, opIndex,
                     ioQueue, processesCreated, supPc, supPcb, supReturn>>
      /\ cpuPc[c] = "handler"
      /\ cpuPc \in [Cpus -> CpuLabels] /\ cpuEvent[c] \in Events
      /\ procState \in [Procs -> ProcStates]
      /\ current[c] \in Procs \cup {NULL}
      /\ rq \in Queues /\ rq' \in Queues
  BY DEF Handler, IInv, TypeOK, CpuTypeOK, ProcTypeOK, QueueTypeOK, CpuThreadOK,
         CpuStates, Events
<1>2. /\ Creating' <=> Creating
      /\ Arrived' <=> Arrived
      /\ \A q \in Procs : BeingWoken(q)' <=> BeingWoken(q)
      /\ processesCreated + 1 \in Procs \/ ~Arrived
  BY <1>1, WakeSteps, CreatingProcess DEF Arrived
<1>3. CASE current[c] = NULL
  <2>1. UNCHANGED <<procState, rq, cpuPc>>
    BY <1>3 DEF Handler
  <2>2. \A d \in Cpus : Held(d)' = Held(d)
    BY <1>1, <2>1 DEF Held
  <2> QED BY <1>1, <1>2, <1>3, <2>1, <2>2, NothingMoves
<1>4. CASE current[c] # NULL
  <2>0. PICK p \in Procs : p = current[c]
    BY <1>1, <1>4
  <2>1. procState' = [procState EXCEPT ![p] = HandlerState[cpuEvent[c]]]
    BY <1>4, <2>0 DEF Handler
  <2>2. HandlerState[cpuEvent[c]] # "NEW"
    BY <1>1 DEF HandlerState, Events
  <2>3. procState[p] # "NEW" /\ ~New(p)
    BY <1>4, <2>0 DEF ThreadsOK, SameCurrent, New
  <2>4. \A q \in Procs : procState'[q] = procState[q]
                         \/ (~New(q) /\ procState'[q] # "NEW")
    BY <1>1, <2>1, <2>2, <2>3
  <2>5. CASE ~Requeues(cpuEvent[c])
    <3>1. cpuPc' = [cpuPc EXCEPT ![c] = "dequeue"] /\ UNCHANGED rq
      BY <1>4, <2>5 DEF Handler, CpuGoto
    <3>2. \A d \in Cpus : Held(d)' = Held(d)
      <4>1. \A d \in Cpus : d # c => cpuPc'[d] = cpuPc[d]
        BY <1>1, <3>1
      <4>2. cpuPc'[c] = "dequeue" /\ cpuEvent[c] # "PREEMPT"
        BY <1>1, <2>5, <3>1 DEF Requeues
      <4> QED BY <1>1, <4>1, <4>2 DEF Held
    <3> QED BY <1>1, <1>2, <2>4, <2>5, <3>1, <3>2, NothingMoves DEF Requeues
  <2>6. CASE Requeues(cpuEvent[c])
    <3>1. /\ cpuPc' = BroadcastIdle([cpuPc EXCEPT ![c] = "dequeue"])
          /\ rq' = EnqueueReady(rq, p)
          /\ cpuEvent[c] = "PREEMPT"
      BY <1>4, <2>0, <2>6 DEF Handler, Requeues
    <3>2. Held(c) = p
      BY <1>1, <2>0, <3>1 DEF Held
    <3>3. /\ Alone(p) /\ Placed(p) /\ Running(p)
          /\ \A d \in Cpus : d # c => Held(d) # p
      BY <3>2 DEF PlacesOK, EachPlaced, Alone, Running
    <3>4. ~Ready(p) /\ ~Waiting(p) /\ ~BeingWoken(p) /\ ~Done(p)
      BY <3>3 DEF Alone, Placed
    <3>5. QueueOK' /\ \A q \in Procs : Ready(q)' <=> Ready(q) \/ q = p
      BY <1>1, <3>1, <3>4, Enqueued DEF PlacesOK
    <3>6. /\ \A d \in Cpus : d # c => Held(d)' = Held(d)
          /\ Held(c)' = NULL
      <4>1. [cpuPc EXCEPT ![c] = "dequeue"] \in [Cpus -> CpuLabels]
        BY <1>1 DEF CpuLabels
      <4>2. /\ \A d \in Cpus : d # c => [cpuPc EXCEPT ![c] = "dequeue"][d] = cpuPc[d]
            /\ [cpuPc EXCEPT ![c] = "dequeue"][c] = "dequeue"
        BY <1>1
      <4>3. \A d \in Cpus : d # c => Held(d)' = Held(d)
        BY <1>1, <3>1, <4>1, <4>2, BroadcastHolds
      <4>4. cpuPc'[c] = "dequeue"
        BY <3>1, <4>1, <4>2, BroadcastMoves
      <4> QED BY <4>3, <4>4 DEF Held
    <3>7. /\ p # NULL
          /\ \A q \in Procs : /\ Waiting(q)' <=> Waiting(q)
                              /\ Done(q)' <=> Done(q)
                              /\ New(q)' <=> New(q)
      <4>1. p # NULL
        BY ProcessCountAssumption DEF Procs, NULL
      <4> QED BY <1>1, <2>4, <4>1 DEF Waiting, Done, New
    <3>8. OnlyMoves(p)
      <4>1. \A q \in Procs : q # NULL
        BY ProcessCountAssumption DEF Procs, NULL
      <4>2. \A q \in Procs \ {p}, d \in Cpus : Held(d)' = q <=> Held(d) = q
        BY <3>2, <3>6, <4>1
      <4> QED BY <1>2, <3>5, <3>7, <4>2 DEF OnlyMoves, SamePlace
    <3>9. Alone(p)' /\ Placed(p)'
      <4>1. ~Running(p)' /\ \A d \in Cpus : Held(d)' # p
        BY <3>3, <3>6, <3>7 DEF Running
      <4> QED BY <1>2, <2>3, <3>4, <3>5, <3>7, <4>1 DEF Alone, Placed
    <3>10. EachPlaced'
      BY <3>8, <3>9, Stays DEF PlacesOK, OnlyMoves, EachPlaced
    <3>11. CreatedInOrder'
      BY <1>1, <1>2, <2>4, <3>7 DEF PlacesOK, CreatedInOrder, New
    <3> QED BY <1>4, <2>0, <3>1, <3>2, <3>5, <3>8, <3>10, <3>11 DEF PlacesOK
  <2> QED BY <2>5, <2>6
<1> QED BY <1>3, <1>4

\* schedule() takes the process at the head of the ready queue.
LEMMA DequeuePlaces ==
  ASSUME IInv, IInv', PlacesOK, NEW c \in Cpus, Dequeue(c)
  PROVE  /\ PlacesOK'
         /\ \/ AllStay
            \/ \E p \in Procs : Ready(p) /\ Held(c)' = p /\ OnlyMoves(p)
<1>1. /\ UNCHANGED <<simCurrent, cpuState, current, cpuEvent, opIndex, ioQueue,
                     processesCreated, procState, supPc, supPcb, supReturn>>
      /\ cpuPc[c] = "dequeue"
      /\ cpuPc \in [Cpus -> CpuLabels] /\ cpuPcb \in [Cpus -> Procs \cup {NULL}]
      /\ rq \in Queues /\ rq' \in Queues
  BY DEF Dequeue, IInv, TypeOK, CpuTypeOK, QueueTypeOK
<1>2. /\ Creating' <=> Creating
      /\ Arrived' <=> Arrived
      /\ \A q \in Procs : BeingWoken(q)' <=> BeingWoken(q)
  BY <1>1, WakeSteps
<1>3. PICK r : r = DequeueResult(rq)
  OBVIOUS
<1>4. /\ ~DequeueCrashes(rq)
      /\ r # NULL => r \in Procs /\ Ready(r)
  BY <1>1, <1>3, Dequeued DEF PlacesOK
<1>5. /\ rq' = DequeueReady(rq)
      /\ cpuPcb' = [cpuPcb EXCEPT ![c] = r]
      /\ cpuPc' = [cpuPc EXCEPT ![c] = "setCurrent"]
  BY <1>3, <1>4 DEF Dequeue, CpuGoto
<1>6. QueueOK' /\ \A q \in Procs : Ready(q)' <=> Ready(q) /\ q # r
  BY <1>1, <1>3, <1>5, Dequeued DEF PlacesOK
<1>7. /\ Held(c) = NULL /\ Held(c)' = r
      /\ \A d \in Cpus : d # c => Held(d)' = Held(d)
  <2>1. /\ cpuPc'[c] = "setCurrent" /\ cpuPcb'[c] = r
        /\ \A d \in Cpus : d # c => cpuPc'[d] = cpuPc[d] /\ cpuPcb'[d] = cpuPcb[d]
    BY <1>1, <1>5
  <2> QED BY <1>1, <2>1 DEF Held
<1>8. \A q \in Procs : /\ Waiting(q)' <=> Waiting(q)
                       /\ Done(q)' <=> Done(q)
                       /\ New(q)' <=> New(q)
                       /\ q # NULL
  <2>1. \A q \in Procs : q # NULL
    BY ProcessCountAssumption DEF Procs, NULL
  <2> QED BY <1>1, <2>1 DEF Waiting, Done, New
<1>9. \A q \in Procs : q # r => SamePlace(q)
  <2> TAKE q \in Procs
  <2> HAVE q # r
  <2>1. \A d \in Cpus : Held(d)' = q <=> Held(d) = q
    BY <1>7, <1>8
  <2> QED BY <1>2, <1>6, <1>8, <2>1 DEF SamePlace
<1>10. EachPlaced'
  <2> SUFFICES ASSUME NEW q \in Procs PROVE Alone(q)' /\ Placed(q)'
    BY DEF EachPlaced
  <2>1. CASE q = r
    <3>1. Alone(q) /\ Placed(q)
      BY DEF PlacesOK, EachPlaced
    <3>2. /\ Ready(q) /\ ~Ready(q)' /\ Running(q)'
          /\ \A d \in Cpus : Held(d)' = q <=> d = c
      BY <1>4, <1>6, <1>7, <1>8, <2>1, <3>1 DEF Alone, Running
    <3> QED BY <1>2, <1>8, <3>1, <3>2 DEF Alone, Placed
  <2>2. CASE q # r
    BY <1>9, <2>2, Stays DEF PlacesOK
  <2> QED BY <2>1, <2>2
<1>11. CreatedInOrder'
  BY <1>1, <1>2, <1>8 DEF PlacesOK, CreatedInOrder
<1>12. AllStay \/ \E p \in Procs : Ready(p) /\ Held(c)' = p /\ OnlyMoves(p)
  BY <1>4, <1>7, <1>8, <1>9 DEF AllStay, OnlyMoves
<1> QED BY <1>6, <1>10, <1>11, <1>12 DEF PlacesOK

\* What each operation of a program leads to: after I/O comes a CPU burst,
\* and after a CPU burst I/O or the end.
LEMMA Alternates ==
  ASSUME IInv, NEW p \in Procs
  PROVE  /\ Program[p][opIndex[p]].type = "IO" => Program[p][opIndex[p] + 1].type = "CPU"
         /\ Program[p][opIndex[p]].type = "CPU"
              => Program[p][opIndex[p] + 1].type \in {"IO", "TERMINATE"}
<1>1. /\ opIndex[p] \in 1 .. Len(Program[p])
      /\ Program[p][opIndex[p]].type # "TERMINATE"
           => /\ opIndex[p] + 1 \in 1 .. Len(Program[p])
              /\ Program[p][opIndex[p] + 1] \in Ops
  BY ProcessFacts
<1>2. \A i \in 1 .. Len(Program[p]) :
        Program[p][i].type = "CPU" <=> i % 2 = 1
  BY ProgramAssumption
<1>3. \A o \in Ops : o.type \in OpTypes
  BY DEF Ops
<1> DEFINE i == opIndex[p]
<1>4. i \in Nat
  BY <1>1
<1> HIDE DEF i
<1>5. (i % 2 = 1) <=> ~((i + 1) % 2 = 1)
  BY <1>4
<1>6. Program[p][i].type # "TERMINATE"
        => (Program[p][i].type = "CPU" <=> Program[p][i + 1].type # "CPU")
  BY <1>1, <1>2, <1>5 DEF i
<1> QED BY <1>1, <1>3, <1>6 DEF OpTypes, i

\* simulate_io() hands the process of the request that is over to wake_up().
LEMMA SimulateIoPlaces ==
  ASSUME IInv, PlacesOK, SimulateIo
  PROVE  /\ PlacesOK'
         /\ \/ AllStay
            \/ \E p \in Procs : /\ Waiting(p) /\ BeingWoken(p)' /\ ~New(p)'
                                /\ OnlyMoves(p)
<1>1. /\ UNCHANGED <<simVars, current, cpuVars, rq, procState, processesCreated>>
      /\ supPc = "io"
      /\ ioQueue \in Requests
      /\ opIndex \in [Procs -> Nat]
  BY DEF SimulateIo, IInv, TypeOK, ProcTypeOK, Requests
<1>2. /\ ~Creating /\ ~Arrived
      /\ \A q \in Procs : ~BeingWoken(q)
  BY <1>1 DEF Creating, Arrived, BeingWoken, WakeLabels
<1>3. \A c \in Cpus : Held(c)' = Held(c)
  BY <1>1 DEF Held
<1>4. QueueOK' /\ \A q \in Procs : Ready(q)' <=> Ready(q)
  BY <1>1 DEF PlacesOK, QueueOK, Ready
<1>5. CASE supPc' = "creat"
  <2>1. /\ UNCHANGED <<opIndex, supPcb, supReturn>>
        /\ \A q \in Procs : Waiting(q)' <=> Waiting(q)
    <3>1. CASE ioQueue = << >>
      BY <3>1 DEF SimulateIo, Waiting
    <3>2. CASE ioQueue # << >> /\ Head(ioQueue).time > 0
      <4>1. /\ ioQueue' = [ioQueue EXCEPT ![1].time = @ - 1]
            /\ UNCHANGED <<opIndex, supPcb, supReturn>>
        BY <3>2 DEF SimulateIo
      <4>2. /\ Len(ioQueue') = Len(ioQueue)
            /\ \A i \in 1 .. Len(ioQueue) : ioQueue'[i].pcb = ioQueue[i].pcb
        BY <1>1, <3>2, <4>1, RequestCountdown
      <4> QED BY <4>1, <4>2 DEF Waiting
    <3> QED BY <1>5, <3>1, <3>2 DEF SimulateIo, SupGoto
  <2>2. /\ ~Creating' /\ ~Arrived'
        /\ \A q \in Procs : ~BeingWoken(q)'
        /\ \A q \in Procs : Done(q)' <=> Done(q)
        /\ \A q \in Procs : New(q)' <=> New(q)
    BY <1>1, <1>5, <2>1 DEF Creating, Arrived, BeingWoken, WakeLabels, Done, New
  <2>3. AllStay
    BY <1>2, <1>3, <1>4, <2>1, <2>2 DEF AllStay, SamePlace
  <2>4. CreatedInOrder'
    BY <1>1, <1>2, <2>1, <2>2 DEF PlacesOK, CreatedInOrder
  <2> QED BY <1>4, <2>3, <2>4, Stays DEF PlacesOK, AllStay, EachPlaced
<1>6. CASE supPc' # "creat"
  <2>0. ioQueue # << >> /\ ~(Head(ioQueue).time > 0)
    BY <1>6 DEF SimulateIo, SupGoto
  <2>1. PICK p \in Procs : p = Head(ioQueue).pcb /\ p = ioQueue[1].pcb
    BY <1>1, <2>0, RequestFacts
  <2>2. /\ opIndex' = [opIndex EXCEPT ![p] = opIndex[p] + 1]
        /\ ioQueue' = Tail(ioQueue)
        /\ supPcb' = p /\ supReturn' = "creat" /\ supPc' = "wakeLock"
    BY <2>0, <2>1 DEF SimulateIo, SupGoto
  <2>3. /\ 1 \in 1 .. Len(ioQueue) /\ Len(ioQueue) \in Nat
        /\ Len(ioQueue') = Len(ioQueue) - 1
        /\ \A i \in 1 .. Len(ioQueue) - 1 : ioQueue'[i] = ioQueue[i+1]
    BY <1>1, <2>0, <2>2, RequestFacts
  <2>4. Waiting(p) /\ Program[p][opIndex[p]].type = "IO"
    BY <2>1, <2>3 DEF Waiting, IInv, OneRequestPerProcess
  <2>5. \A q \in Procs : Waiting(q)' <=> Waiting(q) /\ q # p
    <3> TAKE q \in Procs
    <3>1. ASSUME NEW i \in 1 .. Len(ioQueue) - 1, ioQueue'[i].pcb = q
          PROVE  Waiting(q) /\ q # p
      <4>1. /\ i + 1 \in 1 .. Len(ioQueue) /\ i + 1 # 1
            /\ ioQueue[i + 1].pcb = q
        BY <2>3, <3>1
      <4>2. q # p
        BY <2>1, <2>3, <4>1 DEF IInv, OneRequestPerProcess
      <4> QED BY <4>1, <4>2 DEF Waiting
    <3>2. ASSUME NEW j \in 1 .. Len(ioQueue), ioQueue[j].pcb = q, q # p
          PROVE  \E i \in 1 .. Len(ioQueue) - 1 : ioQueue'[i].pcb = q
      <4>1. j # 1
        BY <2>1, <3>2
      <4>2. j - 1 \in 1 .. Len(ioQueue) - 1 /\ (j - 1) + 1 = j
        BY <2>3, <4>1
      <4>3. ioQueue'[j - 1] = ioQueue[j]
        BY <2>3, <4>2
      <4> QED BY <3>2, <4>2, <4>3
    <3>3. Waiting(q)' <=> \E i \in 1 .. Len(ioQueue) - 1 : ioQueue'[i].pcb = q
      BY <2>3 DEF Waiting
    <3> QED BY <3>1, <3>2, <3>3 DEF Waiting
  <2>6. /\ Alone(p) /\ Placed(p) /\ ~New(p)
        /\ ~Ready(p) /\ ~Running(p)
    BY <1>2, <2>4 DEF PlacesOK, EachPlaced, Alone, Placed
  <2>7. /\ ~Creating' /\ ~Arrived'
        /\ \A q \in Procs : BeingWoken(q)' <=> q = p
        /\ \A q \in Procs : New(q)' <=> New(q)
        /\ \A q \in Procs : Running(q)' <=> Running(q)
    BY <1>1, <1>3, <2>2 DEF Creating, Arrived, BeingWoken, New, Running
  <2>8. /\ ~Done(p)'
        /\ \A q \in Procs : q # p => (Done(q)' <=> Done(q))
    <3>1. /\ opIndex'[p] = opIndex[p] + 1
          /\ \A q \in Procs : q # p => opIndex'[q] = opIndex[q]
      BY <1>1, <2>2
    <3> QED BY <2>4, <3>1, Alternates DEF Done
  <2>9. OnlyMoves(p)
    BY <1>2, <1>3, <1>4, <2>5, <2>7, <2>8 DEF OnlyMoves, SamePlace
  <2>10. Alone(p)' /\ Placed(p)'
    BY <1>3, <1>4, <2>5, <2>6, <2>7, <2>8 DEF Alone, Placed
  <2>11. EachPlaced'
    BY <2>9, <2>10, Stays DEF PlacesOK, OnlyMoves, EachPlaced
  <2>12. CreatedInOrder'
    BY <1>1, <1>2, <2>6, <2>7, <2>8 DEF PlacesOK, CreatedInOrder
  <2> QED BY <1>4, <2>4, <2>6, <2>7, <2>9, <2>11, <2>12 DEF PlacesOK
<1> QED BY <1>5, <1>6

\* A CPU whose process has reached I/O or its end gives it up.
LEMMA NextOperationPlaces ==
  ASSUME ~Overtakes, IInv, ThreadsOK, PlacesOK, SimulateCpus,
         NEW n \in Cpus, n = supN, simCurrent[n] # NULL,
         NEW p \in Procs, p = simCurrent[n],
         Program[p][opIndex[p]].type = "CPU",
         NextOperation(n, p)
  PROVE  /\ PlacesOK'
         /\ Held(n) = p /\ OnlyMoves(p)
         /\ \/ cpuState'[n] = "YIELD" /\ Waiting(p)'
            \/ cpuState'[n] = "TERMINATE" /\ Done(p)'
<1> DEFINE op == Program[p][opIndex[p] + 1]
<1>1. /\ UNCHANGED <<simCurrent, current, rq, procState, processesCreated, cpuPcb,
                     cpuEvent, supPcb, supReturn>>
      /\ supPc = "cpus"
      /\ ioQueue \in Requests /\ opIndex \in [Procs -> Nat]
      /\ cpuPc \in [Cpus -> CpuLabels] /\ cpuState \in [Cpus -> CpuStates]
  BY DEF SimulateCpus, IInv, TypeOK, ProcTypeOK, CpuTypeOK, Requests
<1>2. op.type \in {"IO", "TERMINATE"} /\ op.time \in Nat
  BY Alternates, ProcessFacts
<1>3. /\ opIndex' = [opIndex EXCEPT ![p] = opIndex[p] + 1]
      /\ ioQueue' = SubmitIoRequest(p, op)
      /\ Dispatch(n, IF op.type = "IO" THEN "YIELD" ELSE "TERMINATE")
      /\ supPc' = "eventWait"
  BY <1>2 DEF NextOperation, SupGoto
<1>4. /\ cpuState[n] = "RUNNING" /\ cpuPc[n] \in {"runWait", "runWoken"}
      /\ Held(n) = p
  BY <1>3, PostedInTime, CpuRuns
<1>5. /\ cpuState'[n] = (IF op.type = "IO" THEN "YIELD" ELSE "TERMINATE")
      /\ cpuPc'[n] = "runWoken"
      /\ \A c \in Cpus : c # n => cpuState'[c] = cpuState[c] /\ cpuPc'[c] = cpuPc[c]
  BY <1>1, <1>3, <1>4 DEF Dispatch, SignalCpu
<1>6. Held(n)' = NULL /\ \A c \in Cpus : c # n => Held(c)' = Held(c)
  BY <1>1, <1>5 DEF Held
<1>7. /\ Alone(p) /\ Placed(p) /\ Running(p)
      /\ \A c \in Cpus : c # n => Held(c) # p
  BY <1>4 DEF PlacesOK, EachPlaced, Alone, Running
<1>8. /\ ~Creating /\ ~Arrived /\ ~Creating' /\ ~Arrived'
      /\ \A q \in Procs : ~BeingWoken(q) /\ ~BeingWoken(q)'
      /\ \A q \in Procs : New(q)' <=> New(q)
  BY <1>1, <1>3 DEF Creating, Arrived, BeingWoken, WakeLabels, New
<1>9. ~Ready(p) /\ ~Waiting(p) /\ ~New(p)
  BY <1>7, <1>8 DEF Alone, Placed
<1>10. QueueOK' /\ \A q \in Procs : Ready(q)' <=> Ready(q)
  BY <1>1 DEF PlacesOK, QueueOK, Ready
<1>11. /\ Done(p)' <=> op.type = "TERMINATE"
       /\ \A q \in Procs : q # p => (Done(q)' <=> Done(q))
  <2>1. /\ opIndex'[p] = opIndex[p] + 1
        /\ \A q \in Procs : q # p => opIndex'[q] = opIndex[q]
    BY <1>1, <1>3
  <2> QED BY <2>1 DEF Done
<1>12. \A q \in Procs : Waiting(q)' <=> Waiting(q) \/ (q = p /\ op.type = "IO")
  <2>1. CASE op.type # "IO"
    BY <1>3, <2>1 DEF SubmitIoRequest, Waiting
  <2>2. CASE op.type = "IO"
    <3>1. ioQueue' = Append(ioQueue, [pcb |-> p, time |-> op.time])
      BY <1>3, <2>2 DEF SubmitIoRequest
    <3>2. [pcb |-> p, time |-> op.time] \in [pcb : Procs, time : Nat]
      BY <1>2
    <3> HIDE DEF op
    <3>3. /\ Len(ioQueue) \in Nat
          /\ Len(ioQueue') = Len(ioQueue) + 1
          /\ \A i \in 1 .. Len(ioQueue) : ioQueue'[i] = ioQueue[i]
          /\ ioQueue'[Len(ioQueue) + 1].pcb = p
      BY <1>1, <3>1, <3>2, RequestFacts
    <3>4. ASSUME NEW q \in Procs, NEW i \in 1 .. Len(ioQueue) + 1, ioQueue'[i].pcb = q
          PROVE  Waiting(q) \/ q = p
      <4>1. i \in 1 .. Len(ioQueue) \/ i = Len(ioQueue) + 1
        BY <3>3
      <4> QED BY <3>3, <3>4, <4>1 DEF Waiting
    <3>5. ASSUME NEW q \in Procs, Waiting(q)
          PROVE  Waiting(q)'
      <4>1. PICK i \in 1 .. Len(ioQueue) : ioQueue[i].pcb = q
        BY <3>5 DEF Waiting
      <4>2. i \in 1 .. Len(ioQueue')
        BY <3>3
      <4> QED BY <3>3, <4>1, <4>2 DEF Waiting
    <3>6. Waiting(p)'
      <4>1. Len(ioQueue) + 1 \in 1 .. Len(ioQueue')
        BY <3>3
      <4> QED BY <3>3, <4>1 DEF Waiting
    <3> QED BY <2>2, <3>3, <3>4, <3>5, <3>6 DEF Waiting
  <2> QED BY <2>1, <2>2
<1>13. \A q \in Procs : q # NULL
  BY ProcessCountAssumption DEF Procs, NULL
<1> HIDE DEF op
<1>14. OnlyMoves(p)
  <2>1. \A q \in Procs \ {p}, c \in Cpus : Held(c)' = q <=> Held(c) = q
    BY <1>4, <1>6, <1>13
  <2> QED BY <1>8, <1>10, <1>11, <1>12, <2>1 DEF OnlyMoves, SamePlace
<1>15. Alone(p)' /\ Placed(p)'
  <2>1. ~Running(p)' /\ \A c \in Cpus : Held(c)' # p
    BY <1>6, <1>7, <1>13 DEF Running
  <2> QED BY <1>2, <1>8, <1>9, <1>10, <1>11, <1>12, <2>1 DEF Alone, Placed
<1>16. EachPlaced'
  BY <1>14, <1>15, Stays DEF PlacesOK, OnlyMoves, EachPlaced
<1>17. CreatedInOrder'
  BY <1>1, <1>8, <1>9, <1>11 DEF PlacesOK, CreatedInOrder
<1> QED BY <1>2, <1>4, <1>5, <1>10, <1>11, <1>12, <1>14, <1>16, <1>17 DEF PlacesOK

LEMMA SimulateCpusPlaces ==
  ASSUME ~Overtakes, IInv, ThreadsOK, PlacesOK, SimulateCpus
  PROVE  /\ PlacesOK'
         /\ \/ AllStay
            \/ \E p \in Procs : /\ Running(p) /\ (Waiting(p)' \/ Done(p)')
                                /\ OnlyMoves(p)
<1>1. /\ UNCHANGED <<simCurrent, current, rq, procState, processesCreated, cpuPcb,
                     cpuEvent, supPcb, supReturn>>
      /\ supPc = "cpus" /\ supPc \notin WakeLabels
  BY DEF SimulateCpus, WakeLabels
<1>2. ASSUME UNCHANGED <<ioQueue, opIndex>>, supPc' \notin WakeLabels,
             \A c \in Cpus : Held(c)' = Held(c)
      PROVE  PlacesOK' /\ AllStay
  <2>1. /\ Creating' <=> Creating
        /\ Arrived' <=> Arrived
        /\ ~Arrived
        /\ \A p \in Procs : BeingWoken(p)' <=> BeingWoken(p)
    BY <1>1, <1>2 DEF Creating, Arrived, BeingWoken, WakeLabels
  <2> QED BY <1>1, <1>2, <2>1, NothingMoves
<1>3. CASE UNCHANGED <<cpuState, ioQueue, opIndex, cpuPc>> /\ supPc' \in {"cpus", "io"}
  BY <1>1, <1>2, <1>3 DEF Held, WakeLabels
<1>4. CASE supN \in Cpus /\ simCurrent[supN] # NULL /\ RunBurst(supN, simCurrent[supN])
  <2>1. UNCHANGED <<ioQueue, opIndex>> /\ supPc' \in {"eventWait", "cpus"}
    BY <1>1, <1>4 DEF RunBurst, SupGoto
  <2>2. \/ UNCHANGED <<cpuState, cpuPc>>
        \/ Dispatch(supN, "PREEMPT") /\ cpuState[supN] = "RUNNING"
    BY <1>4, PostedInTime DEF RunBurst, SupGoto
  <2>3. \A c \in Cpus : Held(c)' = Held(c)
    <3>1. CASE UNCHANGED <<cpuState, cpuPc>>
      BY <1>1, <3>1 DEF Held
    <3>2. CASE Dispatch(supN, "PREEMPT") /\ cpuState[supN] = "RUNNING"
      BY <1>1, <1>4, <3>2, PreemptHolds
    <3> QED BY <2>2, <3>1, <3>2
  <2> QED BY <1>2, <2>1, <2>3 DEF WakeLabels
<1>5. CASE /\ supN \in Cpus /\ simCurrent[supN] # NULL
           /\ Program[simCurrent[supN]][opIndex[simCurrent[supN]]].type = "CPU"
           /\ NextOperation(supN, simCurrent[supN])
  <2>1. simCurrent[supN] \in Procs
    BY <1>5 DEF IInv, TypeOK, CpuTypeOK
  <2> QED BY <1>5, <2>1, NextOperationPlaces DEF Running
<1> QED BY <1>3, <1>4, <1>5, CpusCases

LEMMA SpuriousPlaces ==
  ASSUME IInv, ThreadsOK, PlacesOK, Spurious
  PROVE  PlacesOK' /\ AllStay
<1>1. \A c \in Cpus : Held(c)' = Held(c)
  BY SpuriousMoves DEF Held
<1>2. processesCreated + 1 \in Procs \/ ~Arrived
  BY CreatingProcess DEF Arrived
<1>3. /\ Creating' <=> Creating
      /\ Arrived' <=> Arrived
      /\ \A p \in Procs : BeingWoken(p)' <=> BeingWoken(p)
  BY SpuriousMoves DEF Creating, Arrived, BeingWoken, WakeLabels
<1> QED BY <1>1, <1>2, <1>3, SpuriousMoves, NothingMoves

LEMMA PlacesStep ==
  ASSUME ~Overtakes, IInv, IInv', ThreadsOK, PlacesOK, [Next]_vars
  PROVE  PlacesOK'
<1>1. CASE Supervisor
  BY <1>1, SupervisorPlaces, ForcePreemptCheckPlaces, SimulateCpusPlaces,
     SimulateIoPlaces, SimulateCreatPlaces, WakeEnqueuePlaces, WakeReturnPlaces
     DEF Supervisor
<1>2. ASSUME NEW c \in Cpus, CpuThread(c)
      PROVE  PlacesOK'
  BY <1>2, CpuPlaces, HandlerPlaces, DequeuePlaces DEF CpuThread
<1>3. CASE UNCHANGED vars
  <2>1. \A c \in Cpus : Held(c)' = Held(c)
    BY <1>3 DEF vars, Held
  <2>2. processesCreated + 1 \in Procs \/ ~Arrived
    BY CreatingProcess DEF Arrived
  <2>3. /\ Creating' <=> Creating
        /\ Arrived' <=> Arrived
        /\ \A p \in Procs : BeingWoken(p)' <=> BeingWoken(p)
    BY <1>3 DEF vars, Creating, Arrived, BeingWoken
  <2> QED BY <1>3, <2>1, <2>2, <2>3, NothingMoves DEF vars
<1> QED BY <1>1, <1>2, <1>3, SpuriousPlaces DEF Next, Halted

\* What places a process has is what the invariant says.
LEMMA PlacesAreCounted == IInv /\ PlacesOK => OnePlace
<1> SUFFICES ASSUME IInv, PlacesOK, NEW p \in Procs
             PROVE  Cardinality(Holders(p)) =
                      IF Done(p) \/ (New(p) /\ ~BeingWoken(p)) THEN 0 ELSE 1
  BY DEF OnePlace
<1> DEFINE cpu   == {<<"cpu", c>>   : c \in {d \in Cpus : Held(d) = p}}
           ready == {<<"ready", i>> : i \in {j \in 1 .. rq.count : Contents(rq)[j] = p}}
           io    == {<<"io", i>>    : i \in {j \in 1 .. Len(ioQueue) : ioQueue[j].pcb = p}}
           wake  == {<<"wake", i>>  : i \in {j \in {1} : BeingWoken(p)}}
<1>0. Holders(p) = cpu \cup ready \cup io \cup wake
  BY DEF Holders
<1>1. Alone(p) /\ Placed(p)
  BY DEF PlacesOK, EachPlaced
<1>2. ~Running(p) => cpu = {}
  BY DEF Running
<1>3. ~Ready(p) => ready = {}
  BY DEF Ready
<1>4. ~Waiting(p) => io = {}
  BY DEF Waiting
<1>5. ~BeingWoken(p) => wake = {}
  OBVIOUS
<1>6. Running(p) => \E h : cpu = {h}
  <2> HAVE Running(p)
  <2>1. PICK c \in Cpus : Held(c) = p
    BY DEF Running
  <2>2. {d \in Cpus : Held(d) = p} = {c}
    BY <1>1, <2>1 DEF Alone
  <2>3. cpu = {<<"cpu", c>>}
    BY <2>2
  <2> QED BY <2>3
<1>7. Ready(p) => \E h : ready = {h}
  <2> HAVE Ready(p)
  <2>1. PICK i \in 1 .. rq.count : Contents(rq)[i] = p
    BY DEF Ready
  <2>2. \A j \in 1 .. rq.count : Contents(rq)[j] = p => j = i
    BY <2>1 DEF PlacesOK, QueueOK, Represents, Distinct
  <2>3. {j \in 1 .. rq.count : Contents(rq)[j] = p} = {i}
    BY <2>1, <2>2
  <2>4. ready = {<<"ready", i>>}
    BY <2>3
  <2> QED BY <2>4
<1>8. Waiting(p) => \E h : io = {h}
  <2> HAVE Waiting(p)
  <2>1. PICK i \in 1 .. Len(ioQueue) : ioQueue[i].pcb = p
    BY DEF Waiting
  <2>2. {j \in 1 .. Len(ioQueue) : ioQueue[j].pcb = p} = {i}
    BY <2>1 DEF IInv, OneRequestPerProcess
  <2>3. io = {<<"io", i>>}
    BY <2>2
  <2> QED BY <2>3
<1>9. BeingWoken(p) => wake = {<<"wake", 1>>}
  OBVIOUS
<1> HIDE DEF cpu, ready, io, wake
<1>10. Ready(p) \/ Waiting(p) \/ BeingWoken(p) \/ Running(p)
         => \E h : Holders(p) = {h}
  BY <1>0, <1>1, <1>2, <1>3, <1>4, <1>5, <1>6, <1>7, <1>8, <1>9 DEF Alone
<1>11. ~(Ready(p) \/ Waiting(p) \/ BeingWoken(p) \/ Running(p))
         => Holders(p) = {}
  BY <1>0, <1>2, <1>3, <1>4, <1>5
<1>12. /\ Cardinality({}) = 0
       /\ \A h : Cardinality({h}) = 1
  BY FS_EmptySet, FS_Singleton
<1> QED BY <1>1, <1>10, <1>11, <1>12 DEF Placed

\* The history variable takes nothing from the simulator and adds nothing; as
\* long as it is FALSE, no step has been an overtaking.
LEMMA HistorySpec == HSpec => Spec
<1>1. HInit => Init
  BY DEF HInit
<1>2. [HNext]_hvars => [Next]_vars
  BY DEF HNext, hvars
<1> QED BY <1>1, <1>2, PTL DEF HSpec, Spec

LEMMA HistoryStep ==
  ASSUME [HNext]_hvars, ~overtaken'
  PROVE  ~overtaken /\ ~Overtakes /\ [Next]_vars
<1>1. CASE HNext
  BY <1>1 DEF HNext
<1>2. CASE UNCHANGED hvars
  <2>1. UNCHANGED <<overtaken, vars, supPc>>
    BY <1>2 DEF hvars, vars
  <2> QED BY <2>1 DEF Overtakes, PostsEarly, LeavesEarly
<1> QED BY <1>1, <1>2

OrderInv == ~overtaken => ThreadsOK /\ PlacesOK

LEMMA PlacesSpec == HSpec => []OrderInv
<1>1. HInit => OrderInv
  BY InitThreads, InitPlaces DEF HInit, OrderInv
<1>2. IInv /\ IInv' /\ OrderInv /\ [HNext]_hvars => OrderInv'
  <2> SUFFICES ASSUME IInv, IInv', OrderInv, [HNext]_hvars, ~overtaken'
               PROVE  ThreadsOK' /\ PlacesOK'
    BY DEF OrderInv
  <2> QED BY HistoryStep, ThreadsStep, PlacesStep DEF OrderInv
<1> QED BY <1>1, <1>2, HistorySpec, SpecInv, PTL DEF HSpec

\* OnePlaceInOrder: in the simulator as it is built, for every number of CPUs
\* and processes, every program, timing and spurious wakeup, a process that is
\* created and not finished is in exactly one place, on one CPU, in the ready
\* queue, in the I/O queue or in the hands of wake_up(), until an event has
\* been posted to a CPU that was not running or left before it was handled.
THEOREM ProcessesAreNotLost == HSpec => []OnePlaceInOrder
<1>1. IInv /\ OrderInv => OnePlaceInOrder
  BY PlacesAreCounted DEF OrderInv, OnePlaceInOrder
<1> QED BY <1>1, PlacesSpec, HistorySpec, SpecInv, PTL

-----------------------------------------------------------------------------
(* The ready queue implements a queue.                                     *)

\* The steps that change the list put a process in it that is elsewhere, or
\* take out the one at its head.
LEMMA FifoStep ==
  IInv /\ IInv' /\ PlacesOK /\ [Next]_vars => [Fifo!Next]_(Contents(rq))
<1> SUFFICES ASSUME IInv, IInv', PlacesOK, [Next]_vars
             PROVE  [Fifo!Next]_(Contents(rq))
  OBVIOUS
<1>1. rq \in Queues /\ rq' \in Queues /\ QueueOK
  BY DEF IInv, TypeOK, QueueTypeOK, PlacesOK
<1>2. ASSUME NEW p \in Procs, BeingWoken(p) \/ Running(p), rq' = EnqueueReady(rq, p)
      PROVE  Fifo!Next
  <2>1. ~Ready(p)
    BY <1>2 DEF PlacesOK, EachPlaced, Alone
  <2> QED BY <1>1, <1>2, <2>1, Enqueued DEF Fifo!Next
<1>3. CASE UNCHANGED rq
  BY <1>3
<1>4. CASE WakeEnqueue
  <2>1. supPcb \in Procs /\ BeingWoken(supPcb) /\ rq' = EnqueueReady(rq, supPcb)
    BY <1>4 DEF WakeEnqueue, BeingWoken, IInv, SupervisorOK, WakeLabels
  <2> QED BY <1>2, <2>1
<1>5. ASSUME NEW c \in Cpus, Handler(c), rq' # rq
      PROVE  Fifo!Next
  <2>1. current[c] \in Procs /\ cpuPc[c] = "handler" /\ cpuEvent[c] = "PREEMPT"
        /\ rq' = EnqueueReady(rq, current[c])
    BY <1>5 DEF Handler, Requeues, IInv, TypeOK, CpuTypeOK
  <2>2. Held(c) = current[c]
    BY <2>1 DEF Held
  <2>3. Running(current[c])
    BY <2>2 DEF Running
  <2> QED BY <1>2, <2>1, <2>3
<1>6. ASSUME NEW c \in Cpus, Dequeue(c)
      PROVE  [Fifo!Next]_(Contents(rq))
  <2>1. rq' = DequeueReady(rq) \/ rq' = rq
    BY <1>6 DEF Dequeue
  <2> QED BY <1>1, <2>1, Dequeued DEF Fifo!Next
<1>7. CASE Supervisor /\ ~WakeEnqueue
  <2>1. UNCHANGED rq
    BY <1>7 DEF Supervisor, SupLock, ReaderLock, ReaderUnlock, SimulateCpus,
       EventHandled, SimulateIo, SimulateCreat, WakeLock, WakeScan,
       ForcePreemptUnlock, ForcePreemptCheck, ForcePreemptLock, WakeUnlock, WakeReturn
  <2> QED BY <1>3, <2>1
<1>8. ASSUME NEW c \in Cpus, CpuThread(c), ~Handler(c), ~Dequeue(c)
      PROVE  UNCHANGED rq
  BY <1>8 DEF CpuThread, LoopTop, RunWoken, CountTerminated, EnterHandler, Idle,
     SetCurrent, SwitchUnlock, SwitchStore, SwitchLock, LeaveHandler
<1>9. CASE Spurious \/ UNCHANGED vars
  BY <1>3, <1>9 DEF Spurious, SpuriousSupervisor, SpuriousCpu, vars
<1> QED BY <1>3, <1>4, <1>5, <1>6, <1>7, <1>8, <1>9 DEF Next, Halted

\* ImplementsFifo: in the simulator as it is built, up to the first overtaking,
\* the linked list of student.c is a queue that no process enters twice and
\* that every process leaves in the order of entry, for any number of CPUs and
\* processes.
THEOREM ReadyQueueIsFifo == HSpec => ImplementsFifo
<1>1. Init => Fifo!Init
  <2> SUFFICES ASSUME Init PROVE Fifo!Init
    OBVIOUS
  <2>1. rq \in Queues /\ Represents(rq, << >>) /\ << >> \in Seq(Procs)
    BY InitReadyQueueType DEF Init, Represents, InitReadyQueue
  <2>2. Contents(rq) = << >>
    BY <2>1, ContentsIs
  <2> QED BY <2>2 DEF Fifo!Init
<1>2. /\ IInv /\ IInv' /\ OrderInv /\ [HNext]_hvars
        => [overtaken' \/ Fifo!Next]_(Contents(rq))
  BY HistoryStep, FifoStep DEF OrderInv
<1> QED BY <1>1, <1>2, HistorySpec, SpecInv, PlacesSpec, PTL
        DEF HSpec, HInit, ImplementsFifo

-----------------------------------------------------------------------------
(* The simulator implements the life cycle of its processes.               *)

\* Place, by the places of the invariant.
LEMMA PlaceIs ==
  ASSUME PlacesOK, NEW p \in Procs
  PROVE  /\ Running(p) => Place[p] = "running"
         /\ Ready(p) => Place[p] = "ready"
         /\ Done(p) => Place[p] = "done"
         /\ New(p) => Place[p] = "new"
         /\ Waiting(p) \/ (BeingWoken(p) /\ ~New(p)) => Place[p] = "waiting"
<1>1. Alone(p) /\ Placed(p) /\ (New(p) => ~Done(p))
  BY DEF PlacesOK, EachPlaced, CreatedInOrder
<1> QED BY <1>1 DEF Place, Alone, Placed

LEMMA PlaceNextIs ==
  ASSUME PlacesOK', NEW p \in Procs
  PROVE  /\ Running(p)' => Place'[p] = "running"
         /\ Ready(p)' => Place'[p] = "ready"
         /\ Done(p)' => Place'[p] = "done"
         /\ New(p)' => Place'[p] = "new"
         /\ Waiting(p)' \/ (BeingWoken(p)' /\ ~New(p)') => Place'[p] = "waiting"
<1>1. Alone(p)' /\ Placed(p)' /\ (New(p)' => ~Done(p)')
  BY DEF PlacesOK, EachPlaced, CreatedInOrder
<1> QED BY <1>1 DEF Place, Alone, Placed

\* A process that stays keeps its place.
LEMMA SamePlaceIs ==
  ASSUME NEW p \in Procs, SamePlace(p)
  PROVE  Place'[p] = Place[p]
<1>1. Running(p)' <=> Running(p)
  BY DEF SamePlace, Running
<1> QED BY <1>1 DEF SamePlace, Place

LEMMA PlaceStays ==
  ASSUME AllStay
  PROVE  UNCHANGED Place
<1>1. \A p \in Procs : Place'[p] = Place[p]
  BY SamePlaceIs DEF AllStay
<1>2. /\ Place = [p \in Procs |-> Place[p]]
      /\ Place' = [p \in Procs |-> Place'[p]]
  BY Zenon DEF Place
<1> QED BY <1>1, <1>2

\* The step that moves p is the edge of the life cycle from its old place to
\* its new one.
LEMMA PlaceMoves ==
  ASSUME NEW p \in Procs, OnlyMoves(p), NEW from, NEW to,
         Place[p] = from, Place'[p] = to
  PROVE  Life!Move(p, from, to)
<1>1. \A q \in Procs \ {p} : Place'[q] = Place[q]
  BY SamePlaceIs DEF OnlyMoves
<1>2. /\ Place = [q \in Procs |-> Place[q]]
      /\ Place' = [q \in Procs |-> Place'[q]]
  BY Zenon DEF Place
<1> HIDE DEF Place
<1>3. Place' = [Place EXCEPT ![p] = to]
  BY <1>1, <1>2
<1> QED BY <1>3 DEF Life!Move

\* A CPU that holds no process is not counted among those that run one.
LEMMA FreeCpu ==
  ASSUME PlacesOK, NEW c \in Cpus, Held(c) = NULL
  PROVE  Cardinality({p \in Procs : Place[p] = "running"}) < CpuCount
<1> DEFINE R == {p \in Procs : Running(p)}
           f == [p \in R |-> CHOOSE d \in Cpus : Held(d) = p]
<1>1. \A p \in R : f[p] \in Cpus \ {c} /\ Held(f[p]) = p
  <2> TAKE p \in R
  <2>1. \E d \in Cpus : Held(d) = p
    BY DEF Running
  <2>2. p # NULL
    BY ProcessCountAssumption DEF Procs, NULL
  <2> QED BY <2>1, <2>2
<1>2. f \in Injection(R, Cpus \ {c})
  <2>1. f \in [R -> Cpus \ {c}]
    BY <1>1
  <2>2. \A p, q \in R : f[p] = f[q] => p = q
    BY <1>1
  <2> QED BY <2>1, <2>2 DEF Injection, IsInjective
<1> HIDE DEF f
<1>3. /\ IsFiniteSet(Cpus) /\ Cardinality(Cpus) = CpuCount /\ CpuCount \in Nat
  BY CpuCountAssumption, FS_Interval DEF Cpus
<1>4. /\ IsFiniteSet(Cpus \ {c})
      /\ Cardinality(Cpus \ {c}) = CpuCount - 1
  BY <1>3, FS_RemoveElement
<1>5. Cardinality(R) <= CpuCount - 1 /\ IsFiniteSet(R)
  BY <1>2, <1>4, FS_Injection
<1>6. {p \in Procs : Place[p] = "running"} = R
  BY DEF Place
<1>7. Cardinality(R) \in Nat
  BY <1>5, FS_CardinalityType
<1> QED BY <1>3, <1>5, <1>6, <1>7

LEMMA LifeStep ==
  ASSUME ~Overtakes, IInv, IInv', ThreadsOK, PlacesOK, [Next]_vars
  PROVE  [Life!Next]_Place
<1>0. PlacesOK'
  BY PlacesStep
<1>1. ASSUME NEW p \in Procs, OnlyMoves(p),
             \/ (New(p) \/ Waiting(p) \/ BeingWoken(p)) /\ Ready(p)'
             \/ Running(p) /\ Ready(p)'
             \/ Running(p) /\ (Waiting(p)' \/ Done(p)')
      PROVE  Life!Next
  <2>1. CASE BeingWoken(p) /\ New(p) /\ Ready(p)'
    BY <1>0, <1>1, <2>1, PlaceIs, PlaceNextIs, PlaceMoves DEF Life!Next, Life!Create
  <2>2. CASE ~New(p) /\ (Waiting(p) \/ BeingWoken(p)) /\ Ready(p)'
    BY <1>0, <1>1, <2>2, PlaceIs, PlaceNextIs, PlaceMoves DEF Life!Next, Life!WakeUp
  <2>3. CASE New(p) /\ Ready(p)'
    BY <1>0, <1>1, <2>3, PlaceIs, PlaceNextIs, PlaceMoves DEF Life!Next, Life!Create
  <2>4. CASE Running(p) /\ Ready(p)'
    BY <1>0, <1>1, <2>4, PlaceIs, PlaceNextIs, PlaceMoves DEF Life!Next, Life!Preempt
  <2>5. CASE Running(p) /\ Waiting(p)'
    BY <1>0, <1>1, <2>5, PlaceIs, PlaceNextIs, PlaceMoves DEF Life!Next, Life!Yield
  <2>6. CASE Running(p) /\ Done(p)'
    BY <1>0, <1>1, <2>6, PlaceIs, PlaceNextIs, PlaceMoves DEF Life!Next, Life!Terminate
  <2> QED BY <1>1, <2>2, <2>3, <2>4, <2>5, <2>6
<1>2. ASSUME NEW p \in Procs, OnlyMoves(p),
             \/ New(p) /\ New(p)'
             \/ Waiting(p) /\ BeingWoken(p)' /\ ~New(p)'
      PROVE  UNCHANGED Place
  <2>1. Place'[p] = Place[p]
    BY <1>0, <1>2, PlaceIs, PlaceNextIs
  <2>2. \A q \in Procs : Place'[q] = Place[q]
    BY <1>2, <2>1, SamePlaceIs DEF OnlyMoves
  <2>3. /\ Place = [q \in Procs |-> Place[q]]
        /\ Place' = [q \in Procs |-> Place'[q]]
    BY Zenon DEF Place
  <2> QED BY <2>2, <2>3
<1>3. ASSUME NEW c \in Cpus, Dequeue(c), NEW p \in Procs, OnlyMoves(p),
             Ready(p), Held(c)' = p
      PROVE  Life!Next
  <2>1. Held(c) = NULL
    BY <1>3 DEF Dequeue, Held
  <2>2. Running(p)'
    BY <1>3 DEF Running
  <2>3. Life!Move(p, "ready", "running")
    BY <1>0, <1>3, <2>2, PlaceIs, PlaceNextIs, PlaceMoves
  <2>4. Cardinality({q \in Procs : Place[q] = "running"}) < CpuCount
    BY <2>1, FreeCpu
  <2> DEFINE R == {q \in Procs : Place[q] = "running"}
  <2> HIDE DEF R
  <2>5. Life!Cardinality(R) = Cardinality(R)
    BY DEF Life!Cardinality, Cardinality
  <2>6. Life!Dispatch(p)
    BY <2>3, <2>4, <2>5, Zenon DEF Life!Dispatch, R
  <2> QED BY <2>6 DEF Life!Next
<1>4. CASE AllStay
  BY <1>4, PlaceStays
<1>5. CASE Supervisor
  <2>1. CASE WakeEnqueue
    BY <1>1, <2>1, WakeEnqueuePlaces
  <2>2. CASE SimulateIo \/ SimulateCreat
    BY <1>2, <1>4, <2>2, SimulateIoPlaces, SimulateCreatPlaces
  <2>3. CASE SimulateCpus
    BY <1>1, <1>4, <2>3, SimulateCpusPlaces
  <2> QED BY <1>4, <1>5, <2>1, <2>2, <2>3, SupervisorPlaces,
             ForcePreemptCheckPlaces, WakeReturnPlaces DEF Supervisor
<1>6. ASSUME NEW c \in Cpus, CpuThread(c)
      PROVE  [Life!Next]_Place
  <2>1. CASE Handler(c)
    BY <1>1, <1>4, <2>1, HandlerPlaces DEF Running
  <2>2. CASE Dequeue(c)
    BY <1>3, <1>4, <2>2, DequeuePlaces
  <2> QED BY <1>4, <1>6, <2>1, <2>2, CpuPlaces DEF CpuThread
<1>7. CASE UNCHANGED vars
  <2>1. \A c \in Cpus : Held(c)' = Held(c)
    BY <1>7 DEF vars, Held
  <2>2. AllStay
    BY <1>7, <2>1 DEF vars, AllStay, SamePlace, Ready, Waiting, BeingWoken, Done, New
  <2> QED BY <1>4, <2>2
<1>8. CASE Spurious
  BY <1>4, <1>8, SpuriousPlaces
<1> QED BY <1>5, <1>6, <1>7, <1>8 DEF Next, Halted

\* ImplementsLife: in the simulator as it is built, up to the first overtaking,
\* every process goes through the life cycle of an operating system's processes
\* one edge at a time, and no more processes run than there are CPUs, for any
\* number of both and any programs.
THEOREM SimulatorImplementsLife == HSpec => ImplementsLife
<1>1. Init => Life!Init
  <2> SUFFICES ASSUME Init PROVE Life!Init
    OBVIOUS
  <2>1. PlacesOK /\ \A p \in Procs : New(p)
    BY InitPlaces, ProcessCountAssumption DEF Init, New, Procs
  <2>2. \A p \in Procs : Place[p] = "new"
    BY <2>1, PlaceIs
  <2>3. Place = [p \in Procs |-> Place[p]]
    BY Zenon DEF Place
  <2> HIDE DEF Place
  <2>4. Place = [p \in Procs |-> "new"]
    BY <2>2, <2>3
  <2> QED BY <2>4 DEF Life!Init
<1>2. /\ IInv /\ IInv' /\ OrderInv /\ [HNext]_hvars
        => [overtaken' \/ UNCHANGED Place \/ Life!Next]_Place
  BY HistoryStep, LifeStep DEF OrderInv
<1> QED BY <1>1, <1>2, HistorySpec, SpecInv, PlacesSpec, PTL
        DEF HSpec, HInit, ImplementsLife

-----------------------------------------------------------------------------
(* The state in a PCB.                                                     *)

\* CPU thread c is on its way to the handler that will mark its process, which
\* the simulator has already taken away from it.
Leaving(c) ==
  /\ cpuPc[c] \in {"runWoken", "terminating", "enter", "handler"}
  /\ cpuState[c] \in {"YIELD", "TERMINATE"}

LeavesCpu(p) == \E c \in Cpus : Leaving(c) /\ current[c] = p

EventsOK ==
  \A c \in Cpus :
    /\ cpuPc[c] \in {"terminating", "enter", "handler"} => cpuEvent[c] = cpuState[c]
    /\ cpuState[c] \in {"YIELD", "TERMINATE"}
         => supPc \in {"eventWait", "eventWoken"}
    /\ Leaving(c) =>
         /\ current[c] \in Procs
         /\ cpuState[c] = "YIELD" => Waiting(current[c])
         /\ cpuState[c] = "TERMINATE" => Done(current[c])

\* The state of p tells its place, but for a process that leaves its CPU and
\* for the one in the hands of schedule().
StateOK(p) ==
  /\ Ready(p) => procState[p] = "READY"
  /\ Waiting(p) => procState[p] = "WAITING" \/ LeavesCpu(p)
  /\ \A c \in Cpus : Held(c) = p /\ cpuPc[c] # "setCurrent" => procState[p] = "RUNNING"
  /\ procState[p] = "RUNNING" => Running(p) \/ LeavesCpu(p)

StatesOK == \A p \in Procs : StateOK(p)

\* A process that stays where it is, with the state it has.
LEMMA StateStays ==
  ASSUME StatesOK, NEW p \in Procs, SamePlace(p), procState'[p] = procState[p],
         LeavesCpu(p)' <=> LeavesCpu(p),
         \A c \in Cpus : Held(c)' = p /\ cpuPc[c] = "setCurrent" => cpuPc'[c] = "setCurrent"
  PROVE  StateOK(p)'
<1>1. Running(p)' <=> Running(p)
  BY DEF SamePlace, Running
<1>2. StateOK(p)
  BY DEF StatesOK
<1>3. \A c \in Cpus : Held(c)' = p /\ cpuPc'[c] # "setCurrent" => procState[p] = "RUNNING"
  BY <1>2 DEF SamePlace, StateOK
<1> QED BY <1>1, <1>2, <1>3 DEF SamePlace, StateOK

\* The steps of the supervisor outside simulate_cpus(): no CPU has an event
\* that takes its process away.
LEMMA SupervisorStates ==
  ASSUME ~Overtakes, IInv, ThreadsOK, PlacesOK, PlacesOK', EventsOK, StatesOK,
         Supervisor, ~SimulateCpus
  PROVE  EventsOK' /\ StatesOK'
<1>1. /\ UNCHANGED <<simCurrent, current, cpuPcb, cpuEvent>>
      /\ supPc # "eventWait" /\ (supPc = "eventWoken" => supPc' # supPc)
      /\ cpuPc \in [Cpus -> CpuLabels] /\ cpuState \in [Cpus -> CpuStates]
      /\ procState \in [Procs -> ProcStates]
  BY DEF Supervisor, SupLock, ReaderLock, ReaderUnlock, EventHandled, SimulateIo,
     SimulateCreat, WakeLock, WakeEnqueue, WakeScan, ForcePreemptUnlock,
     ForcePreemptCheck, ForcePreemptLock, WakeUnlock, WakeReturn, SupGoto,
     IInv, TypeOK, CpuTypeOK, ProcTypeOK
<1>2. \A c \in Cpus : cpuState[c] \notin {"YIELD", "TERMINATE"}
  BY <1>1 DEF EventsOK, ThreadsOK, OneEvent, Events, Overtakes, LeavesEarly
<1>3. \A c \in Cpus : /\ cpuState'[c] \notin {"YIELD", "TERMINATE"}
                      /\ \/ cpuPc'[c] = cpuPc[c] /\ cpuState'[c] = cpuState[c]
                         \/ cpuPc[c] = "idleWait" /\ cpuPc'[c] = "idle"
                         \/ cpuPc[c] \in {"runWait", "runWoken"} /\ cpuPc'[c] = "runWoken"
  <2>1. CASE WakeEnqueue
    <3>1. UNCHANGED cpuState /\ cpuPc' = BroadcastIdle(cpuPc)
      BY <2>1 DEF WakeEnqueue
    <3> QED BY <1>1, <1>2, <3>1, BroadcastMoves
  <2>2. CASE ForcePreemptCheck
    <3>1. CASE cpuState[supN] = "RUNNING"
      <4>1. /\ cpuState' = [cpuState EXCEPT ![supN] = "PREEMPT"]
            /\ cpuPc' = [cpuPc EXCEPT ![supN] = "runWoken"]
            /\ supN \in Cpus /\ cpuPc[supN] \in {"runWait", "runWoken"}
        BY <1>1, <2>2, <3>1 DEF ForcePreemptCheck, Dispatch, SignalCpu, ThreadsOK,
                                StateOfThread, IInv, SupervisorOK
      <4> QED BY <1>1, <1>2, <4>1
    <3>2. CASE cpuState[supN] # "RUNNING"
      BY <1>2, <2>2, <3>2 DEF ForcePreemptCheck
    <3> QED BY <3>1, <3>2
  <2>3. CASE ~WakeEnqueue /\ ~ForcePreemptCheck
    <3>1. UNCHANGED <<cpuState, cpuPc>>
      BY <2>3 DEF Supervisor, SupLock, ReaderLock, ReaderUnlock, EventHandled,
         SimulateIo, SimulateCreat, WakeLock, WakeScan, ForcePreemptUnlock,
         ForcePreemptLock, WakeUnlock, WakeReturn
    <3> QED BY <1>2, <3>1
  <2> QED BY <2>1, <2>2, <2>3
<1>4. \A c \in Cpus : ~Leaving(c) /\ ~Leaving(c)'
  BY <1>2, <1>3 DEF Leaving
<1>5. EventsOK'
  BY <1>1, <1>3, <1>4 DEF EventsOK
<1>6. \A p \in Procs : ~LeavesCpu(p) /\ ~LeavesCpu(p)'
  BY <1>4 DEF LeavesCpu
<1>7. ASSUME NEW p \in Procs, SamePlace(p), procState'[p] = procState[p]
      PROVE  StateOK(p)'
  <2>1. \A c \in Cpus : cpuPc[c] = "setCurrent" => cpuPc'[c] = "setCurrent"
    BY <1>3
  <2> QED BY <1>6, <1>7, <2>1, StateStays
<1>8. ASSUME NEW p \in Procs, procState'[p] # "RUNNING",
             ~Waiting(p)' /\ ~Running(p)', Ready(p)' => procState'[p] = "READY"
      PROVE  StateOK(p)'
  BY <1>8 DEF StateOK, Running
<1>9. CASE WakeEnqueue
  <2>1. PICK p \in Procs : p = supPcb /\ Ready(p)' /\ OnlyMoves(p)
    <3>1. IInv'
      BY <1>9, WakeEnqueueStep
    <3> QED BY <1>9, <3>1, WakeEnqueuePlaces
  <2>2. procState' = [procState EXCEPT ![p] = "READY"]
    BY <1>9, <2>1 DEF WakeEnqueue
  <2>3. ~Waiting(p)' /\ ~Running(p)'
    BY <2>1 DEF PlacesOK, EachPlaced, Alone
  <2>4. StateOK(p)'
    BY <1>1, <1>8, <2>2, <2>3
  <2>5. \A q \in Procs \ {p} : StateOK(q)'
    BY <1>1, <1>7, <2>1, <2>2 DEF OnlyMoves
  <2> QED BY <1>5, <2>4, <2>5 DEF StatesOK
<1>10. CASE ~WakeEnqueue
  <2>1. UNCHANGED procState
    BY <1>10 DEF Supervisor, SupLock, ReaderLock, ReaderUnlock, EventHandled,
       SimulateIo, SimulateCreat, WakeLock, WakeScan, ForcePreemptUnlock,
       ForcePreemptCheck, ForcePreemptLock, WakeUnlock, WakeReturn
  <2>2. CASE AllStay
    BY <1>5, <1>7, <2>1, <2>2 DEF AllStay, StatesOK
  <2>3. ASSUME NEW p \in Procs, OnlyMoves(p), StateOK(p)'
        PROVE  StatesOK'
    BY <1>7, <2>1, <2>3 DEF OnlyMoves, StatesOK
  <2>4. CASE SimulateIo /\ ~AllStay
    <3>1. PICK p \in Procs : Waiting(p) /\ BeingWoken(p)' /\ OnlyMoves(p)
      BY <2>4, SimulateIoPlaces
    <3>2. procState[p] = "WAITING"
      BY <1>6, <3>1 DEF StatesOK, StateOK
    <3>3. ~Ready(p)' /\ ~Waiting(p)' /\ ~Running(p)'
      BY <3>1 DEF PlacesOK, EachPlaced, Alone
    <3> QED BY <1>5, <1>8, <2>1, <2>3, <3>1, <3>2, <3>3
  <2>5. CASE SimulateCreat /\ ~AllStay
    <3>1. PICK p \in Procs : New(p) /\ New(p)' /\ OnlyMoves(p)
      <4>1. IInv'
        BY <2>5, SimulateCreatStep
      <4> QED BY <2>5, <4>1, SimulateCreatPlaces
    <3>2. procState[p] = "NEW"
      BY <3>1 DEF New
    <3>3. ~Ready(p)' /\ ~Waiting(p)' /\ ~Running(p)'
      BY <3>1 DEF PlacesOK, EachPlaced, Alone, Placed
    <3> QED BY <1>5, <1>8, <2>1, <2>3, <3>1, <3>2, <3>3
  <2> QED BY <1>10, <2>2, <2>4, <2>5, SupervisorPlaces, ForcePreemptCheckPlaces,
             WakeReturnPlaces DEF Supervisor
<1> QED BY <1>9, <1>10

\* simulate_cpus(): the process that is taken away from its CPU is still
\* RUNNING and is the one the handler will mark.
LEMMA SimulateCpusStates ==
  ASSUME ~Overtakes, IInv, ThreadsOK, PlacesOK, PlacesOK', EventsOK, StatesOK,
         SimulateCpus
  PROVE  EventsOK' /\ StatesOK'
<1>1. /\ UNCHANGED <<simCurrent, current, procState, cpuPcb, cpuEvent>>
      /\ supPc = "cpus"
      /\ cpuPc \in [Cpus -> CpuLabels] /\ cpuState \in [Cpus -> CpuStates]
  BY DEF SimulateCpus, IInv, TypeOK, CpuTypeOK
<1>2. \A c \in Cpus : cpuState[c] \notin {"YIELD", "TERMINATE"} /\ ~Leaving(c)
  BY <1>1 DEF EventsOK, Leaving
<1>3. \A p \in Procs : ~LeavesCpu(p)
  BY <1>2 DEF LeavesCpu
<1>4. ASSUME NEW n \in Cpus, NEW event \in Events,
             cpuState[n] = "RUNNING", Dispatch(n, event)
      PROVE  /\ cpuPc[n] \in {"runWait", "runWoken"}
             /\ Held(n) = simCurrent[n] /\ current[n] = simCurrent[n]
             /\ cpuState'[n] = event /\ cpuPc'[n] = "runWoken"
             /\ \A c \in Cpus \ {n} : cpuState'[c] = cpuState[c] /\ cpuPc'[c] = cpuPc[c]
  <2>1. /\ cpuPc[n] \in {"runWait", "runWoken"}
        /\ Held(n) = simCurrent[n] /\ current[n] = simCurrent[n]
    BY <1>4, CpuRuns
  <2> QED BY <1>1, <1>4, <2>1 DEF Dispatch, SignalCpu
<1>5. ASSUME AllStay,
             \A c \in Cpus : /\ cpuState'[c] \notin {"YIELD", "TERMINATE"}
                             /\ \/ cpuPc'[c] = cpuPc[c] /\ cpuState'[c] = cpuState[c]
                                \/ cpuPc[c] \in {"runWait", "runWoken"}
                                   /\ cpuPc'[c] = "runWoken"
      PROVE  EventsOK' /\ StatesOK'
  <2>1. \A c \in Cpus : ~Leaving(c)'
    BY <1>5 DEF Leaving
  <2>2. EventsOK'
    BY <1>1, <1>5, <2>1 DEF EventsOK
  <2>3. \A p \in Procs : ~LeavesCpu(p)'
    BY <2>1 DEF LeavesCpu
  <2>4. \A c \in Cpus : cpuPc[c] = "setCurrent" => cpuPc'[c] = "setCurrent"
    BY <1>5
  <2>5. ASSUME NEW p \in Procs PROVE StateOK(p)'
    BY <1>1, <1>3, <1>5, <2>3, <2>4, StateStays DEF AllStay
  <2> QED BY <2>2, <2>5 DEF StatesOK
<1>6. CASE /\ supN \in Cpus /\ simCurrent[supN] # NULL
           /\ Program[simCurrent[supN]][opIndex[simCurrent[supN]]].type = "CPU"
           /\ NextOperation(supN, simCurrent[supN])
  <2>0. PICK n \in Cpus : n = supN
    BY <1>6
  <2>1. PICK p \in Procs : p = simCurrent[n]
    BY <1>6, <2>0 DEF IInv, TypeOK, CpuTypeOK
  <2>2. /\ Held(n) = p /\ OnlyMoves(p)
        /\ \/ cpuState'[n] = "YIELD" /\ Waiting(p)'
           \/ cpuState'[n] = "TERMINATE" /\ Done(p)'
    BY <1>6, <2>0, <2>1, NextOperationPlaces
  <2>3. /\ Dispatch(n, "YIELD") \/ Dispatch(n, "TERMINATE")
        /\ supPc' = "eventWait"
    <3>1. Program[p][opIndex[p] + 1].type \in {"IO", "TERMINATE"}
      BY <1>6, <2>0, <2>1, Alternates
    <3> QED BY <1>6, <2>0, <2>1, <3>1 DEF NextOperation, SupGoto
  <2>4. /\ cpuPc[n] \in {"runWait", "runWoken"} /\ cpuPc'[n] = "runWoken"
        /\ current[n] = p
        /\ \A c \in Cpus \ {n} : cpuState'[c] = cpuState[c] /\ cpuPc'[c] = cpuPc[c]
    BY <1>4, <1>6, <2>0, <2>1, <2>3, PostedInTime DEF Events
  <2>5. Leaving(n)' /\ \A c \in Cpus \ {n} : ~Leaving(c)'
    BY <1>2, <2>2, <2>4 DEF Leaving
  <2>6. EventsOK'
    BY <1>1, <1>2, <2>1, <2>2, <2>3, <2>4, <2>5 DEF EventsOK
  <2>7. LeavesCpu(p)' /\ \A q \in Procs \ {p} : ~LeavesCpu(q)'
    BY <1>1, <2>4, <2>5 DEF LeavesCpu
  <2>8. StateOK(p)'
    <3>1. procState[p] = "RUNNING"
      BY <2>2, <2>4 DEF StatesOK, StateOK
    <3>2. ~Ready(p)' /\ ~Running(p)'
      BY <2>2 DEF PlacesOK, EachPlaced, Alone, Placed
    <3> QED BY <1>1, <2>7, <3>1, <3>2 DEF StateOK, Running
  <2>9. \A q \in Procs \ {p} : StateOK(q)'
    <3>1. \A c \in Cpus : cpuPc[c] = "setCurrent" => cpuPc'[c] = "setCurrent"
      BY <2>4
    <3> QED BY <1>1, <1>3, <2>2, <2>7, <3>1, StateStays DEF OnlyMoves
  <2> QED BY <2>6, <2>8, <2>9 DEF StatesOK
<1>7. CASE UNCHANGED <<cpuState, opIndex, ioQueue, cpuPc>> /\ supPc' \in {"cpus", "io"}
  <2>1. AllStay
    <3>1. /\ \A c \in Cpus : Held(c)' = Held(c)
          /\ UNCHANGED <<rq, processesCreated>>
      BY <1>1, <1>7 DEF Held, SimulateCpus
    <3>2. \A p \in Procs : ~BeingWoken(p) /\ ~BeingWoken(p)'
      BY <1>1, <1>7 DEF BeingWoken
    <3> QED BY <1>1, <1>7, <3>1, <3>2 DEF AllStay, SamePlace, Ready, Waiting, Done, New
  <2> QED BY <1>2, <1>5, <1>7, <2>1
<1>8. CASE supN \in Cpus /\ simCurrent[supN] # NULL /\ RunBurst(supN, simCurrent[supN])
  <2>0. UNCHANGED <<opIndex, ioQueue>> /\ supPc' \in {"cpus", "eventWait"}
    BY <1>1, <1>8 DEF RunBurst, SupGoto
  <2>1. \/ UNCHANGED <<cpuState, cpuPc>>
        \/ Dispatch(supN, "PREEMPT") /\ cpuState[supN] = "RUNNING"
    BY <1>8, PostedInTime DEF RunBurst, SupGoto
  <2>2. \A c \in Cpus : /\ cpuState'[c] \notin {"YIELD", "TERMINATE"}
                        /\ \/ cpuPc'[c] = cpuPc[c] /\ cpuState'[c] = cpuState[c]
                           \/ cpuPc[c] \in {"runWait", "runWoken"}
                              /\ cpuPc'[c] = "runWoken"
    <3>1. CASE UNCHANGED <<cpuState, cpuPc>>
      BY <1>2, <3>1
    <3>2. CASE Dispatch(supN, "PREEMPT") /\ cpuState[supN] = "RUNNING"
      BY <1>2, <1>4, <1>8, <3>2 DEF Events
    <3> QED BY <2>1, <3>1, <3>2
  <2>3. AllStay
    <3>1. \A c \in Cpus : Held(c)' = Held(c)
      <4>1. CASE UNCHANGED <<cpuState, cpuPc>>
        BY <1>1, <4>1 DEF Held
      <4>2. CASE Dispatch(supN, "PREEMPT") /\ cpuState[supN] = "RUNNING"
        BY <1>1, <1>8, <4>2, PreemptHolds
      <4> QED BY <2>1, <4>1, <4>2
    <3>2. UNCHANGED <<rq, processesCreated>>
      BY DEF SimulateCpus
    <3>3. \A p \in Procs : ~BeingWoken(p) /\ ~BeingWoken(p)'
      BY <1>1, <2>0 DEF BeingWoken
    <3> QED BY <1>1, <2>0, <3>1, <3>2, <3>3
            DEF AllStay, SamePlace, Ready, Waiting, Done, New
  <2> QED BY <1>5, <2>2, <2>3
<1> QED BY <1>6, <1>7, <1>8, CpusCases

\* The threads of the CPUs, but for handlers and schedule().
LEMMA CpuThreadStates ==
  ASSUME IInv, ThreadsOK, PlacesOK, PlacesOK', EventsOK, StatesOK, NEW c \in Cpus,
         \/ LoopTop(c) \/ RunWoken(c) \/ CountTerminated(c) \/ EnterHandler(c)
         \/ Idle(c) \/ SetCurrent(c) \/ SwitchUnlock(c) \/ SwitchStore(c)
         \/ SwitchLock(c) \/ LeaveHandler(c)
  PROVE  EventsOK' /\ StatesOK'
<1>1. /\ cpuPc \in [Cpus -> CpuLabels] /\ cpuState \in [Cpus -> CpuStates]
      /\ cpuEvent \in [Cpus -> CpuStates \ {"RUNNING"}]
      /\ current \in [Cpus -> Procs \cup {NULL}]
      /\ cpuPcb \in [Cpus -> Procs \cup {NULL}]
      /\ procState \in [Procs -> ProcStates]
  BY DEF IInv, TypeOK, CpuTypeOK, ProcTypeOK
<1>2. AllStay
  BY CpuPlaces
<1>3. \A d \in Cpus \ {c} : /\ cpuPc'[d] = cpuPc[d] /\ cpuState'[d] = cpuState[d]
                            /\ cpuEvent'[d] = cpuEvent[d] /\ current'[d] = current[d]
  BY <1>1 DEF LoopTop, RunWoken, CountTerminated, EnterHandler, Idle, SetCurrent,
              SwitchUnlock, SwitchStore, SwitchLock, LeaveHandler, CpuGoto
<1>4. /\ Leaving(c)' <=> Leaving(c)
      /\ Leaving(c) => current'[c] = current[c] /\ cpuState'[c] = cpuState[c]
      /\ cpuPc'[c] \in {"terminating", "enter", "handler"} => cpuEvent'[c] = cpuState'[c]
      /\ cpuState'[c] \in {"YIELD", "TERMINATE"} => cpuState'[c] = cpuState[c]
  <2>1. CASE LoopTop(c)
    BY <1>1, <2>1 DEF LoopTop, CpuGoto, Leaving
  <2>2. CASE RunWoken(c)
    <3>1. cpuPc[c] = "runWoken" /\ UNCHANGED <<current, cpuState>>
      BY <2>2 DEF RunWoken
    <3>2. \/ cpuState[c] = "RUNNING" /\ cpuPc'[c] = "runWait"
          \/ cpuPc'[c] = HandlerEntry(cpuState[c]) /\ cpuEvent'[c] = cpuState[c]
      BY <1>1, <2>2 DEF RunWoken, CpuGoto
    <3> QED BY <3>1, <3>2 DEF HandlerEntry, Leaving
  <2>3. CASE CountTerminated(c) \/ EnterHandler(c)
    BY <1>1, <2>3 DEF CountTerminated, EnterHandler, CpuGoto, Leaving, EventsOK
  <2>4. CASE Idle(c) \/ SetCurrent(c) \/ SwitchUnlock(c)
    BY <1>1, <2>4 DEF Idle, SetCurrent, SwitchUnlock, CpuGoto, Leaving
  <2>5. CASE SwitchStore(c) \/ SwitchLock(c) \/ LeaveHandler(c)
    BY <1>1, <2>5 DEF SwitchStore, SwitchLock, LeaveHandler, CpuGoto, Leaving
  <2> QED BY <2>1, <2>2, <2>3, <2>4, <2>5
<1>5. \A d \in Cpus : Leaving(d)' <=> Leaving(d)
  BY <1>3, <1>4 DEF Leaving
<1>6. \A d \in Cpus : cpuState'[d] \in {"YIELD", "TERMINATE"}
                       => supPc' \in {"eventWait", "eventWoken"}
  <2> SUFFICES ASSUME NEW d \in Cpus, cpuState'[d] \in {"YIELD", "TERMINATE"}
               PROVE  supPc' \in {"eventWait", "eventWoken"}
    OBVIOUS
  <2>1. cpuState[d] \in {"YIELD", "TERMINATE"}
    BY <1>3, <1>4
  <2>2. supPc \in {"eventWait", "eventWoken"} /\ supN = d
    BY <2>1 DEF EventsOK, ThreadsOK, OneEvent, Events
  <2>3. LoopTop(c) => d # c
    BY <1>1 DEF LoopTop
  <2> QED BY <2>2, <2>3 DEF LoopTop, RunWoken, CountTerminated, EnterHandler, Idle,
          SetCurrent, SwitchUnlock, SwitchStore, SwitchLock, LeaveHandler,
          SignalNoWriters, SignalSupervisor
<1>7. EventsOK'
  <2> SUFFICES ASSUME NEW d \in Cpus
               PROVE  /\ cpuPc'[d] \in {"terminating", "enter", "handler"}
                           => cpuEvent'[d] = cpuState'[d]
                      /\ Leaving(d)' =>
                           /\ current'[d] \in Procs
                           /\ cpuState'[d] = "YIELD" => Waiting(current[d])'
                           /\ cpuState'[d] = "TERMINATE" => Done(current[d])'
    BY <1>6 DEF EventsOK
  <2>1. cpuPc'[d] \in {"terminating", "enter", "handler"} => cpuEvent'[d] = cpuState'[d]
    BY <1>3, <1>4 DEF EventsOK
  <2>2. ASSUME Leaving(d)'
        PROVE  /\ current'[d] \in Procs
               /\ cpuState'[d] = "YIELD" => Waiting(current[d])'
               /\ cpuState'[d] = "TERMINATE" => Done(current[d])'
    <3>1. Leaving(d) /\ current'[d] = current[d] /\ cpuState'[d] = cpuState[d]
      BY <1>3, <1>4, <1>5, <2>2
    <3>2. PICK p \in Procs : p = current[d]
      BY <3>1 DEF EventsOK
    <3>3. /\ cpuState[d] = "YIELD" => Waiting(p)'
          /\ cpuState[d] = "TERMINATE" => Done(p)'
      BY <1>2, <3>1, <3>2 DEF EventsOK, AllStay, SamePlace
    <3>4. /\ Waiting(p)' <=> Waiting(current[d])'
          /\ Done(p)' <=> Done(current[d])'
      BY <3>1, <3>2 DEF Waiting, Done
    <3> QED BY <3>1, <3>2, <3>3, <3>4
  <2> QED BY <2>1, <2>2
<1>8. \A p \in Procs : LeavesCpu(p)' <=> LeavesCpu(p)
  BY <1>3, <1>4, <1>5 DEF LeavesCpu
<1>9. CASE SetCurrent(c) /\ cpuPcb[c] # NULL
  <2>1. PICK p \in Procs : p = cpuPcb[c]
    BY <1>1, <1>9
  <2>2. /\ cpuPc[c] = "setCurrent" /\ Held(c) = p
        /\ procState' = [procState EXCEPT ![p] = "RUNNING"]
    BY <1>9, <2>1 DEF SetCurrent, Held
  <2>3. Running(p)' /\ Held(c)' = p
    BY <1>2, <2>2 DEF AllStay, SamePlace, Running
  <2>4. ~Ready(p)' /\ ~Waiting(p)'
    BY <2>3 DEF PlacesOK, EachPlaced, Alone
  <2>5. StateOK(p)'
    BY <1>1, <2>2, <2>3, <2>4 DEF StateOK
  <2>6. ASSUME NEW q \in Procs \ {p} PROVE StateOK(q)'
    <3>1. \A d \in Cpus : Held(d)' = q /\ cpuPc[d] = "setCurrent" => cpuPc'[d] = "setCurrent"
      BY <1>3, <2>3
    <3> QED BY <1>1, <1>2, <1>8, <2>2, <3>1, StateStays DEF AllStay
  <2> QED BY <1>7, <2>5, <2>6 DEF StatesOK
<1>10. CASE ~(SetCurrent(c) /\ cpuPcb[c] # NULL)
  <2>1. UNCHANGED procState
    BY <1>10 DEF LoopTop, RunWoken, CountTerminated, EnterHandler, Idle, SetCurrent,
                 SwitchUnlock, SwitchStore, SwitchLock, LeaveHandler
  <2>2. ASSUME NEW p \in Procs PROVE StateOK(p)'
    <3>1. \A d \in Cpus : Held(d)' = p /\ cpuPc[d] = "setCurrent" => cpuPc'[d] = "setCurrent"
      <4>1. cpuPc[c] = "setCurrent" => Held(c)' # p
        <5>1. cpuPc[c] = "setCurrent" => SetCurrent(c)
          BY DEF LoopTop, RunWoken, CountTerminated, EnterHandler, Idle,
                 SwitchUnlock, SwitchStore, SwitchLock, LeaveHandler
        <5>2. p # NULL
          BY ProcessCountAssumption DEF Procs, NULL
        <5>3. cpuPc[c] = "setCurrent" => Held(c) = NULL
          BY <1>10, <5>1 DEF Held
        <5> QED BY <1>2, <5>2, <5>3 DEF AllStay, SamePlace
      <4> QED BY <1>3, <4>1
    <3> QED BY <1>2, <1>8, <2>1, <3>1, StateStays DEF AllStay
  <2> QED BY <1>7, <2>2 DEF StatesOK
<1> QED BY <1>9, <1>10

\* The handlers mark the process that the CPU has given up.
LEMMA HandlerStates ==
  ASSUME IInv, IInv', ThreadsOK, PlacesOK, PlacesOK', EventsOK, StatesOK,
         NEW c \in Cpus, Handler(c)
  PROVE  EventsOK' /\ StatesOK'
<1>1. /\ UNCHANGED <<simCurrent, cpuState, current, cpuPcb, cpuEvent, supPc>>
      /\ cpuPc[c] = "handler"
      /\ cpuPc \in [Cpus -> CpuLabels] /\ cpuEvent[c] \in Events
      /\ procState \in [Procs -> ProcStates]
      /\ current \in [Cpus -> Procs \cup {NULL}]
      /\ cpuEvent[c] = cpuState[c]
  BY DEF Handler, IInv, TypeOK, CpuTypeOK, ProcTypeOK, CpuThreadOK, CpuStates,
         Events, EventsOK
<1>2. CASE current[c] = NULL
  <2>1. UNCHANGED <<procState, rq, cpuPc>> /\ AllStay
    BY <1>2, HandlerPlaces DEF Handler
  <2>2. \A d \in Cpus : Leaving(d)' <=> Leaving(d)
    BY <1>1, <2>1 DEF Leaving
  <2>3. \A p \in Procs : LeavesCpu(p)' <=> LeavesCpu(p)
    BY <1>1, <2>2 DEF LeavesCpu
  <2>4. \A p \in Procs : StateOK(p)'
    BY <2>1, <2>3, StateStays DEF AllStay
  <2>5. EventsOK'
    BY <1>1, <2>1, <2>2 DEF EventsOK, AllStay, SamePlace, Waiting, Done, Handler
  <2> QED BY <2>4, <2>5 DEF StatesOK
<1>3. CASE current[c] # NULL
  <2>0. PICK p \in Procs : p = current[c]
    BY <1>1, <1>3
  <2>1. /\ procState' = [procState EXCEPT ![p] = HandlerState[cpuEvent[c]]]
        /\ cpuPc'[c] = "dequeue"
        /\ \A d \in Cpus \ {c} : \/ cpuPc'[d] = cpuPc[d]
                                 \/ cpuPc[d] = "idleWait" /\ cpuPc'[d] = "idle"
    <3>1. [cpuPc EXCEPT ![c] = "dequeue"] \in [Cpus -> CpuLabels]
      BY <1>1 DEF CpuLabels
    <3>2. \A d \in Cpus : [cpuPc EXCEPT ![c] = "dequeue"][d]
                            = IF d = c THEN "dequeue" ELSE cpuPc[d]
      BY <1>1
    <3>3. CASE cpuPc' = BroadcastIdle([cpuPc EXCEPT ![c] = "dequeue"])
      BY <1>3, <2>0, <3>1, <3>2, <3>3, BroadcastMoves DEF Handler
    <3>4. CASE cpuPc' = [cpuPc EXCEPT ![c] = "dequeue"]
      BY <1>3, <2>0, <3>2, <3>4 DEF Handler
    <3> QED BY <1>3, <3>3, <3>4 DEF Handler, CpuGoto
  <2>2. /\ ~Leaving(c)'
        /\ \A d \in Cpus \ {c} : Leaving(d)' <=> Leaving(d)
    BY <1>1, <2>1 DEF Leaving
  <2>3. \A q \in Procs \ {p} : LeavesCpu(q)' <=> LeavesCpu(q)
    BY <1>1, <2>0, <2>2 DEF LeavesCpu
  <2>4. OnlyMoves(p)
    BY <2>0, HandlerPlaces DEF AllStay, OnlyMoves
  <2>5. \A d \in Cpus : cpuPc[d] = "setCurrent" => cpuPc'[d] = "setCurrent"
    BY <1>1, <2>1
  <2>6. \A q \in Procs \ {p} : StateOK(q)'
    BY <1>1, <2>1, <2>3, <2>4, <2>5, StateStays DEF OnlyMoves
  <2>7. \A d \in Cpus \ {c} : ~Leaving(d)
    \* two CPUs with an event would be the one CPU that the supervisor waits for
    BY <1>1 DEF Leaving, ThreadsOK, OneEvent, Events
  <2>8. EventsOK'
    BY <1>1, <2>1, <2>2, <2>7 DEF EventsOK
  <2>9. StateOK(p)'
    <3>1. CASE cpuEvent[c] = "PREEMPT"
      <4>1. Ready(p)'
        BY <1>3, <2>0, <3>1, HandlerPlaces
      <4>2. ~Waiting(p)' /\ ~Running(p)'
        BY <4>1 DEF PlacesOK, EachPlaced, Alone
      <4>3. procState'[p] = "READY"
        BY <1>1, <2>1, <3>1 DEF HandlerState
      <4> QED BY <4>2, <4>3 DEF StateOK, Running
    <3>2. CASE cpuEvent[c] # "PREEMPT"
      <4>1. SamePlace(p)
        BY <3>2, HandlerPlaces DEF AllStay
      <4>2. Leaving(c)
        BY <1>1, <3>2 DEF Leaving, Events
      <4>3. CASE cpuEvent[c] = "YIELD"
        <5>1. Waiting(p)'
          BY <1>1, <2>0, <4>1, <4>2, <4>3 DEF EventsOK, SamePlace
        <5>2. ~Ready(p)' /\ ~Running(p)'
          BY <5>1 DEF PlacesOK, EachPlaced, Alone
        <5>3. procState'[p] = "WAITING"
          BY <1>1, <2>1, <4>3 DEF HandlerState
        <5> QED BY <5>2, <5>3 DEF StateOK, Running
      <4>4. CASE cpuEvent[c] = "TERMINATE"
        <5>1. Done(p)'
          BY <1>1, <2>0, <4>1, <4>2, <4>4 DEF EventsOK, SamePlace
        <5>2. ~Ready(p)' /\ ~Running(p)' /\ ~Waiting(p)'
          BY <5>1 DEF PlacesOK, EachPlaced, Placed
        <5>3. procState'[p] = "TERMINATED"
          BY <1>1, <2>1, <4>4 DEF HandlerState
        <5> QED BY <5>2, <5>3 DEF StateOK, Running
      <4> QED BY <1>1, <3>2, <4>3, <4>4 DEF Events
    <3> QED BY <3>1, <3>2
  <2> QED BY <2>6, <2>8, <2>9 DEF StatesOK
<1> QED BY <1>2, <1>3

\* dequeue_ready() takes a process from the ready queue into the hands of
\* schedule(), which has not marked it yet.
LEMMA DequeueStates ==
  ASSUME IInv, IInv', PlacesOK, EventsOK, StatesOK, NEW c \in Cpus, Dequeue(c)
  PROVE  EventsOK' /\ StatesOK'
<1>1. /\ UNCHANGED <<cpuState, current, cpuEvent, opIndex, ioQueue, procState, supPc>>
      /\ cpuPc[c] = "dequeue"
      /\ cpuPc'[c] \in {"dequeue", "setCurrent"}
      /\ \A d \in Cpus \ {c} : cpuPc'[d] = cpuPc[d]
  BY DEF Dequeue, CpuGoto, IInv, TypeOK, CpuTypeOK
<1>2. \A d \in Cpus : Leaving(d)' <=> Leaving(d)
  BY <1>1 DEF Leaving
<1>3. \A p \in Procs : LeavesCpu(p)' <=> LeavesCpu(p)
  BY <1>1, <1>2 DEF LeavesCpu
<1>4. EventsOK'
  BY <1>1, <1>2 DEF EventsOK, Waiting, Done
<1>5. \A d \in Cpus : cpuPc[d] = "setCurrent" => cpuPc'[d] = "setCurrent"
  BY <1>1
<1>6. PlacesOK' /\ (AllStay \/ \E p \in Procs : Ready(p) /\ Held(c)' = p /\ OnlyMoves(p))
  BY DequeuePlaces
<1>7. CASE AllStay
  BY <1>1, <1>3, <1>4, <1>5, <1>7, StateStays DEF AllStay, StatesOK
<1>8. ASSUME NEW p \in Procs, Ready(p), Held(c)' = p, OnlyMoves(p)
      PROVE  StatesOK'
  <2>1. Running(p)'
    BY <1>8 DEF Running
  <2>2. ~Ready(p)' /\ ~Waiting(p)' /\ \A d \in Cpus : Held(d)' = p => d = c
    BY <1>6, <1>8, <2>1 DEF PlacesOK, EachPlaced, Alone
  <2>3. cpuPc'[c] = "setCurrent"
    <3>1. p # NULL
      BY ProcessCountAssumption DEF Procs, NULL
    <3> QED BY <1>1, <1>8, <3>1 DEF Held
  <2>4. StateOK(p)'
    BY <2>1, <2>2, <2>3 DEF StateOK
  <2>5. \A q \in Procs \ {p} : StateOK(q)'
    BY <1>1, <1>3, <1>5, <1>8, StateStays DEF OnlyMoves
  <2> QED BY <2>4, <2>5 DEF StatesOK
<1> QED BY <1>4, <1>6, <1>7, <1>8

\* Only the supervisor calls exit(), and then it is at its end.
ExitOK == status = "exited" => supPc = "exit"

LEMMA InitStates == Init => EventsOK /\ StatesOK /\ ExitOK
<1> SUFFICES ASSUME Init PROVE EventsOK /\ StatesOK /\ ExitOK
  OBVIOUS
<1>1. /\ \A c \in Cpus : cpuPc[c] = "top" /\ cpuState[c] = "IDLE" /\ simCurrent[c] = NULL
      /\ \A p \in Procs : procState[p] = "NEW" /\ p # NULL
      /\ ioQueue = << >> /\ rq.count = 0 /\ status = "running"
  BY ProcessCountAssumption DEF Init, Procs, NULL, InitReadyQueue
<1>2. \A p \in Procs : ~Ready(p) /\ ~Waiting(p)
  BY <1>1 DEF Ready, Waiting
<1>3. \A c \in Cpus : Held(c) = NULL
  BY <1>1 DEF Held
<1> QED BY <1>1, <1>2, <1>3 DEF EventsOK, Leaving, StatesOK, StateOK, ExitOK

LEMMA SpuriousStates ==
  ASSUME IInv, ThreadsOK, PlacesOK, EventsOK, StatesOK, ExitOK, Spurious
  PROVE  EventsOK' /\ StatesOK' /\ (status = "running" => ExitOK')
<1>1. AllStay
  BY SpuriousPlaces
<1>2. \A c \in Cpus : Leaving(c)' <=> Leaving(c)
  BY SpuriousMoves DEF Leaving
<1>3. \A p \in Procs : LeavesCpu(p)' <=> LeavesCpu(p)
  BY <1>2, SpuriousMoves DEF LeavesCpu
<1>4. EventsOK'
  BY <1>2, SpuriousMoves DEF EventsOK, Waiting, Done
<1>5. \A c \in Cpus : cpuPc[c] = "setCurrent" => cpuPc'[c] = "setCurrent"
  BY SpuriousMoves
<1>6. StatesOK'
  BY <1>1, <1>3, <1>5, SpuriousMoves, StateStays DEF AllStay, StatesOK
<1> QED BY <1>4, <1>6, SpuriousMoves DEF ExitOK

LEMMA StatesStep ==
  ASSUME ~Overtakes, IInv, IInv', ThreadsOK, PlacesOK, PlacesOK', EventsOK,
         StatesOK, ExitOK, [Next]_vars
  PROVE  EventsOK' /\ StatesOK' /\ ExitOK'
<1>1. CASE status = "running" /\ Supervisor
  <2>1. EventsOK' /\ StatesOK'
    BY <1>1, SupervisorStates, SimulateCpusStates
  <2>2. ExitOK'
    BY <1>1 DEF ExitOK, Supervisor, SupLock, ReaderLock, ReaderUnlock, SimulateCpus,
       EventHandled, SimulateIo, SimulateCreat, WakeLock, WakeEnqueue, WakeScan,
       ForcePreemptUnlock, ForcePreemptCheck, ForcePreemptLock, WakeUnlock, WakeReturn,
       SupGoto
  <2> QED BY <2>1, <2>2
<1>2. ASSUME status = "running", NEW c \in Cpus, CpuThread(c)
      PROVE  EventsOK' /\ StatesOK' /\ ExitOK'
  <2>1. EventsOK' /\ StatesOK'
    BY <1>2, CpuThreadStates, HandlerStates, DequeueStates DEF CpuThread
  <2>2. status' # "exited"
    BY <1>2 DEF CpuThread, LoopTop, RunWoken, CountTerminated, EnterHandler, Handler,
       Idle, Dequeue, SetCurrent, SwitchUnlock, SwitchStore, SwitchLock, LeaveHandler,
       Crash
  <2> QED BY <2>1, <2>2 DEF ExitOK
<1>3. CASE UNCHANGED vars
  <2>1. \A c \in Cpus : (Held(c)' = Held(c)) /\ (Leaving(c)' <=> Leaving(c))
    BY <1>3 DEF vars, Held, Leaving
  <2>2. \A p \in Procs : SamePlace(p) /\ (LeavesCpu(p)' <=> LeavesCpu(p))
    BY <1>3, <2>1 DEF vars, SamePlace, Ready, Waiting, BeingWoken, Done, New, LeavesCpu
  <2>3. StatesOK'
    BY <1>3, <2>2, StateStays DEF vars, StatesOK
  <2>4. EventsOK' /\ ExitOK'
    BY <1>3, <2>1 DEF vars, EventsOK, ExitOK, Waiting, Done
  <2> QED BY <2>3, <2>4
<1> QED BY <1>1, <1>2, <1>3, SpuriousStates DEF Next, Halted

LEMMA StatesTell ==
  ASSUME IInv, PlacesOK, EventsOK, StatesOK, ExitOK, TerminationsCounted
  PROVE  StateMatchesPlace
<1>1. \A p \in Procs : LeavesCpu(p) => supPc \in {"eventWait", "eventWoken"}
  BY DEF LeavesCpu, Leaving, EventsOK
<1>2. \A p \in Procs : /\ Ready(p) => procState[p] = "READY"
                       /\ Waiting(p) /\ supPc \notin {"eventWait", "eventWoken"}
                            => procState[p] = "WAITING"
  BY <1>1 DEF StatesOK, StateOK
<1>3. ASSUME NEW c \in Cpus, cpuPc[c] \in {"runWait", "runWoken", "top"}, Held(c) # NULL
      PROVE  procState[Held(c)] = "RUNNING"
  <2>1. simCurrent[c] \in Procs \cup {NULL}
    BY DEF IInv, TypeOK, CpuTypeOK
  <2>2. PICK p \in Procs : p = Held(c)
    BY <1>3, <2>1 DEF Held
  <2> QED BY <1>3, <2>2 DEF StatesOK, StateOK
<1>4. ASSUME status = "exited", NEW p \in Procs
      PROVE  procState[p] # "RUNNING"
  <2>1. ~LeavesCpu(p)
    BY <1>1, <1>4 DEF ExitOK
  <2>2. ~Running(p)
    BY <1>4 DEF TerminationsCounted, PlacesOK, EachPlaced, Placed
  <2> QED BY <2>1, <2>2 DEF StatesOK, StateOK
<1> QED BY <1>2, <1>3, <1>4 DEF StateMatchesPlace

\* What each half of PlacesOK says of the states, up to the first overtaking.
StatesInv == ~overtaken => EventsOK /\ StatesOK /\ ExitOK

\* StateMatchesPlaceInOrder: in the simulator as it is built, up to the first
\* overtaking, the state in a PCB, which wake_up(), the handlers and schedule()
\* write from different threads, tells where the process is, for every number
\* of CPUs and processes and every program.
THEOREM StatesTellPlaces == HSpec => []StateMatchesPlaceInOrder
<1>1. HInit => StatesInv
  BY InitStates DEF HInit, StatesInv
<1>2. IInv /\ IInv' /\ OrderInv /\ OrderInv' /\ StatesInv /\ [HNext]_hvars
        => StatesInv'
  BY HistoryStep, StatesStep DEF OrderInv, StatesInv
<1>3. IInv /\ OrderInv /\ StatesInv /\ TerminationsCounted
        => StateMatchesPlaceInOrder
  BY StatesTell DEF OrderInv, StatesInv, StateMatchesPlaceInOrder
<1> QED BY <1>1, <1>2, <1>3, HistorySpec, SpecInv, PlacesSpec, ExitIsNeverEarly, PTL
        DEF HSpec
=============================================================================
