----------------------------- MODULE ReadyQueue -----------------------------
(***************************************************************************)
(* The ready queue of student.c: a singly linked list threaded through the *)
(* `next' fields of the PCBs, with a head, a tail and a count, every       *)
(* operation under ready_queue_mutex.  A queue is a record, an operation   *)
(* an operator on it; the module that owns the queue decides when the      *)
(* mutex is free.                                                          *)
(*                                                                         *)
(* Neither operation ever clears a `next' field, so a PCB that left the    *)
(* queue keeps pointing at its old successor.  It is `count', and not a    *)
(* NULL at the end, that says where the list stops.                        *)
(***************************************************************************)
EXTENDS Integers, Sequences

CONSTANT ProcessCount                   \* PROCESS_COUNT

ASSUME ProcessCountAssumption == ProcessCount \in Nat \ {0}

NULL  == 0
Procs == 1 .. ProcessCount              \* the array processes[], from 1

Queues == [head  : Procs \cup {NULL},
           tail  : Procs \cup {NULL},
           count : Nat,
           next  : [Procs -> Procs \cup {NULL}]]

\* malloc leaves head and tail undefined; neither is read while count is 0.
InitReadyQueue == [head  |-> NULL,
                   tail  |-> NULL,
                   count |-> 0,
                   next  |-> [p \in Procs |-> NULL]]

\* Mistake: a non-empty list keeps its old tail.
EnqueueReadyOldTail(q, p) ==
  IF q.count = 0
  THEN [q EXCEPT !.head = p, !.tail = p, !.count = 1]
  ELSE [q EXCEPT !.next[q.tail] = p, !.count = @ + 1]

EnqueueReady(q, p) ==
  IF q.count = 0
  THEN [q EXCEPT !.head = p, !.tail = p, !.count = 1]
  ELSE [q EXCEPT !.next[q.tail] = p, !.tail = p, !.count = @ + 1]

\* The PCB dequeue_ready() returns, and the queue it leaves behind.
DequeueResult(q) == IF q.count = 0 THEN NULL ELSE q.head

\* Mistake: the empty list is not told apart.
DequeueReadyUnchecked(q) ==
  [q EXCEPT !.head = IF @ = NULL THEN NULL ELSE q.next[@], !.count = @ - 1]

DequeueReady(q) ==
  CASE q.count = 0 -> q
    [] q.count = 1 -> [q EXCEPT !.head = NULL, !.tail = NULL, !.count = 0]
    [] OTHER       -> [q EXCEPT !.head = q.next[q.head], !.count = @ - 1]

\* dequeue_ready() follows a NULL head: only a corrupted list gets there.
DequeueCrashes(q) == q.count > 1 /\ q.head = NULL

-----------------------------------------------------------------------------
\* The list that count and the next fields describe, as a sequence.
Contents(q) ==
  LET node[i \in 1 .. q.count] ==
        IF i = 1 THEN q.head
        ELSE IF node[i-1] = NULL THEN NULL ELSE q.next[node[i-1]]
  IN  [i \in 1 .. q.count |-> node[i]]

\* The same as a relation: q is a well-formed list that holds s.
Represents(q, s) ==
  /\ q.count = Len(s)
  /\ Len(s) > 0 => /\ q.head = s[1]
                   /\ q.tail = s[Len(s)]
  /\ \A i \in 1 .. Len(s) - 1 : q.next[s[i]] = s[i+1]
=============================================================================
