----------------------------- MODULE FifoQueue ------------------------------
(***************************************************************************)
(* What the ready queue promises: a process is never in it twice, and the  *)
(* processes leave it in the order they entered.                           *)
(***************************************************************************)
EXTENDS Sequences, Integers

CONSTANT Procs
VARIABLE queue

Init == queue = << >>

Enqueue(p) == /\ \A i \in 1 .. Len(queue) : queue[i] # p
              /\ queue' = Append(queue, p)

Dequeue == /\ queue # << >>
           /\ queue' = Tail(queue)

Next == Dequeue \/ \E p \in Procs : Enqueue(p)

Spec == Init /\ [][Next]_queue
=============================================================================
