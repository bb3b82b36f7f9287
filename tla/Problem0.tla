------------------------------ MODULE Problem0 ------------------------------
(***************************************************************************)
(* problem_0.c of project 6: two threads count to a limit, main() waits    *)
(* on a condition variable until they are there.  A thread is at the       *)
(* statement that at[t] names.  The mutex is a normal one of glibc, which  *)
(* anybody can unlock.                                                     *)
(***************************************************************************)
EXTENDS Integers, FiniteSets

CONSTANTS
  Counters, \* the threads that run increment()
  Limit,    \* the count to wait for, 1000 in the code
  NULL

ASSUME LimitAssumption == Limit \in Nat \ {0}
ASSUME CountersAssumption ==
  /\ IsFiniteSet(Counters) /\ "main" \notin Counters
  /\ NULL \notin Counters \cup {"main"}

VARIABLES
  at,         \* statement of each thread
  count,      \* count
  finished,   \* finished
  lock,       \* the thread that holds the mutex, or NULL
  seen,       \* the value of count that a thread is about to increment
  increments, \* history: increments that are done
  spurious    \* history: pthread_cond_wait() has returned without a signal
vars == <<at, count, finished, lock, seen, increments, spurious>>

Threads == Counters \cup {"main"}

Init ==
  /\ at = [t \in Threads |-> IF t = "main" THEN "lock" ELSE "while"]
  /\ count = 0 /\ finished = FALSE /\ lock = NULL
  /\ seen = [t \in Counters |-> 0]
  /\ increments = 0 /\ spurious = FALSE

At(t, here) == at["main"] # "exit" /\ at[t] = here
Go(t, there) == at' = [at EXCEPT ![t] = there]

\* Mistake: nobody looks who has the mutex.
AcquireAnyway(t) == lock' = t
Acquire(t) == lock = NULL /\ lock' = t
Release == lock' = NULL

BelowLimit == count <= Limit

\* The loop reads count without the mutex.
Test(t) ==
  /\ At(t, "while") /\ Go(t, IF BelowLimit THEN "lock" ELSE "done")
  /\ UNCHANGED <<count, finished, lock, seen, increments, spurious>>

LockCount(t) ==
  /\ At(t, "lock") /\ Go(t, "read") /\ Acquire(t)
  /\ UNCHANGED <<count, finished, seen, increments, spurious>>

ReadCount(t) ==
  /\ At(t, "read") /\ Go(t, "write")
  /\ seen' = [seen EXCEPT ![t] = count]
  /\ UNCHANGED <<count, finished, lock, increments, spurious>>

WriteCount(t) ==
  /\ At(t, "write") /\ Go(t, "check")
  /\ count' = seen[t] + 1 /\ increments' = increments + 1
  /\ UNCHANGED <<finished, lock, seen, spurious>>

Check(t) ==
  /\ At(t, "check")
  /\ Go(t, IF count = Limit THEN "signal" ELSE "unlock")
  /\ finished' = (finished \/ count = Limit)
  /\ UNCHANGED <<count, lock, seen, increments, spurious>>

\* A signal that nobody waits for is lost.
Signal(t) ==
  /\ At(t, "signal")
  /\ at' = [at EXCEPT ![t] = "unlock",
                      !["main"] = IF @ = "waiting" THEN "woken" ELSE @]
  /\ UNCHANGED <<count, finished, lock, seen, increments, spurious>>

UnlockCount(t) ==
  /\ At(t, "unlock") /\ Go(t, "while") /\ Release
  /\ UNCHANGED <<count, finished, seen, increments, spurious>>

Increment(t) ==
  \/ Test(t) \/ LockCount(t) \/ ReadCount(t) \/ WriteCount(t)
  \/ Check(t) \/ Signal(t) \/ UnlockCount(t)

-----------------------------------------------------------------------------
\* Mistake: main() forgets to lock before it tests finished.
LockMainNot ==
  /\ At("main", "lock") /\ Go("main", "while")
  /\ UNCHANGED <<count, finished, lock, seen, increments, spurious>>
LockMain ==
  /\ At("main", "lock") /\ Go("main", "while") /\ Acquire("main")
  /\ UNCHANGED <<count, finished, seen, increments, spurious>>

TestFinished ==
  /\ At("main", "while") /\ Go("main", IF finished THEN "exit" ELSE "wait")
  /\ UNCHANGED <<count, finished, lock, seen, increments, spurious>>

\* The mutex is released, whoever holds it, and main() waits.
Wait ==
  /\ At("main", "wait") /\ Go("main", "waiting") /\ Release
  /\ UNCHANGED <<count, finished, seen, increments, spurious>>

\* POSIX lets pthread_cond_wait() return without a signal.
WakeSpuriously ==
  /\ At("main", "waiting") /\ Go("main", "woken") /\ spurious' = TRUE
  /\ UNCHANGED <<count, finished, lock, seen, increments>>

Relock ==
  /\ At("main", "woken") /\ Go("main", "unlock") /\ Acquire("main")
  /\ UNCHANGED <<count, finished, seen, increments, spurious>>

\* Mistake: an if where the loop is.
UnlockMainOnce ==
  /\ At("main", "unlock") /\ Go("main", "exit") /\ Release
  /\ UNCHANGED <<count, finished, seen, increments, spurious>>
UnlockMain ==
  /\ At("main", "unlock") /\ Go("main", "while") /\ Release
  /\ UNCHANGED <<count, finished, seen, increments, spurious>>

Main == LockMain \/ TestFinished \/ Wait \/ Relock \/ UnlockMain

Next == Main \/ WakeSpuriously \/ \E t \in Counters : Increment(t)

\* Every thread runs on; nothing makes a spurious wakeup happen.
Spec ==
  /\ Init /\ [][Next]_vars
  /\ WF_vars(Main) /\ \A t \in Counters : WF_vars(Increment(t))

-----------------------------------------------------------------------------
\* No increment overwrites another one, although the loops test count
\* without the mutex and main() unlocks the mutex before it waits: as long as
\* there is no wakeup but by the signal, main() waits once
\* (problem_0.c:38-40 and 58-61).
NoIncrementLost == ~spurious => count = increments

\* The program ends: main() cannot miss the one signal it waits for, as long
\* as nothing else wakes it (problem_0.c:43-46 and 57-61).
ShutsDown == <>(at["main"] = "exit" \/ spurious)

\* Whatever wakes main(), it goes on only when so many increments are done
\* as the limit asks for (problem_0.c:58-63).
ExitsAtLimit == at["main"] = "exit" => increments >= Limit
=============================================================================
