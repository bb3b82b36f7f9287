--------------------------- MODULE Problem0Proofs ---------------------------
(***************************************************************************)
(* Theorems about Problem0, for any number of counting threads and any     *)
(* limit, with spurious wakeups wherever they may happen.                  *)
(***************************************************************************)
EXTENDS Problem0, TLAPS

MainLabels == {"lock", "while", "wait", "waiting", "woken", "unlock", "exit"}
CounterLabels == {"while", "lock", "read", "write", "check", "signal", "unlock", "done"}

\* The statements of increment() at which a thread should hold the mutex.
Critical == {"read", "write", "check", "signal", "unlock"}

TypeOK ==
  /\ at \in [Threads -> MainLabels \cup CounterLabels]
  /\ at["main"] \in MainLabels
  /\ count \in Nat /\ increments \in Nat
  /\ finished \in BOOLEAN /\ spurious \in BOOLEAN
  /\ lock \in Threads \cup {NULL}
  /\ seen \in [Counters -> Nat]

\* The counter, and what a thread has read of it, is never ahead of the
\* increments, and finished is set only when it was at the limit.
Bounded ==
  /\ count <= increments
  /\ \A t \in Counters : seen[t] <= increments
  /\ finished => increments >= Limit
  /\ at["main"] = "exit" => finished

\* Who is in a critical section holds the mutex; main() has it when it waits,
\* and from the moment it is woken finished is set, so that it does not wait
\* without the mutex.
Exclusive ==
  /\ \A t \in Counters : at[t] \in Critical => lock = t
  /\ \A t \in Counters : at[t] = "signal" => finished
  /\ at["main"] = "while" => lock = "main" \/ finished
  /\ at["main"] \in {"wait", "unlock"} => lock = "main"
  /\ at["main"] \in {"woken", "unlock"} => finished

\* What a thread has read is still there when it writes.
Accurate ==
  /\ count = increments
  /\ \A t \in Counters : at[t] = "write" => seen[t] = count

\* Both hold as long as nothing but the signal has woken main().
Guarded == ~spurious => Exclusive /\ Accurate

\* main() is none of the counting threads, and no thread is NULL.
LEMMA Names == /\ "main" \notin Counters /\ NULL \notin Threads
               /\ "main" \in Threads /\ Counters \subseteq Threads
  BY CountersAssumption DEF Threads

-----------------------------------------------------------------------------
LEMMA InitInv == Init => TypeOK /\ Bounded /\ Guarded
<1> SUFFICES ASSUME Init PROVE TypeOK /\ Bounded /\ Guarded
  OBVIOUS
<1>1. at["main"] = "lock" /\ \A t \in Counters : at[t] = "while"
  BY Names DEF Init
<1>2. TypeOK
  BY <1>1, Names DEF Init, TypeOK, MainLabels, CounterLabels
<1>3. Bounded
  BY <1>1 DEF Init, Bounded
<1>4. Guarded
  BY <1>1 DEF Init, Guarded, Exclusive, Accurate, Critical
<1> QED BY <1>2, <1>3, <1>4

LEMMA NextType == TypeOK /\ [Next]_vars => TypeOK'
<1> SUFFICES ASSUME TypeOK, [Next]_vars
             PROVE  TypeOK'
  OBVIOUS
<1> USE Names DEF TypeOK, MainLabels, CounterLabels, At, Go, Acquire, Release
<1>1. CASE Main
  BY <1>1 DEF Main, LockMain, TestFinished, Wait, Relock, UnlockMain
<1>2. CASE WakeSpuriously
  BY <1>2 DEF WakeSpuriously
<1>3. ASSUME NEW t \in Counters, Increment(t)
      PROVE  TypeOK'
  <2>1. CASE Test(t)
    BY <2>1 DEF Test
  <2>2. CASE LockCount(t)
    BY <2>2 DEF LockCount
  <2>3. CASE ReadCount(t)
    BY <2>3 DEF ReadCount
  <2>4. CASE WriteCount(t)
    BY <2>4 DEF WriteCount
  <2>5. CASE Check(t)
    BY <2>5 DEF Check
  <2>6. CASE Signal(t)
    BY <2>6 DEF Signal
  <2>7. CASE UnlockCount(t)
    BY <2>7 DEF UnlockCount
  <2> QED BY <1>3, <2>1, <2>2, <2>3, <2>4, <2>5, <2>6, <2>7 DEF Increment
<1>4. CASE UNCHANGED vars
  BY <1>4 DEF vars
<1> QED BY <1>1, <1>2, <1>3, <1>4 DEF Next

\* Every statement of every thread keeps the bounds.
LEMMA NextBounded == TypeOK /\ Bounded /\ [Next]_vars => Bounded'
<1> SUFFICES ASSUME TypeOK, Bounded, [Next]_vars
             PROVE  Bounded'
  OBVIOUS
<1> USE Names, LimitAssumption DEF TypeOK, Bounded, MainLabels, At, Go
<1>1. CASE Main
  BY <1>1 DEF Main, LockMain, TestFinished, Wait, Relock, UnlockMain
<1>2. CASE WakeSpuriously
  BY <1>2 DEF WakeSpuriously
<1>3. ASSUME NEW t \in Counters, Increment(t)
      PROVE  Bounded'
  <2>1. CASE Test(t)
    BY <2>1 DEF Test
  <2>2. CASE LockCount(t)
    BY <2>2 DEF LockCount
  <2>3. CASE ReadCount(t)
    BY <2>3 DEF ReadCount
  <2>4. CASE WriteCount(t)
    BY <2>4 DEF WriteCount
  <2>5. CASE Check(t)
    BY <2>5 DEF Check
  <2>6. CASE Signal(t)
    BY <2>6 DEF Signal
  <2>7. CASE UnlockCount(t)
    BY <2>7 DEF UnlockCount
  <2> QED BY <1>3, <2>1, <2>2, <2>3, <2>4, <2>5, <2>6, <2>7 DEF Increment
<1>4. CASE UNCHANGED vars
  BY <1>4 DEF vars
<1> QED BY <1>1, <1>2, <1>3, <1>4 DEF Next

\* Every statement of every thread keeps the mutex in the right hands.
LEMMA NextGuarded == TypeOK /\ Guarded /\ [Next]_vars => Guarded'
<1> SUFFICES ASSUME TypeOK, Guarded, [Next]_vars, ~spurious'
             PROVE  Exclusive' /\ Accurate'
  BY DEF Guarded
<1>0. ~spurious /\ Exclusive /\ Accurate
  BY DEF Guarded, Next, Main, LockMain, TestFinished, Wait, Relock,
    UnlockMain, WakeSpuriously, Increment, Test, LockCount, ReadCount,
    WriteCount, Check, Signal, UnlockCount, vars, TypeOK
<1> USE <1>0, Names DEF TypeOK, Exclusive, Accurate, Critical, At, Go,
                        Acquire, Release
<1>1. CASE LockMain
  BY <1>1 DEF LockMain
<1>2. CASE TestFinished
  BY <1>2 DEF TestFinished
<1>3. CASE Wait
  BY <1>3 DEF Wait
<1>4. CASE Relock
  BY <1>4 DEF Relock
<1>5. CASE UnlockMain
  BY <1>5 DEF UnlockMain
<1>6. CASE WakeSpuriously
  BY <1>6 DEF WakeSpuriously
<1>7. ASSUME NEW t \in Counters, Increment(t)
      PROVE  Exclusive' /\ Accurate'
  <2>1. CASE Test(t)
    BY <2>1 DEF Test
  <2>2. CASE LockCount(t)
    BY <2>2 DEF LockCount
  <2>3. CASE ReadCount(t)
    BY <2>3 DEF ReadCount
  <2>4. CASE WriteCount(t)
    BY <2>4 DEF WriteCount
  <2>5. CASE Check(t)
    BY <2>5 DEF Check
  <2>6. CASE Signal(t)
    BY <2>6 DEF Signal
  <2>7. CASE UnlockCount(t)
    BY <2>7 DEF UnlockCount
  <2> QED BY <1>7, <2>1, <2>2, <2>3, <2>4, <2>5, <2>6, <2>7 DEF Increment
<1>8. CASE UNCHANGED vars
  BY <1>8 DEF vars
<1> QED BY <1>1, <1>2, <1>3, <1>4, <1>5, <1>6, <1>7, <1>8 DEF Next, Main

-----------------------------------------------------------------------------
LEMMA Invariants == Spec => [](TypeOK /\ Bounded /\ Guarded)
<1>1. TypeOK /\ Bounded /\ Guarded /\ [Next]_vars => (TypeOK /\ Bounded /\ Guarded)'
  BY NextType, NextBounded, NextGuarded
<1> QED BY InitInv, <1>1, PTL DEF Spec

\* main() goes on only when the limit is reached, whatever wakes it and
\* however often it has released a mutex of another thread before
\* (problem_0.c:58-63).
THEOREM NeverExitsEarly == Spec => []ExitsAtLimit
<1>1. Bounded => ExitsAtLimit
  BY DEF Bounded, ExitsAtLimit
<1> QED BY <1>1, Invariants, PTL

\* Any number of threads may count: without spurious wakeups the mutex
\* protects every increment (problem_0.c:38-48 and 57-61).
THEOREM NothingIsLost == Spec => []NoIncrementLost
<1>1. Guarded => NoIncrementLost
  BY DEF Guarded, Accurate, NoIncrementLost
<1> QED BY <1>1, Invariants, PTL
=============================================================================
