-------------------------- MODULE Lc2200Properties --------------------------
(***************************************************************************)
(* What the programs of Lc2200 must do.                                    *)
(***************************************************************************)
EXTENDS Lc2200

FactorialOf[n \in Nat] == IF n = 0 THEN 1 ELSE n * FactorialOf[n - 1]

Halted == IsCode(pc) /\ Fetch(pc).op = "halt"

\* The program has halted with the factorial of its argument in v0 and the
\* stack as it was.
Finished ==
  /\ Halted /\ active = <<>>
  /\ reg["v0"] = FactorialOf[Argument] /\ reg["sp"] = Words["stack"]

\* A keyboard handler that was interrupted is about to use a pointer that is
\* none.
Astray == Wild /\ nested /\ key > 0

\* The program stops, with its result or astray, and in no other way, however
\* interrupts nest (prj2.s:53-54).  A function that returns to the wrong place
\* or a handler that leaves a register or the stack changed would stop it
\* elsewhere, or never.
CompletesWithFactorial == <>[](Finished \/ Astray)

\* The safety half of it: nothing else stops the program.
StopsRight == ~ Running => Finished \/ Astray

\* A handler returns to the instruction it interrupted, and what the program
\* computes with is as it was: k0 and the registers that a handler uses
\* without saving them are all that may differ (prj2.s:152-170).
ReturnOK ==
  active' = Front(active) =>
    /\ pc' = Last(active).pc
    /\ \A r \in Registers \ {"k0", "a1", "a2", "a3"} :
         reg'[r] = Last(active).reg[r]
ReturnsIntact == [][active # <<>> /\ Len(active') < Len(active) => ReturnOK]_vars

Cell(l) == Load(Words[l])
Time == (Cell("hours") * (Limit + 1) + Cell("minutes")) * (Limit + 1)
          + Cell("seconds")

\* The clock shows the number of timer interrupts, and the characters typed
\* stand one after the other in memory, if no handler has ever been
\* interrupted and none is active (prj2.s:121-150 and prj2-keyboard.s:205-212).
\* The condition is needed: the timer handler runs with interrupts on and
\* leaves a1 and a3 changed in what it interrupts.
UninterruptedHandlersCount ==
  ~nested /\ active = <<>> =>
    /\ Time = ticks
    /\ Load(Labels["keyboard_out"]) = Words["keyboard_out"] + key
    /\ \A n \in 1 .. key : Load(Words["keyboard_out"] + n - 1) = n

AtStoreOfKey == Fetch(pc) = Sw("a0", "a2", 0)

\* A handler stores the character that interrupted for it, whatever has
\* interrupted the handler since: it reads the keyboard before it enables
\* interrupts (prj2-keyboard.s:182-188).
StoresOwnKey == AtStoreOfKey => reg["a0"] = Last(active).key
=============================================================================
