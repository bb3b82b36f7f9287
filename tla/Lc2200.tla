------------------------------- MODULE Lc2200 -------------------------------
(***************************************************************************)
(* The factorial program of project 2 with its timer and keyboard          *)
(* interrupt handlers, one instruction at a time on the LC-2200.  The      *)
(* processor is the external part: it is a Logisim drawing, modelled from  *)
(* how the programs use it.  prj2.s is the program without the keyboard.   *)
(***************************************************************************)
EXTENDS Integers, Sequences, SequencesExt

CONSTANTS
  Devices,       \* {"timer"} for prj2.s, {"timer", "keyboard"} for the other
  Argument,      \* the number to take the factorial of, 5 in the code
  Limit,         \* the last second and the last minute, 59 in the code
  MaxInterrupts  \* bound: interrupts of one execution; each one outside of
                 \* main counts twice

ASSUME DevicesAssumption == Devices \subseteq {"timer", "keyboard"}
ASSUME NumbersAssumption ==
  /\ Argument \in Nat
  /\ {Limit, MaxInterrupts} \subseteq Nat \ {0}

Registers == {"zero", "at", "v0", "a0", "a1", "a2", "a3", "s0", "s1",
              "k0", "sp", "ra"}

-----------------------------------------------------------------------------
(* Instructions.  A label stands for itself until Resolve gives its value. *)

Addi(d, s, i)  == [op |-> "addi", d |-> d, s |-> s, i |-> i]
Add(d, s, t)   == [op |-> "add", d |-> d, s |-> s, t |-> t]
Lw(d, s, i)    == [op |-> "lw", d |-> d, s |-> s, i |-> i]
Sw(d, s, i)    == [op |-> "sw", d |-> d, s |-> s, i |-> i]
La(d, l)       == [op |-> "la", d |-> d, l |-> l]
Beq(s, t, l)   == [op |-> "beq", s |-> s, t |-> t, l |-> l]
Jalr(s, d)     == [op |-> "jalr", d |-> d, s |-> s]
Bonj(d)        == [op |-> "bonj", d |-> d]
Ei   == [op |-> "ei"]
Di   == [op |-> "di"]
Reti == [op |-> "reti"]
Halt == [op |-> "halt"]

Goto(l) == Beq("zero", "zero", l)
Push(r) == <<Addi("sp", "sp", -1), Sw(r, "sp", 0)>>
Pop(r)  == <<Lw(r, "sp", 0), Addi("sp", "sp", 1)>>

\* The values that a handler and a function save, in order.
Pushes(rs) == FlattenSeq([n \in DOMAIN rs |-> Push(rs[n])])
Pops(rs)   == FlattenSeq([n \in DOMAIN rs |-> Pop(rs[n])])

-----------------------------------------------------------------------------
(* The program: sections of code, each with its label.                     *)

InstallKeyboard ==
  IF "keyboard" \in Devices
  THEN <<La("a0", "keyboard_handler"), Sw("a0", "zero", 2)>> ELSE <<>>

Main ==
  <<La("sp", "stack"), Lw("sp", "sp", 0),
    La("a0", "ti_inthandler"), Sw("a0", "zero", 1)>>
  \o InstallKeyboard
  \o <<Ei, La("at", "factorial"), Addi("a0", "zero", Argument),
       Jalr("at", "ra"), Halt>>

\* Mistake: the call of the function to itself changes s1.
FactorialSavedButS1 == <<"ra", "a0", "s0">>
FactorialSaved == <<"ra", "a0", "s0", "s1">>

Factorial ==
  <<[label |-> "factorial", code |-> Pushes(FactorialSaved) \o
      <<Beq("a0", "zero", "base_zero"), Addi("s1", "zero", 1),
        Beq("a0", "s1", "base_one"), Goto("recurse")>>],
    [label |-> "base_zero", code |-> <<Addi("v0", "zero", 1), Goto("done")>>],
    [label |-> "base_one", code |-> <<Addi("v0", "zero", 1), Goto("done")>>],
    [label |-> "recurse", code |->
      <<Add("s1", "a0", "zero"), Addi("a0", "a0", -1),
        La("at", "factorial"), Jalr("at", "ra"),
        Add("s0", "v0", "zero"), Add("v0", "zero", "zero")>>],
    [label |-> "mul", code |->
      <<Beq("s1", "zero", "done"), Add("v0", "v0", "s0"),
        Addi("s1", "s1", -1), Goto("mul")>>],
    [label |-> "done", code |->
      Pops(Reverse(FactorialSaved)) \o <<Jalr("ra", "zero")>>]>>

TimerSaved == <<"ra", "a0", "s0", "s1", "v0", "at">>

TimerEntry == Push("k0") \o <<Ei>> \o Pushes(TimerSaved)
\* Mistake: the return address is restored with interrupts on.
TimerExitEnabled == Pops(Reverse(TimerSaved)) \o Pop("k0") \o <<Reti>>
TimerExit == Pops(Reverse(TimerSaved)) \o <<Di>> \o Pop("k0") \o <<Reti>>

\* Load the cell of the clock that the word at l points to.
LoadCell(l) == <<La("a0", l), Lw("a0", "a0", 0), Lw("a1", "a0", 0)>>
AddOne == <<Addi("a1", "a1", 1), Sw("a1", "a0", 0)>>
\* Mistake: the zero is not stored.
ResetUnstored == <<Add("a1", "zero", "zero")>>
Reset == <<Add("a1", "zero", "zero"), Sw("a1", "a0", 0)>>

TimerHandler ==
  <<[label |-> "ti_inthandler", code |->
      TimerEntry \o LoadCell("seconds") \o
      <<Addi("a3", "zero", Limit), Beq("a1", "a3", "inc_minutes")>>
      \o AddOne \o <<Goto("clean_up")>>],
    [label |-> "inc_minutes", code |->
      Reset \o LoadCell("minutes") \o <<Beq("a1", "a3", "inc_hours")>>
      \o AddOne \o <<Goto("clean_up")>>],
    [label |-> "inc_hours", code |-> Reset \o LoadCell("hours") \o AddOne],
    [label |-> "clean_up", code |-> TimerExit]>>

KeyboardSaved == <<"ra", "s0", "s1", "v0", "at">>

\* Mistake: interrupts are on before the keyboard is read.
KeyboardEntryLate ==
  Push("k0") \o Push("a0") \o <<Ei, Bonj("a0")>> \o Pushes(KeyboardSaved)
KeyboardEntry ==
  Push("k0") \o Push("a0") \o <<Bonj("a0"), Ei>> \o Pushes(KeyboardSaved)

StoreKey ==
  <<La("a1", "keyboard_out"), Lw("a2", "a1", 0), Sw("a0", "a2", 0),
    Addi("a2", "a2", 1), Sw("a2", "a1", 0)>>

KeyboardExit ==
  Pops(Reverse(KeyboardSaved)) \o Pop("a0") \o <<Di>> \o Pop("k0") \o <<Reti>>

KeyboardHandler ==
  <<[label |-> "keyboard_handler",
     code |-> KeyboardEntry \o StoreKey \o KeyboardExit]>>

\* The words behind the code, and what .fill puts in them.
Words == [stack |-> 10485760, seconds |-> 16777212, minutes |-> 16777213,
          hours |-> 16777214, keyboard_out |-> 15658720]
WordOrder == <<"stack", "seconds", "minutes", "hours", "keyboard_out">>

\* Below the stack there is room for the program and for what is pushed, four
\* words a call and at most seven a handler; the characters end below the clock.
ASSUME RoomAssumption ==
  /\ 200 + 4 * Argument + 8 * MaxInterrupts <= Words["stack"]
  /\ Words["keyboard_out"] + MaxInterrupts < Words["seconds"]

-----------------------------------------------------------------------------
(* Layout: the vector table, the sections and the words, from address 0.   *)

Sections ==
  <<[label |-> "main", code |-> Main]>> \o Factorial \o TimerHandler \o
  (IF "keyboard" \in Devices THEN KeyboardHandler ELSE <<>>)

Code == FlattenSeq([n \in DOMAIN Sections |-> Sections[n].code])

\* A section starts behind the vector table and the sections before it.
SectionAt(n) ==
  16 + Len(FlattenSeq([k \in 1 .. n - 1 |-> Sections[k].code]))

CodeLabels == {Sections[n].label : n \in DOMAIN Sections}
Labels ==
  [l \in CodeLabels \cup DOMAIN Words |->
     IF l \in CodeLabels
     THEN SectionAt(CHOOSE n \in DOMAIN Sections : Sections[n].label = l)
     ELSE 15 + Len(Code) + CHOOSE n \in DOMAIN WordOrder : WordOrder[n] = l]

Fetch(a) == Code[a - 15]
IsCode(a) == a - 15 \in DOMAIN Code

-----------------------------------------------------------------------------
VARIABLES
  pc,      \* address of the next instruction
  ie,      \* interrupts are enabled
  reg,     \* Registers -> value
  mem,     \* the words of memory but the code; one that is missing is 0
  ticks,   \* timer interrupts so far
  key,     \* the character at the keyboard: the n-th one typed is n
  active,  \* history: what the handlers that are active have interrupted
  nested,  \* history: a handler has been interrupted
  spent    \* history: what counts towards MaxInterrupts
machine == <<pc, ie, reg, mem>>
history == <<ticks, key, active, nested, spent>>
vars == <<machine, history>>

Init ==
  /\ pc = Labels["main"] /\ ie = FALSE
  /\ reg = [r \in Registers |-> 0]
  /\ mem = [a \in {Labels[l] : l \in DOMAIN Words} |->
              Words[CHOOSE l \in DOMAIN Words : Labels[l] = a]]
  /\ ticks = 0 /\ key = 0 /\ active = <<>>
  /\ nested = FALSE /\ spent = 0

Load(a) == IF a \in DOMAIN mem THEN mem[a] ELSE 0

\* An access through a register that would read or change the code, or change
\* the vector table.  The model stops before it.
Wild ==
  /\ Fetch(pc).op \in {"lw", "sw"} /\ Fetch(pc).s # "zero"
  /\ LET a == reg[Fetch(pc).s] + Fetch(pc).i
     IN a < 16 + Len(Code) /\ (Fetch(pc).op = "lw" => a >= 16)

Running == IsCode(pc) /\ Fetch(pc).op # "halt" /\ ~Wild

\* Register zero stays 0.
Written(d, v) == IF d = "zero" THEN reg ELSE [reg EXCEPT ![d] = v]

Result(i) ==
  CASE i.op = "addi" -> reg[i.s] + i.i
    [] i.op = "add"  -> reg[i.s] + reg[i.t]
    [] i.op = "lw"   -> Load(reg[i.s] + i.i)
    [] i.op = "la"   -> Labels[i.l]
    [] i.op = "bonj" -> key

Compute(i) ==
  /\ i.op \in {"addi", "add", "lw", "la", "bonj"}
  /\ reg' = Written(i.d, Result(i))
  /\ pc' = pc + 1
  /\ UNCHANGED <<ie, mem, history>>

Store(i) ==
  /\ i.op = "sw"
  /\ LET w == reg[i.s] + i.i IN
       mem' = [a \in DOMAIN mem \cup {w} |->
                 IF a = w THEN reg[i.d] ELSE mem[a]]
  /\ pc' = pc + 1
  /\ UNCHANGED <<ie, reg, history>>

Branch(i) ==
  /\ i.op = "beq"
  /\ pc' = IF reg[i.s] = reg[i.t] THEN Labels[i.l] ELSE pc + 1
  /\ UNCHANGED <<ie, reg, mem, history>>

Jump(i) ==
  /\ i.op = "jalr"
  /\ pc' = reg[i.s]
  /\ reg' = Written(i.d, pc + 1)
  /\ UNCHANGED <<ie, mem, history>>

Enable(i) ==
  /\ i.op \in {"ei", "di"}
  /\ ie' = (i.op = "ei")
  /\ pc' = pc + 1
  /\ UNCHANGED <<reg, mem, history>>

Return(i) ==
  /\ i.op = "reti"
  /\ pc' = reg["k0"] /\ ie' = TRUE
  /\ active' = Front(active)
  /\ UNCHANGED <<reg, mem, ticks, key, nested, spent>>

Step ==
  /\ Running
  /\ LET i == Fetch(pc) IN
       \/ Compute(i) \/ Store(i) \/ Branch(i) \/ Jump(i) \/ Enable(i) \/ Return(i)

\* Between two instructions: the return address goes to k0, interrupts are
\* off, and the vector of the device gives the address to go on from.
Interrupt(d, vector) ==
  /\ d \in Devices /\ Running /\ ie
  /\ spent' = spent + (IF pc < Labels["factorial"] THEN 1 ELSE 2)
  /\ spent' <= MaxInterrupts
  /\ pc' = Load(vector) /\ ie' = FALSE
  /\ reg' = [reg EXCEPT !["k0"] = pc]
  /\ active' = Append(active, [pc |-> pc, reg |-> reg, key |-> key'])
  /\ nested' = (nested \/ active # <<>>)
  /\ UNCHANGED mem

Tick ==
  /\ ticks' = ticks + 1 /\ key' = key
  /\ Interrupt("timer", 1)

TypeKey ==
  /\ key' = key + 1 /\ ticks' = ticks
  /\ Interrupt("keyboard", 2)

Next == Step \/ Tick \/ TypeKey

\* The clock of the processor runs.
Spec == Init /\ [][Next]_vars /\ WF_vars(Step)
=============================================================================
