--------------------------- MODULE Prj1Assembler ----------------------------
(***************************************************************************)
(* core.clj: the assembler of project 1, which makes a word of each line   *)
(* by putting strings of digits together and appends it to its output.     *)
(* A string of binary digits is its value and its width; a string of       *)
(* hexadecimal ones has four binary digits for each.                       *)
(***************************************************************************)
EXTENDS Integers, Sequences

CONSTANTS
  Sources,     \* the files to assemble
  Registers,   \* the register names that are known, and their numbers
  OpBits, RegBits, TargetBits, \* 6, 5 and 26
  ImmDigits,   \* 4: the hexadecimal digits of an immediate
  IntBits,     \* 31: the bits of a positive Integer
  MaxRuns,     \* bound: how often the assembler is run
  None, Label  \* nil, for a token that is missing, and one that is no number

opcodes ==
  [add |-> 1, addi |-> 2, mul |-> 3, sll |-> 4, srl |-> 5, and |-> 6, or |-> 7,
   lw |-> 8, sw |-> 9, j |-> 10, jr |-> 11, jal |-> 12, beq |-> 13, halt |-> 14]

InstType(op) ==
  CASE op \in {"add", "mul", "and", "or"}         -> "R"
    [] op \in {"addi", "sll", "srl", "beq"}       -> "I"
    [] op \in {"lw", "sw"}                        -> "LD"
    [] op \in {"j", "jal"}                        -> "J"
    [] op = "jr"                                  -> "JR"
    [] op = "halt"                                -> "O"
    [] OTHER                                      -> "none"

\* How many registers the code looks for.
Places(op) ==
  CASE InstType(op) = "R" -> 3
    [] InstType(op) \in {"I", "LD"} -> 2
    [] InstType(op) = "JR" -> 1
    [] OTHER -> 0

\* A word has room for an opcode, two registers and an immediate, in whose
\* place the third register is.
ASSUME FormatAssumption ==
  /\ {OpBits, RegBits, TargetBits, ImmDigits, IntBits} \subseteq Nat /\ ImmDigits # 0
  /\ TargetBits = 2 * RegBits + 4 * ImmDigits /\ RegBits <= 4 * ImmDigits
  /\ \A r \in DOMAIN Registers : Registers[r] \in Nat

\* A line has a token for each of its operands, which may be missing.
ASSUME SourcesAssumption ==
  /\ None \notin Int /\ Label \notin Int
  /\ \A f \in Sources :
       /\ f \in Seq({f[k] : k \in DOMAIN f})
       /\ \A k \in DOMAIN f :
            /\ 1 .. Places(f[k].op) \subseteq DOMAIN f[k].regs
            /\ f[k].imm \in Int \cup {None, Label}

-----------------------------------------------------------------------------
(* Strings of digits.                                                      *)

Bits(value, width) == [value |-> value, width |-> width]
Join(a, b) == Bits(a.value * 2^b.width + b.value, a.width + b.width)
Joined(strings) ==
  LET first[k \in 0 .. Len(strings)] ==
        IF k = 0 THEN Bits(0, 0) ELSE Join(first[k - 1], strings[k])
  IN first[Len(strings)]

\* The name of no register is nil, and str gives nothing for it.
Reg(r) == IF r \in DOMAIN Registers THEN Bits(Registers[r], RegBits) ELSE Bits(0, 0)

Width(i, least) == CHOOSE w \in least .. least + IntBits :
                     i < 2^w /\ \A v \in least .. w - 1 : i >= 2^v

\* Mistake: of a negative number the first four digits are kept.
IntToHexFirst(i) == IF i = None \/ i >= 0 THEN Bits(IF i = None THEN 0 ELSE i, 4 * ImmDigits)
                    ELSE Bits(2^(4 * ImmDigits) - 1, 4 * ImmDigits)

\* int-to-hex: four is the least width, and of the eight digits of a negative
\* number the last four are kept.
IntToHex(i) ==
  LET least == 4 * ImmDigits IN
  CASE i = None -> Bits(0, least)
    [] i # None /\ i < 0 -> Bits(i % 2^least, least)
    [] OTHER -> Bits(i, 4 * ((Width(i, least) + 3) \div 4))

\* hex-target-to-binary: 26 is the least width.
Target(i) == Bits(i, Width(i, TargetBits))

Zeros(width) == Bits(0, width)

\* The string that becomes the word of an instruction.
Encoded(i) ==
  LET op == Bits(opcodes[i.op], OpBits)
  IN Joined(CASE InstType(i.op) = "R" ->
                   <<op, Reg(i.regs[2]), Reg(i.regs[3]), Reg(i.regs[1]),
                     Zeros(4 * ImmDigits - RegBits)>>
              [] InstType(i.op) \in {"I", "LD"} ->
                   <<op, Reg(i.regs[2]), Reg(i.regs[1]), IntToHex(i.imm)>>
              [] InstType(i.op) = "J"  -> <<op, Target(i.imm)>>
              [] InstType(i.op) = "JR" ->
                   <<op, Reg(i.regs[1]), Zeros(RegBits), Zeros(4 * ImmDigits)>>
              [] OTHER -> <<op, Zeros(TargetBits)>>)

\* An exception: an operand that is no number, an address that is missing where
\* parse-load-arg takes it apart, and a jump whose word does not fit into an
\* Integer.
Throws(i) ==
  CASE InstType(i.op) = "I"  -> i.imm = Label
    [] InstType(i.op) = "LD" -> i.imm \in {None, Label}
    [] InstType(i.op) = "J" ->
         i.imm \in {None, Label} \/ i.imm < 0 \/ Encoded(i).value >= 2^IntBits
    [] OTHER -> FALSE

-----------------------------------------------------------------------------
VARIABLES
  source, \* the instructions to assemble, line by line
  place,  \* the next line
  out,    \* the lines of the output file: the value, and the line it is from
  ending, \* "ready", "running", or how the last run ended: "done", "died"
  runs    \* how often the assembler has been started
core == <<source, place, out, ending, runs>>

CoreInit ==
  /\ source \in Sources /\ place = 1 /\ out = <<>> /\ ending = "ready" /\ runs = 0

Header == <<[line |-> 0, value |-> "v2.0 raw"], [line |-> 0, value |-> "stack"]>>

\* init-program appends to what earlier runs have left.
InitProgram ==
  /\ ending # "running" /\ runs < MaxRuns
  /\ runs' = runs + 1 /\ ending' = "running" /\ place' = 1
  /\ out' = out \o Header
  /\ UNCHANGED source

\* A line with an unknown instruction, such as one with a label, is skipped.
Process ==
  /\ ending = "running" /\ place <= Len(source)
  /\ IF InstType(source[place].op) = "none"
     THEN place' = place + 1 /\ UNCHANGED <<out, ending>>
     ELSE IF Throws(source[place])
     THEN ending' = "died" /\ UNCHANGED <<place, out>>
     ELSE /\ out' = Append(out, [line |-> place, value |-> Encoded(source[place]).value])
          /\ place' = place + 1 /\ UNCHANGED ending
  /\ UNCHANGED <<source, runs>>

Finish ==
  /\ ending = "running" /\ place > Len(source)
  /\ ending' = "done"
  /\ UNCHANGED <<source, place, out, runs>>

CoreNext == InitProgram \/ Process \/ Finish

CoreSpec == CoreInit /\ [][CoreNext]_core

-----------------------------------------------------------------------------
(* What the assembler must do.                                             *)

RegNumber(r) == Registers[r]

\* The word of an instruction of the project's format: the opcode, and the
\* operands in the fields below it.
Word(i) ==
  LET field(k, v) == v * 2^(TargetBits - k * RegBits)
      type == InstType(i.op)
  IN field(0, opcodes[i.op]) +
     CASE type = "R" -> field(1, RegNumber(i.regs[2])) + field(2, RegNumber(i.regs[3]))
                        + field(3, RegNumber(i.regs[1]))
       [] type \in {"I", "LD"} ->
            field(1, RegNumber(i.regs[2])) + field(2, RegNumber(i.regs[1]))
            + (IF i.imm = None THEN 0 ELSE i.imm % 2^(4 * ImmDigits))
       [] type = "J"  -> i.imm
       [] type = "JR" -> field(1, RegNumber(i.regs[1]))
       [] OTHER       -> 0

\* The operands that the format has room for.
Legal(i) ==
  /\ \A k \in DOMAIN i.regs : i.regs[k] \in DOMAIN Registers
  /\ i.imm # None =>
       LET bits == IF InstType(i.op) = "J" THEN TargetBits ELSE 4 * ImmDigits
       IN i.imm \in -(2^(bits - 1)) .. 2^bits - 1

\* A line whose operands are legal gives the word it stands for, although the
\* word is put together from strings that lose their leading zeros
\* (core.clj:105-129 and 150-287).
WordsReadBack ==
  \A k \in DOMAIN out :
    out[k].line > 0 /\ Legal(source[out[k].line])
      => out[k].value = Word(source[out[k].line])
=============================================================================
