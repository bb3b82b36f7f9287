----------------------------- MODULE Assembler ------------------------------
(***************************************************************************)
(* assemble32.c: the two passes over a file of LC-2200 assembly language.  *)
(* A line is the sequence of tokens that lexer() makes of it (module       *)
(* Lexer); a machine word is a record of its fields.                       *)
(***************************************************************************)
EXTENDS Integers, Sequences, FiniteSets

CONSTANTS
  Files,       \* the files to assemble: sequences of lines
  Numbers,     \* the numeric tokens and their values: a function
  OffsetRange, \* 1 << (OFFSET_BITS - 1), what is beyond the largest offset
  NoWord       \* what is in machinecode before it is set

ASSUME OffsetAssumption == OffsetRange \in Nat \ {0}
ASSUME NumbersAssumption == \A t \in DOMAIN Numbers : Numbers[t] \in Int
ASSUME FilesAssumption == Files \subseteq Seq(Seq(STRING))

-----------------------------------------------------------------------------
(* The tables of the language.                                             *)

Opcodes == <<"add", "nand", "addi", "lw", "sw", "beq", "jalr", "halt",
             "bonr", "bono", "ei", "di", "reti", "boni", "bonj">>
RegisterNames == <<"$zero", "$at", "$v0", "$a0", "$a1", "$a2", "$a3", "$a4",
                   "$s0", "$s1", "$s2", "$s3", "$k0", "$sp", "$fp", "$ra">>

IndexOf(s, t) == (CHOOSE n \in DOMAIN s : s[n] = t) - 1
IsRegister(t) == \E n \in DOMAIN RegisterNames : RegisterNames[n] = t

Delimiters == {",", ":", "(", ")"}

\* The formats, and the operands that the second pass wants for each.
Format(mnem) ==
  CASE mnem \in {"add", "nand", "bonr"} -> "R"
    [] mnem \in {"lw", "sw"} -> "I"
    [] mnem \in {"addi", "beq", "boni"} -> "II"
    [] mnem \in {"jalr", "bonj"} -> "J"
    [] mnem \in {"halt", "bono", "ei", "di", "reti"} -> "OM"
    [] mnem = "la" -> "LA"
    [] mnem \in {".word", ".fill"} -> "P"
    [] OTHER -> "none"

Operands ==
  [R  |-> <<"reg", ",", "reg", ",", "reg">>,
   I  |-> <<"reg", ",", "num", "(", "reg", ")">>,
   II |-> <<"reg", ",", "reg", ",", "num">>,
   J  |-> <<"reg", ",", "reg">>,
   OM |-> <<>>,
   LA |-> <<"reg", ",", "num">>,
   P  |-> <<"num">>]

-----------------------------------------------------------------------------
VARIABLES
  file,        \* the lines of the input
  pass,        \* "first", "second", or "exited"
  n,           \* number of the line to read next
  pc,          \* the program counter of the pass
  symbols,     \* the symbol table: label -> value
  nerrors,     \* nerrors
  machinecode, \* the word made last, which a bad line leaves as it is
  output,      \* the words in the output file, each with its line
  status,      \* exit status
  pcs          \* history: the first pass's pc at each line, and behind
vars == <<file, pass, n, pc, symbols, nerrors, machinecode, output, status, pcs>>

Init ==
  /\ file \in Files
  /\ pass = "first" /\ n = 1 /\ pc = 0
  /\ symbols = <<>> /\ nerrors = 0
  /\ machinecode = NoWord /\ output = <<>> /\ status = 0
  /\ pcs = <<0>>

IsBlank(line)   == line = <<>>
Delimited(line) == line # <<>> /\ line[1] \in Delimiters
HasLabel(line)  == Len(line) >= 2 /\ line[2] = ":" /\ ~Delimited(line)
Unlabelled(line) ==
  IF HasLabel(line) THEN SubSeq(line, 3, Len(line)) ELSE line

\* Mistake: a line with a label alone moves the program counter.
CountsLabels(line) == ~IsBlank(line) /\ ~Delimited(line)
Counts(line) == ~Delimited(line) /\ Unlabelled(line) # <<>>

\* A label keeps the value of its first definition; a second one is an
\* error, and so is a line that starts with a delimiter.
FirstPass ==
  /\ pass = "first" /\ n <= Len(file)
  /\ LET line == file[n]
         duplicate == HasLabel(line) /\ line[1] \in DOMAIN symbols
     IN /\ symbols' = IF HasLabel(line) /\ ~duplicate
                      THEN [l \in DOMAIN symbols \cup {line[1]} |->
                              IF l = line[1] THEN pc ELSE symbols[l]]
                      ELSE symbols
        /\ nerrors' = nerrors + (IF duplicate \/ Delimited(line) THEN 1 ELSE 0)
        /\ pc' = pc + (IF Counts(line) THEN 1 ELSE 0)
  /\ n' = n + 1
  /\ pcs' = Append(pcs, pc')
  /\ UNCHANGED <<file, pass, machinecode, output, status>>

Exit(s) == pass' = "exited" /\ status' = s

Rewind == pass' = "second" /\ n' = 1 /\ pc' = 0

\* main() after the first pass: it gives up, because of errors or because it
\* cannot open the output file, or rewinds the input.
AfterFirstPass ==
  /\ pass = "first" /\ n > Len(file)
  /\ \/ Exit(1) /\ UNCHANGED <<n, pc>>
     \/ nerrors = 0 /\ Rewind /\ UNCHANGED status
  /\ UNCHANGED <<file, symbols, nerrors, machinecode, output, pcs>>

-----------------------------------------------------------------------------
(* The operands of one instruction.                                        *)

Known(t) == t \in DOMAIN Numbers \cup DOMAIN symbols

\* A number stands for itself, even where a label has its name.
TokenToNumber(t) ==
  CASE t \in DOMAIN Numbers -> Numbers[t]
    [] t \notin DOMAIN Numbers /\ t \in DOMAIN symbols -> symbols[t]
    [] OTHER -> 0

TokenToRegno(t) == IF IsRegister(t) THEN IndexOf(RegisterNames, t) ELSE 0

\* Mistake: the branch is relative to its own address.
OffsetFromHere(mnem, t) == TokenToNumber(t) - (IF mnem = "beq" THEN pc ELSE 0)
Offset(mnem, t) ==
  TokenToNumber(t) - (IF mnem = "beq" THEN pc + 1 ELSE 0)

InRange(offset) == offset \in -OffsetRange .. OffsetRange - 1

BadOffset(mnem, t) == ~InRange(Offset(mnem, t))

\* The errors at operand k: a wrong token, and an offset out of range.
WrongToken(kind, t) ==
  CASE kind = "reg" -> ~IsRegister(t)
    [] kind = "num" -> ~Known(t)
    [] OTHER -> t # kind

ErrorsIn(format, mnem, args) ==
  Cardinality({k \in DOMAIN args : WrongToken(Operands[format][k], args[k])})
  + Cardinality({k \in DOMAIN args :
                   /\ format # "P" /\ Operands[format][k] = "num"
                   /\ BadOffset(mnem, args[k])})

\* The registers of a line, in order, and the number of the k-th one.
RegsOf(format, args) ==
  LET places == SelectSeq([k \in DOMAIN Operands[format] |-> k],
                          LAMBDA k : Operands[format][k] = "reg")
  IN [k \in DOMAIN places |-> args[places[k]]]
Regno(regs, k) == IF k <= Len(regs) THEN TokenToRegno(regs[k]) ELSE 0

\* Where the number of a line is, if it has one; no format has two.
NumberAt(format) == {k \in DOMAIN Operands[format] : Operands[format][k] = "num"}
NumberOf(format, args) == args[CHOOSE k \in NumberAt(format) : TRUE]

\* construct_R(), construct_I(), construct_J() and construct_OM(): the first
\* register is in field x, the second one in y, and a third one or the
\* offset, masked, in the low bits.
Construct(format, mnem, args) ==
  LET regs == RegsOf(format, args) IN
     [op |-> IndexOf(Opcodes, IF mnem = "la" THEN "addi" ELSE mnem),
      x |-> Regno(regs, 1), y |-> Regno(regs, 2),
      low |-> IF NumberAt(format) = {} THEN Regno(regs, 3)
              ELSE Offset(mnem, NumberOf(format, args)) % (2 * OffsetRange)]

Data(t) == [data |-> TokenToNumber(t)]

\* Mistake: operands that are missing are no error.
LengthErrorNone == 0
LengthError == 1

\* What a line gives: the word, and the errors found in it.  A line with
\* the wrong number of operands leaves machinecode alone; la with a single
\* one is an error, and goes on as .word.
Translated(mnem, args) ==
  LET format == Format(mnem) IN
  CASE format = "none" -> [word |-> [data |-> 0], errors |-> 1]
    [] format # "none" /\ Len(args) = Len(Operands[format]) ->
         [word |-> IF format = "P" THEN Data(args[1])
                   ELSE Construct(format, mnem, args),
          errors |-> ErrorsIn(format, mnem, args)]
    [] format = "LA" /\ Len(args) = 1 ->
         [word |-> Data(args[1]),
          errors |-> LengthError + ErrorsIn("P", mnem, args)]
    [] OTHER -> [word |-> machinecode,
                 errors |-> IF format = "LA" THEN 2 * LengthError ELSE LengthError]

SecondPass ==
  /\ pass = "second" /\ n <= Len(file)
  /\ LET line == Unlabelled(file[n]) IN
       IF Delimited(file[n]) \/ line = <<>>
       THEN UNCHANGED <<pc, nerrors, machinecode, output>>
       ELSE IF Delimited(line)
       THEN nerrors' = nerrors + 1 /\ UNCHANGED <<pc, machinecode, output>>
       ELSE LET t == Translated(line[1], Tail(line)) IN
              /\ machinecode' = t.word
              /\ nerrors' = nerrors + t.errors
              /\ output' = Append(output, [word |-> t.word, line |-> n])
              /\ pc' = pc + 1
  /\ n' = n + 1
  /\ UNCHANGED <<file, pass, symbols, status, pcs>>

\* What is in the output file stays there, whatever the status.
AfterSecondPass ==
  /\ pass = "second" /\ n > Len(file)
  /\ Exit(IF nerrors > 0 THEN 1 ELSE 0)
  /\ UNCHANGED <<file, n, pc, symbols, nerrors, machinecode, output, pcs>>

Next == FirstPass \/ AfterFirstPass \/ SecondPass \/ AfterSecondPass

Spec == Init /\ [][Next]_vars
=============================================================================
