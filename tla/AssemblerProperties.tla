------------------------ MODULE AssemblerProperties -------------------------
(***************************************************************************)
(* What the assembler of Assembler must do.                                *)
(***************************************************************************)
EXTENDS Assembler

Defines(k, l) == HasLabel(file[k]) /\ file[k][1] = l

\* Until it finds an error, the second pass counts as the first one did, so
\* that a label has the address of the word that follows it in the output
\* (assemble32.c:428-429 and 735-766, 935).
PassesAgree ==
  pass = "second" /\ nerrors = 0 =>
    /\ pc = pcs[n] /\ Len(output) = pc
    /\ \A k \in DOMAIN file : \A l \in DOMAIN symbols :
         Defines(k, l) => symbols[l] = pcs[k]

Succeeded == pass = "exited" /\ status = 0

\* A file is assembled without an error only if every line with an opcode
\* gives a word, and no word is one that a bad line left from the line
\* before it or from nowhere (assemble32.c:792-793, 934).
SuccessIsComplete ==
  Succeeded =>
    /\ {output[k].line : k \in DOMAIN output}
         = {k \in DOMAIN file : Counts(file[k])}
    /\ \A k \in DOMAIN output :
         LET line == Unlabelled(file[output[k].line])
         IN Len(line) = 1 + Len(Operands[Format(line[1])])

Signed(low) == IF low >= OffsetRange THEN low - 2 * OffsetRange ELSE low

\* The offset in word k says what the operand of its line says; a branch is
\* taken from the address behind the word, which is k.
ReadsBack(k) ==
  LET line   == Unlabelled(file[output[k].line])
      format == Format(line[1])
  IN NumberAt(format) # {} /\ format # "P" =>
       TokenToNumber(NumberOf(format, Tail(line))) =
         Signed(output[k].word.low) + (IF line[1] = "beq" THEN k ELSE 0)

\* A machine that adds the offset of a branch to the address behind it gets
\* to the label of the operand; other offsets are read back as they were
\* written (assemble32.c:609-620, 681, 845-846).
OffsetsReadBack == Succeeded => \A k \in DOMAIN output : ReadsBack(k)
=============================================================================
