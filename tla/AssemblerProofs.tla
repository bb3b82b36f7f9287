-------------------------- MODULE AssemblerProofs ---------------------------
(***************************************************************************)
(* Theorems about the two passes of Assembler, for any set of files, any   *)
(* numbers and any width of an offset; about the tokens and numbers of     *)
(* Lexer, for any text; and about the words of Prj1Assembler, for fields   *)
(* of any width, any registers and any files.                              *)
(***************************************************************************)
EXTENDS AssemblerProperties, LexerProperties, Prj1Assembler, FiniteSetTheorems,
        SequenceTheorems, TLAPS

\* A sequence, of whatever its elements are.
IsSeq(s) == s \in Seq({s[k] : k \in DOMAIN s})

TypeOK ==
  /\ file \in Seq(Seq(STRING))
  /\ pass \in {"first", "second", "exited"}
  /\ n \in 1 .. Len(file) + 1
  /\ pc \in Nat /\ nerrors \in Nat
  /\ IsSeq(output)
  /\ pcs \in Seq(Nat)

\* What a line adds to the program counter of either pass.
Size(line) == IF Counts(line) THEN 1 ELSE 0

\* The first pass has counted the lines up to the one it reads next, and all
\* of them when it is over.
Counted ==
  /\ Len(pcs) = IF pass = "first" THEN n ELSE Len(file) + 1
  /\ pcs[1] = 0
  /\ \A k \in 1 .. Len(pcs) - 1 : pcs[k + 1] = pcs[k] + Size(file[k])
  /\ pass = "first" => pc = pcs[n] /\ output = <<>>

\* A label that the first pass has read has the address of its line.
LabelsPlaced ==
  nerrors = 0 =>
    \A k \in 1 .. Len(pcs) - 1 : HasLabel(file[k]) =>
      file[k][1] \in DOMAIN symbols /\ symbols[file[k][1]] = pcs[k]

\* The second pass counts alike.
CountsAlike == pass = "second" /\ nerrors = 0 => pc = pcs[n] /\ Len(output) = pc

\* The lines that have given a word so far.
Translations == {output[k].line : k \in DOMAIN output}
RightLength(line) ==
  Len(Unlabelled(line)) = 1 + Len(Operands[Format(Unlabelled(line)[1])])

Complete ==
  /\ (pass = "second" /\ nerrors = 0) \/ Succeeded =>
       /\ Translations = {k \in 1 .. n - 1 : Counts(file[k])}
       /\ \A k \in DOMAIN output : RightLength(file[output[k].line])
  /\ Succeeded => n = Len(file) + 1

-----------------------------------------------------------------------------
(* Sequences and lines.                                                    *)

\* What becomes of a sequence at whose end an element is put.
LEMMA AppendFacts ==
  ASSUME NEW s, IsSeq(s), NEW e
  PROVE  /\ IsSeq(Append(s, e)) /\ Len(Append(s, e)) = Len(s) + 1
         /\ Len(s) \in Nat
         /\ DOMAIN s = 1 .. Len(s)
         /\ DOMAIN Append(s, e) = 1 .. Len(s) + 1
         /\ \A k \in 1 .. Len(s) : Append(s, e)[k] = s[k]
         /\ Append(s, e)[Len(s) + 1] = e
<1> DEFINE S == {s[k] : k \in DOMAIN s} \cup {e}
           t == Append(s, e)
<1>1. s \in Seq(S)
  BY DEF IsSeq
<1>2. /\ t \in Seq(S) /\ Len(t) = Len(s) + 1
      /\ \A k \in 1 .. Len(s) : t[k] = s[k]
      /\ t[Len(s) + 1] = e
  BY <1>1, AppendProperties
<1>3. Len(s) \in Nat /\ DOMAIN s = 1 .. Len(s) /\ DOMAIN t = 1 .. Len(s) + 1
  BY <1>1, <1>2
<1>4. IsSeq(t)
  <2>1. t \in [1 .. Len(t) -> {t[k] : k \in DOMAIN t}]
    <3>1. t = [k \in 1 .. Len(t) |-> t[k]]
      BY <1>2, LenProperties
    <3>2. \A k \in 1 .. Len(t) : t[k] \in {t[i] : i \in DOMAIN t}
      BY <1>2, <1>3
    <3> HIDE DEF t
    <3> QED BY <3>1, <3>2
  <2> QED BY <1>2, <1>3, <2>1 DEF IsSeq
<1> QED BY <1>2, <1>3, <1>4

\* A line without its label is a sequence of tokens.
LEMMA UnlabelledType ==
  ASSUME NEW line \in Seq(STRING)
  PROVE  Unlabelled(line) \in Seq(STRING)
<1>1. CASE HasLabel(line)
  <2>1. \A i \in 3 .. Len(line) : line[i] \in STRING
    OBVIOUS
  <2>2. SubSeq(line, 3, Len(line)) \in Seq(STRING)
    BY <2>1, SubSeqProperties
  <2> QED BY <1>1, <2>2 DEF Unlabelled
<1>2. CASE ~HasLabel(line)
  BY <1>2 DEF Unlabelled
<1> QED BY <1>1, <1>2

\* Errors are counted.
LEMMA ErrorsInType ==
  ASSUME NEW format, NEW mnem, NEW args \in Seq(STRING)
  PROVE  ErrorsIn(format, mnem, args) \in Nat
<1>1. IsFiniteSet(DOMAIN args)
  BY FS_Interval
<1>2. \A S \in SUBSET DOMAIN args : Cardinality(S) \in Nat
  BY <1>1, FS_Subset, FS_CardinalityType
<1> DEFINE wrong == {k \in DOMAIN args : WrongToken(Operands[format][k], args[k])}
           far == {k \in DOMAIN args :
                     /\ format # "P" /\ Operands[format][k] = "num"
                     /\ BadOffset(mnem, args[k])}
<1>3. wrong \in SUBSET DOMAIN args /\ far \in SUBSET DOMAIN args
  OBVIOUS
<1>4. Cardinality(wrong) \in Nat /\ Cardinality(far) \in Nat
  BY <1>2, <1>3
<1> HIDE DEF wrong, far
<1>5. Cardinality(wrong) + Cardinality(far) \in Nat
  BY <1>4
<1> QED BY <1>5 DEF ErrorsIn, wrong, far

\* A line that has no error has as many operands as its format.
LEMMA TranslatedErrors ==
  ASSUME NEW mnem, NEW args \in Seq(STRING)
  PROVE  /\ Translated(mnem, args).errors \in Nat
         /\ Translated(mnem, args).errors = 0
              => /\ Format(mnem) # "none"
                 /\ Len(args) = Len(Operands[Format(mnem)])
<1> DEFINE format == Format(mnem)
<1>1. ErrorsIn(format, mnem, args) \in Nat /\ ErrorsIn("P", mnem, args) \in Nat
  BY ErrorsInType
<1>2. CASE format = "none"
  BY <1>2 DEF Translated
<1>3. CASE format # "none" /\ Len(args) = Len(Operands[format])
  <2> DEFINE word == IF format = "P" THEN Data(args[1])
                     ELSE Construct(format, mnem, args)
  <2>0. ~ (format = "LA" /\ Len(args) = 1)
    <3>1. Operands["LA"] = <<"reg", ",", "num">>
      BY DEF Operands
    <3>2. ASSUME NEW a, NEW b, NEW c, NEW s, s = <<a, b, c>>
          PROVE  Len(s) = 3
      BY <3>2
    <3>3. Len(Operands["LA"]) = 3
      BY <3>1, <3>2, ZenonT(30)
    <3>4. format = "LA" => Len(args) = 3
      BY <1>3, <3>3, Zenon
    <3> QED BY <3>4
  <2>1. Translated(mnem, args) = [word |-> word, errors |-> ErrorsIn(format, mnem, args)]
    BY <1>3, <2>0, Zenon DEF Translated
  <2> HIDE DEF word
  <2> QED BY <1>1, <1>3, <2>1
<1>4. CASE format = "LA" /\ Len(args) = 1 /\ Len(args) # Len(Operands[format])
  BY <1>1, <1>4 DEF Translated, LengthError
<1>5. CASE /\ format # "none" /\ Len(args) # Len(Operands[format])
           /\ ~(format = "LA" /\ Len(args) = 1)
  BY <1>5 DEF Translated, LengthError
<1> QED BY <1>2, <1>3, <1>4, <1>5

\* What is in the word of a line that has no error.
LEMMA TranslatedWord ==
  ASSUME NEW mnem, NEW args \in Seq(STRING), Translated(mnem, args).errors = 0,
         Format(mnem) # "P"
  PROVE  /\ Format(mnem) \in DOMAIN Operands
         /\ DOMAIN Operands[Format(mnem)] = DOMAIN args
         /\ ErrorsIn(Format(mnem), mnem, args) = 0
         /\ Translated(mnem, args).word = Construct(Format(mnem), mnem, args)
<1> DEFINE format == Format(mnem)
           word   == Construct(format, mnem, args)
<1>1. format # "none" /\ Len(args) = Len(Operands[format])
  BY TranslatedErrors
<1>2. format \in {"R", "I", "II", "J", "OM", "LA"}
  BY <1>1 DEF Format
<1>3. format \in DOMAIN Operands /\ DOMAIN Operands[format] = 1 .. Len(Operands[format])
  <2> DEFINE Kinds == {"reg", "num", ",", "(", ")"}
  <2>1. /\ <<"reg", ",", "reg", ",", "reg">> \in Seq(Kinds)
        /\ <<"reg", ",", "num", "(", "reg", ")">> \in Seq(Kinds)
        /\ <<"reg", ",", "reg", ",", "num">> \in Seq(Kinds)
        /\ <<"reg", ",", "reg">> \in Seq(Kinds)
        /\ <<>> \in Seq(Kinds)
        /\ <<"reg", ",", "num">> \in Seq(Kinds)
    OBVIOUS
  <2>2. /\ Operands["R"] = <<"reg", ",", "reg", ",", "reg">>
        /\ Operands["I"] = <<"reg", ",", "num", "(", "reg", ")">>
        /\ Operands["II"] = <<"reg", ",", "reg", ",", "num">>
        /\ Operands["J"] = <<"reg", ",", "reg">>
        /\ Operands["OM"] = <<>>
        /\ Operands["LA"] = <<"reg", ",", "num">>
    BY DEF Operands
  <2>3. format \in DOMAIN Operands
    BY <1>2 DEF Operands
  <2> HIDE DEF format, Kinds
  <2>4. Operands[format] \in Seq(Kinds)
    BY <1>2, <2>1, <2>2
  <2> QED BY <2>3, <2>4, LenProperties
<1>4. DOMAIN args = 1 .. Len(args)
  OBVIOUS
<1>5. format = "LA" => Len(args) # 1
  BY <1>1 DEF Operands
<1>6. Translated(mnem, args) = [word |-> word, errors |-> ErrorsIn(format, mnem, args)]
  BY <1>1, <1>5, Zenon DEF Translated
<1> HIDE DEF format, word
<1>7. ErrorsIn(format, mnem, args) = 0 /\ Translated(mnem, args).word = word
  BY <1>6
<1> QED BY <1>1, <1>3, <1>4, <1>7 DEF format, word

-----------------------------------------------------------------------------
IInv == TypeOK /\ Counted /\ LabelsPlaced /\ CountsAlike /\ Complete

LEMMA InitInv == Init => IInv
<1> SUFFICES ASSUME Init PROVE IInv
  OBVIOUS
<1>1. /\ file \in Seq(Seq(STRING)) /\ pass = "first" /\ n = 1 /\ pc = 0
      /\ nerrors = 0 /\ output = <<>> /\ pcs = <<0>>
  BY FilesAssumption DEF Init
<1>2. TypeOK
  BY <1>1 DEF TypeOK, IsSeq
<1>3. Counted /\ LabelsPlaced /\ CountsAlike /\ Complete
  BY <1>1 DEF Counted, LabelsPlaced, CountsAlike, Complete, Succeeded
<1> QED BY <1>2, <1>3 DEF IInv

\* The first pass reads a line.
LEMMA FirstPassInv == IInv /\ FirstPass => IInv'
<1> SUFFICES ASSUME IInv, FirstPass PROVE IInv'
  OBVIOUS
<1> DEFINE line == file[n]
           duplicate == HasLabel(line) /\ line[1] \in DOMAIN symbols
<1>1. /\ pass = "first" /\ pass' = "first" /\ file' = file /\ output' = output
      /\ n \in 1 .. Len(file) /\ n' = n + 1
      /\ pc' = pc + Size(line) /\ pcs' = Append(pcs, pc')
      /\ nerrors' = nerrors + (IF duplicate \/ Delimited(line) THEN 1 ELSE 0)
  BY DEF IInv, TypeOK, FirstPass, Size
<1>2. /\ file \in Seq(Seq(STRING)) /\ pc \in Nat /\ nerrors \in Nat /\ pcs \in Seq(Nat)
      /\ Len(pcs) = n /\ pc = pcs[n] /\ output = <<>> /\ pc' \in Nat
  <2>1. /\ file \in Seq(Seq(STRING)) /\ pc \in Nat /\ nerrors \in Nat
        /\ pcs \in Seq(Nat)
    BY DEF IInv, TypeOK
  <2>2. Len(pcs) = n /\ pc = pcs[n] /\ output = <<>>
    BY <1>1 DEF IInv, TypeOK, Counted
  <2>3. Size(line) \in Nat
    BY DEF Size
  <2>4. pc' \in Nat
    BY <1>1, <2>1, <2>3
  <2> QED BY <2>1, <2>2, <2>4
<1>3. /\ pcs' \in Seq(Nat) /\ Len(pcs') = n + 1 /\ pcs'[n + 1] = pc'
      /\ \A k \in 1 .. n : pcs'[k] = pcs[k]
  BY <1>1, <1>2, AppendProperties, SMTT(30)
<1>4. TypeOK'
  <2>1. IsSeq(output')
    BY <1>1 DEF IInv, TypeOK, IsSeq
  <2>2. nerrors' \in Nat
    BY <1>1, <1>2
  <2>3. n' \in 1 .. Len(file') + 1
    BY <1>1, <1>2
  <2> QED BY <1>1, <1>2, <1>3, <2>1, <2>2, <2>3 DEF TypeOK
<1>5. Counted'
  <2>1. pcs'[1] = 0
    BY <1>1, <1>3 DEF IInv, Counted
  <2>2. ASSUME NEW k \in 1 .. n
        PROVE  pcs'[k + 1] = pcs'[k] + Size(file'[k])
    <3>1. CASE k = n
      BY <1>1, <1>2, <1>3, <3>1
    <3>2. CASE k \in 1 .. Len(pcs) - 1
      <4>1. pcs[k + 1] = pcs[k] + Size(file[k])
        BY <3>2 DEF IInv, Counted
      <4>2. pcs'[k + 1] = pcs[k + 1] /\ pcs'[k] = pcs[k]
        BY <1>1, <1>2, <1>3, <3>2
      <4> QED BY <1>1, <4>1, <4>2
    <3> QED BY <1>1, <1>2, <3>1, <3>2
  <2>3. Len(pcs') = n' /\ pc' = pcs'[n'] /\ output' = <<>>
    BY <1>1, <1>2, <1>3
  <2>4. 1 .. Len(pcs') - 1 = 1 .. n
    BY <1>1, <1>3
  <2> QED BY <1>1, <2>1, <2>2, <2>3, <2>4 DEF Counted
<1>6. LabelsPlaced'
  <2> SUFFICES ASSUME nerrors' = 0, NEW k \in 1 .. n, HasLabel(file[k])
               PROVE  /\ file[k][1] \in DOMAIN symbols'
                      /\ symbols'[file[k][1]] = pcs'[k]
    BY <1>1, <1>3, SMTT(30) DEF LabelsPlaced
  <2>1. nerrors = 0 /\ ~duplicate
    BY <1>1, <1>2
  <2>2. symbols' = IF HasLabel(line) /\ ~duplicate
                   THEN [l \in DOMAIN symbols \cup {line[1]} |->
                           IF l = line[1] THEN pc ELSE symbols[l]]
                   ELSE symbols
    BY DEF FirstPass
  <2>3. CASE k = n
    BY <1>2, <1>3, <2>1, <2>2, <2>3
  <2>4. CASE k \in 1 .. Len(pcs) - 1
    <3>1. file[k][1] \in DOMAIN symbols /\ symbols[file[k][1]] = pcs[k]
      BY <2>1, <2>4 DEF IInv, LabelsPlaced
    <3>2. pcs'[k] = pcs[k]
      BY <1>3
    <3>3. HasLabel(line) => file[k][1] # line[1]
      BY <2>1, <3>1
    <3> QED BY <2>1, <2>2, <3>1, <3>2, <3>3
  <2> QED BY <1>1, <1>2, <2>3, <2>4
<1>7. CountsAlike' /\ Complete'
  BY <1>1 DEF CountsAlike, Complete, Succeeded
<1> QED BY <1>4, <1>5, <1>6, <1>7 DEF IInv

\* Between the passes the counters start again.
LEMMA AfterFirstPassInv == IInv /\ AfterFirstPass => IInv'
<1> SUFFICES ASSUME IInv, AfterFirstPass PROVE IInv'
  OBVIOUS
<1>1. /\ pass = "first" /\ n = Len(file) + 1
      /\ file' = file /\ symbols' = symbols /\ nerrors' = nerrors
      /\ output' = output /\ pcs' = pcs
      /\ \/ pass' = "exited" /\ status' = 1 /\ n' = n /\ pc' = pc
         \/ pass' = "second" /\ nerrors = 0 /\ n' = 1 /\ pc' = 0
  BY DEF IInv, TypeOK, AfterFirstPass, Exit, Rewind
<1>2. file \in Seq(Seq(STRING)) /\ Len(pcs) = n /\ output = <<>> /\ pcs[1] = 0
  BY <1>1 DEF IInv, TypeOK, Counted
<1>3. TypeOK'
  BY <1>1, <1>2 DEF IInv, TypeOK, IsSeq
<1>4. Counted' /\ LabelsPlaced' /\ CountsAlike'
  BY <1>1, <1>2 DEF IInv, Counted, LabelsPlaced, CountsAlike
<1>5. Complete'
  <2>1. CASE pass' = "exited" /\ status' = 1
    BY <2>1 DEF Complete, Succeeded
  <2>2. CASE pass' = "second" /\ n' = 1
    BY <1>1, <1>2, <2>2 DEF Complete, Succeeded, Translations
  <2> QED BY <1>1, <2>1, <2>2
<1> QED BY <1>3, <1>4, <1>5 DEF IInv
\* The second pass reads a line.
LEMMA SecondPassInv == IInv /\ SecondPass => IInv'
<1> SUFFICES ASSUME IInv, SecondPass PROVE IInv'
  OBVIOUS
<1> DEFINE line == Unlabelled(file[n])
           t == Translated(line[1], Tail(line))
<1>1. /\ pass = "second" /\ n \in 1 .. Len(file) /\ n' = n + 1
      /\ file' = file /\ pass' = pass /\ symbols' = symbols /\ pcs' = pcs
      /\ file \in Seq(Seq(STRING)) /\ pcs \in Seq(Nat) /\ pc \in Nat
      /\ nerrors \in Nat /\ IsSeq(output) /\ Len(pcs) = Len(file) + 1
  BY DEF IInv, TypeOK, Counted, SecondPass
<1>2. line \in Seq(STRING)
  BY <1>1, UnlabelledType
<1>3. pcs[n + 1] = pcs[n] + Size(file[n])
  BY <1>1 DEF IInv, Counted
<1>4. nerrors = 0 => /\ pc = pcs[n] /\ Len(output) = pc
                     /\ Translations = {k \in 1 .. n - 1 : Counts(file[k])}
                     /\ \A k \in DOMAIN output : RightLength(file[output[k].line])
  BY <1>1 DEF IInv, CountsAlike, Complete
<1>5. Counted'
  BY <1>1 DEF IInv, Counted
<1>6. ASSUME NEW N \in Nat, nerrors' = nerrors + N
      PROVE  nerrors' \in Nat /\ LabelsPlaced' /\ (nerrors' = 0 => nerrors = 0 /\ N = 0)
  BY <1>1, <1>6 DEF IInv, LabelsPlaced
<1>7. CASE Delimited(file[n]) \/ line = <<>>
  <2>1. UNCHANGED <<pc, nerrors, machinecode, output>>
    BY <1>7 DEF SecondPass
  <2>2. nerrors' \in Nat /\ LabelsPlaced'
    BY <1>1, <1>6, <2>1
  <2>3. ~Counts(file[n]) /\ Size(file[n]) = 0
    BY <1>7 DEF Counts, Size
  <2>4. TypeOK'
    BY <1>1, <2>1 DEF TypeOK, IsSeq
  <2>5. CountsAlike'
    BY <1>1, <1>3, <1>4, <2>1, <2>3 DEF CountsAlike
  <2>6. Complete'
    <3>1. {k \in 1 .. n : Counts(file[k])} = {k \in 1 .. n - 1 : Counts(file[k])}
      <4>1. \A k \in 1 .. n : k = n \/ k \in 1 .. n - 1
        BY <1>1
      <4> QED BY <1>1, <2>3, <4>1
    <3>2. n' - 1 = n
      BY <1>1
    <3> QED BY <1>1, <1>4, <2>1, <3>1, <3>2 DEF Complete, Succeeded, Translations
  <2> QED BY <1>5, <2>2, <2>4, <2>5, <2>6 DEF IInv
<1>8. CASE ~Delimited(file[n]) /\ line # <<>> /\ Delimited(line)
  <2>1. nerrors' = nerrors + 1 /\ UNCHANGED <<pc, machinecode, output>>
    BY <1>8 DEF SecondPass
  <2>2. nerrors' \in Nat /\ nerrors' # 0 /\ LabelsPlaced'
    BY <1>6, <2>1, 1 \in Nat, 1 # 0
  <2>3. TypeOK'
    BY <1>1, <2>1, <2>2 DEF TypeOK, IsSeq
  <2>4. CountsAlike' /\ Complete'
    BY <1>1, <2>2 DEF CountsAlike, Complete, Succeeded
  <2> QED BY <1>5, <2>2, <2>3, <2>4 DEF IInv
<1>9. CASE ~Delimited(file[n]) /\ line # <<>> /\ ~Delimited(line)
  <2>1. /\ nerrors' = nerrors + t.errors /\ pc' = pc + 1
        /\ output' = Append(output, [word |-> t.word, line |-> n])
    BY <1>9 DEF SecondPass
  <2>2. /\ Tail(line) \in Seq(STRING) /\ Len(Tail(line)) = Len(line) - 1
        /\ Len(line) \in Nat
    BY <1>2, <1>9, HeadTailProperties
  <2>3. /\ t.errors \in Nat
        /\ t.errors = 0 => Len(line) - 1 = Len(Operands[Format(line[1])])
    BY <2>2, TranslatedErrors
  <2>4. /\ nerrors' \in Nat /\ LabelsPlaced'
        /\ nerrors' = 0 => nerrors = 0 /\ t.errors = 0
    BY <1>6, <2>1, <2>3
  <2>5. Counts(file[n]) /\ Size(file[n]) = 1
    BY <1>9 DEF Counts, Size
  <2> DEFINE new == [word |-> t.word, line |-> n]
  <2>6. /\ IsSeq(output') /\ Len(output') = Len(output) + 1 /\ Len(output) \in Nat
        /\ DOMAIN output = 1 .. Len(output)
        /\ DOMAIN output' = 1 .. Len(output) + 1
        /\ \A k \in 1 .. Len(output) : output'[k] = output[k]
        /\ output'[Len(output) + 1] = new
    BY <1>1, <2>1, AppendFacts, SMTT(30)
  <2>7. new.line = n
    OBVIOUS
  <2> HIDE DEF new, t
  <2>8. TypeOK'
    BY <1>1, <2>1, <2>4, <2>6 DEF TypeOK
  <2>9. CountsAlike'
    BY <1>1, <1>3, <1>4, <2>1, <2>4, <2>5, <2>6 DEF CountsAlike
  <2>10. Complete'
    <3> SUFFICES ASSUME nerrors' = 0
                 PROVE  /\ Translations' = {k \in 1 .. n : Counts(file[k])}
                        /\ \A k \in DOMAIN output' : RightLength(file[output'[k].line])
      BY <1>1 DEF Complete, Succeeded
    <3>1. Translations' = Translations \cup {n}
      BY <2>6, <2>7 DEF Translations
    <3>2. {k \in 1 .. n : Counts(file[k])} = {k \in 1 .. n - 1 : Counts(file[k])} \cup {n}
      <4>1. \A k \in 1 .. n : k = n \/ k \in 1 .. n - 1
        BY <1>1
      <4> QED BY <1>1, <2>5, <4>1
    <3>3. RightLength(file[n])
      BY <2>2, <2>3, <2>4 DEF RightLength
    <3>4. ASSUME NEW k \in DOMAIN output' PROVE RightLength(file[output'[k].line])
      <4>1. CASE k = Len(output) + 1
        BY <2>6, <2>7, <3>3, <4>1
      <4>2. CASE k \in 1 .. Len(output)
        BY <1>4, <2>4, <2>6, <4>2
      <4> QED BY <2>6, <4>1, <4>2
    <3> QED BY <1>4, <2>4, <3>1, <3>2, <3>4
  <2> QED BY <1>5, <2>4, <2>8, <2>9, <2>10 DEF IInv
<1> QED BY <1>7, <1>8, <1>9

\* The program ends with what the second pass has found.
LEMMA AfterSecondPassInv == IInv /\ AfterSecondPass => IInv'
<1> SUFFICES ASSUME IInv, AfterSecondPass PROVE IInv'
  OBVIOUS
<1>1. /\ pass = "second" /\ pass' = "exited" /\ n = Len(file) + 1
      /\ status' = (IF nerrors > 0 THEN 1 ELSE 0)
      /\ UNCHANGED <<file, n, pc, symbols, nerrors, machinecode, output, pcs>>
  BY DEF IInv, TypeOK, AfterSecondPass, Exit
<1>2. TypeOK' /\ Counted' /\ LabelsPlaced' /\ CountsAlike'
  BY <1>1 DEF IInv, TypeOK, IsSeq, Counted, LabelsPlaced, CountsAlike
<1>3. Succeeded' => nerrors = 0
  BY <1>1 DEF IInv, TypeOK, Succeeded
<1>4. Complete'
  BY <1>1, <1>3 DEF IInv, Complete, Translations
<1> QED BY <1>2, <1>4 DEF IInv

LEMMA Invariant == Spec => []IInv
<1>1. IInv /\ [Next]_vars => IInv'
  <2> SUFFICES ASSUME IInv, [Next]_vars PROVE IInv'
    OBVIOUS
  <2>1. CASE UNCHANGED vars
    BY <2>1, SMTT(30) DEF vars, IInv, TypeOK, IsSeq, Counted, LabelsPlaced, CountsAlike,
                Complete, Succeeded, Translations
  <2> QED BY <2>1, FirstPassInv, AfterFirstPassInv, SecondPassInv,
             AfterSecondPassInv DEF Next
<1> QED BY InitInv, <1>1, PTL DEF Spec

-----------------------------------------------------------------------------
\* However labels, errors and empty lines are mixed, both passes give every
\* line the same address as long as there is no error (assemble32.c:428-429
\* and 935).
THEOREM LabelsAreRight == Spec => []PassesAgree
<1>1. IInv => PassesAgree
  <2> SUFFICES ASSUME IInv, pass = "second", nerrors = 0
               PROVE  /\ pc = pcs[n] /\ Len(output) = pc
                      /\ \A k \in DOMAIN file, l \in DOMAIN symbols :
                           Defines(k, l) => symbols[l] = pcs[k]
    BY DEF PassesAgree
  <2>1. DOMAIN file = 1 .. Len(pcs) - 1
    BY DEF IInv, TypeOK, Counted
  <2>2. \A k \in DOMAIN file : HasLabel(file[k]) => symbols[file[k][1]] = pcs[k]
    BY <2>1 DEF IInv, LabelsPlaced
  <2> QED BY <2>2 DEF IInv, CountsAlike, Defines
<1> QED BY <1>1, Invariant, PTL

\* A status of 0 means that every line with an opcode has given a word of its
\* own (assemble32.c:792-793 and 934).
THEOREM SuccessMeansComplete == Spec => []SuccessIsComplete
<1>1. IInv => SuccessIsComplete
  BY DEF IInv, TypeOK, Complete, Translations, RightLength, SuccessIsComplete
<1> QED BY <1>1, Invariant, PTL

-----------------------------------------------------------------------------
(* The offsets in the words.                                               *)

Numbered == \A l \in DOMAIN symbols : symbols[l] \in Int

OffsetsSoFar ==
  (pass = "second" /\ nerrors = 0) \/ Succeeded =>
    \A k \in DOMAIN output : ReadsBack(k)

\* The low bits of a word give every offset that check_offset() lets through.
LEMMA LowBits ==
  ASSUME NEW offset \in Int, InRange(offset)
  PROVE  Signed(offset % (2 * OffsetRange)) = offset
<1> DEFINE low == offset % (2 * OffsetRange)
<1>1. OffsetRange \in Nat /\ OffsetRange > 0 /\ offset \in -OffsetRange .. OffsetRange - 1
  BY OffsetAssumption DEF InRange
<1>2. CASE offset >= 0
  <2>1. 0 <= offset /\ offset < 2 * OffsetRange
    BY <1>1, <1>2
  <2>2. low = offset
    BY <1>1, <2>1
  <2> QED BY <1>1, <2>2 DEF Signed
<1>3. CASE offset < 0
  <2>1. low = offset + 2 * OffsetRange
    BY <1>1, <1>3
  <2> HIDE DEF low
  <2> QED BY <1>1, <2>1 DEF Signed, low
<1> QED BY <1>2, <1>3

\* A line whose number has no error has an offset that check_offset() lets through.
LEMMA NoErrorInRange ==
  ASSUME NEW format, NEW mnem, NEW args \in Seq(STRING),
         ErrorsIn(format, mnem, args) = 0, format # "P",
         NEW k \in DOMAIN args, k \in NumberAt(format)
  PROVE  InRange(Offset(mnem, args[k]))
<1> DEFINE wrong == {i \in DOMAIN args : WrongToken(Operands[format][i], args[i])}
           far == {i \in DOMAIN args :
                     /\ format # "P" /\ Operands[format][i] = "num"
                     /\ BadOffset(mnem, args[i])}
<1>1. IsFiniteSet(DOMAIN args)
  BY FS_Interval
<1>2. IsFiniteSet(wrong) /\ IsFiniteSet(far)
  BY <1>1, FS_Subset
<1>3. ErrorsIn(format, mnem, args) = Cardinality(wrong) + Cardinality(far)
  BY DEF ErrorsIn
<1> HIDE DEF wrong, far
<1>4. Cardinality(wrong) \in Nat /\ Cardinality(far) \in Nat
  BY <1>2, FS_CardinalityType
<1>5. Cardinality(far) = 0
  BY <1>3, <1>4
<1>6. far = {}
  BY <1>2, <1>5, FS_EmptySet
<1> QED BY <1>6 DEF far, NumberAt, BadOffset

\* What is in a line that gave no error.
LEMMA TranslatedOffset ==
  ASSUME NEW mnem, NEW args \in Seq(STRING), Numbered, pc \in Nat,
         Translated(mnem, args).errors = 0,
         NumberAt(Format(mnem)) # {}, Format(mnem) # "P"
  PROVE  TokenToNumber(NumberOf(Format(mnem), args)) =
           Signed(Translated(mnem, args).word.low) + (IF mnem = "beq" THEN pc + 1 ELSE 0)
<1> DEFINE format == Format(mnem)
           t      == NumberOf(format, args)
           here   == IF mnem = "beq" THEN pc + 1 ELSE 0
<1>1. DOMAIN Operands[format] = DOMAIN args
  BY TranslatedWord
<1>2. ErrorsIn(format, mnem, args) = 0 /\ Translated(mnem, args).word = Construct(format, mnem, args)
  BY TranslatedWord
<1>3. PICK k \in NumberAt(format) : t = args[k]
  BY DEF NumberOf
<1>4. k \in DOMAIN args
  BY <1>1 DEF NumberAt
<1>5. InRange(Offset(mnem, t))
  BY <1>2, <1>3, <1>4, NoErrorInRange
<1>6. TokenToNumber(t) \in Int
  BY NumbersAssumption DEF Numbered, TokenToNumber
<1>7. Offset(mnem, t) = TokenToNumber(t) - here /\ here \in Int
  BY DEF Offset
<1>8. Construct(format, mnem, args).low = Offset(mnem, t) % (2 * OffsetRange)
  BY DEF Construct
<1> HIDE DEF t, here, format
<1>9. Offset(mnem, t) \in Int
  BY <1>6, <1>7
<1>10. Signed(Construct(format, mnem, args).low) = TokenToNumber(t) - here
  BY <1>5, <1>7, <1>8, <1>9, LowBits
<1>11. TokenToNumber(t) = Signed(Construct(format, mnem, args).low) + here
  BY <1>6, <1>7, <1>10
<1> QED BY <1>2, <1>11 DEF t, here, format

\* The lines of the words so far, and what their labels mean, stay as they are.
LEMMA OffsetsKept ==
  ASSUME OffsetsSoFar, (pass = "second" /\ nerrors = 0) \/ Succeeded,
         UNCHANGED <<file, symbols>>,
         NEW k \in DOMAIN output, output'[k] = output[k]
  PROVE  ReadsBack(k)'
BY DEF OffsetsSoFar, ReadsBack, TokenToNumber, Signed

LEMMA OffsetsStep ==
  IInv /\ Numbered /\ OffsetsSoFar /\ [Next]_vars => Numbered' /\ OffsetsSoFar'
<1> SUFFICES ASSUME IInv, Numbered, OffsetsSoFar, [Next]_vars
             PROVE  Numbered' /\ OffsetsSoFar'
  OBVIOUS
<1>1. pc \in Nat /\ nerrors \in Nat /\ file \in Seq(Seq(STRING)) /\ IsSeq(output)
  BY DEF IInv, TypeOK
<1>2. CASE FirstPass
  <2>1. pass' = "first"
    BY <1>2 DEF FirstPass
  <2>2. \/ symbols' = symbols
        \/ symbols' = [l \in DOMAIN symbols \cup {file[n][1]} |->
                         IF l = file[n][1] THEN pc ELSE symbols[l]]
    BY <1>2 DEF FirstPass
  <2>3. Numbered'
    BY <1>1, <2>2 DEF Numbered
  <2> QED BY <2>1, <2>3 DEF OffsetsSoFar, Succeeded
<1>3. CASE AfterFirstPass
  <2>1. output' = <<>> /\ symbols' = symbols
    BY <1>3 DEF AfterFirstPass, IInv, Counted
  <2>2. DOMAIN output' = {}
    BY <2>1
  <2> QED BY <2>1, <2>2 DEF OffsetsSoFar, Numbered
<1>4. CASE SecondPass
  <2> DEFINE line == Unlabelled(file[n])
             t == Translated(line[1], Tail(line))
             new == [word |-> t.word, line |-> n]
  <2>1. /\ pass = "second" /\ pass' = pass /\ n \in 1 .. Len(file)
        /\ UNCHANGED <<file, symbols>>
    BY <1>1, <1>4 DEF SecondPass, IInv, TypeOK
  <2>2. Numbered'
    BY <2>1 DEF Numbered
  <2>3. CASE UNCHANGED <<nerrors, output>>
    <3> SUFFICES ASSUME nerrors = 0, NEW k \in DOMAIN output
                 PROVE  ReadsBack(k)'
      BY <2>1, <2>2, <2>3 DEF OffsetsSoFar, Succeeded
    <3> QED BY <2>1, <2>3, OffsetsKept
  <2>4. CASE nerrors' = nerrors + 1
    BY <1>1, <2>1, <2>2, <2>4 DEF OffsetsSoFar, Succeeded
  <2>5. CASE /\ ~Delimited(file[n]) /\ line # <<>> /\ ~Delimited(line)
             /\ nerrors' = nerrors + t.errors /\ output' = Append(output, new)
    <3>1. line \in Seq(STRING) /\ Tail(line) \in Seq(STRING)
      BY <1>1, <2>1, <2>5, UnlabelledType, HeadTailProperties
    <3>2. t.errors \in Nat
      BY <3>1, TranslatedErrors
    <3> SUFFICES ASSUME nerrors' = 0, NEW k \in DOMAIN output'
                 PROVE  ReadsBack(k)'
      BY <2>1, <2>2 DEF OffsetsSoFar, Succeeded
    <3>3. nerrors = 0 /\ t.errors = 0
      BY <1>1, <2>5, <3>2
    <3>4. /\ DOMAIN output = 1 .. Len(output) /\ DOMAIN output' = 1 .. Len(output) + 1
          /\ \A i \in 1 .. Len(output) : output'[i] = output[i]
          /\ output'[Len(output) + 1] = new /\ Len(output) \in Nat
      <4> HIDE DEF new
      <4> QED BY <1>1, <2>5, AppendFacts
    <3>5. CASE k \in DOMAIN output
      BY <2>1, <3>3, <3>4, <3>5, OffsetsKept
    <3>6. CASE k = Len(output) + 1
      <4>1. output'[k].line = n /\ output'[k].word = t.word
        BY <3>4, <3>6
      <4>2. k = pc + 1
        BY <2>1, <3>3, <3>6 DEF IInv, CountsAlike
      <4> DEFINE format == Format(line[1])
      <4>3. NumberAt(format) # {} /\ format # "P" =>
              TokenToNumber(NumberOf(format, Tail(line))) =
                Signed(t.word.low) + (IF line[1] = "beq" THEN k ELSE 0)
        BY <1>1, <3>1, <3>3, <4>2, TranslatedOffset
      <4>4. \A token : TokenToNumber(token)' = TokenToNumber(token)
        BY <2>1 DEF TokenToNumber
      <4>5. Unlabelled(file[output[k].line])' = line
        BY <2>1, <4>1
      <4> HIDE DEF line, t, new
      <4>6. (ReadsBack(k))' <=>
              (NumberAt(format) # {} /\ format # "P" =>
                 TokenToNumber(NumberOf(format, Tail(line)))
                   = Signed(t.word.low) + (IF line[1] = "beq" THEN k ELSE 0))
        BY <4>1, <4>4, <4>5 DEF ReadsBack, Signed
      <4> QED BY <4>3, <4>6
    <3> QED BY <3>4, <3>5, <3>6
  <2> QED BY <1>4, <2>3, <2>4, <2>5 DEF SecondPass
<1>5. CASE AfterSecondPass
  <2>1. /\ pass = "second" /\ UNCHANGED <<file, symbols, output>>
        /\ pass' = "exited" /\ status' = (IF nerrors > 0 THEN 1 ELSE 0)
    BY <1>5 DEF AfterSecondPass, Exit
  <2>2. Numbered'
    BY <2>1 DEF Numbered
  <2> SUFFICES ASSUME Succeeded', NEW k \in DOMAIN output
               PROVE  ReadsBack(k)'
    BY <2>1, <2>2 DEF OffsetsSoFar
  <2>3. nerrors = 0
    BY <1>1, <2>1 DEF Succeeded
  <2> QED BY <2>1, <2>3, OffsetsKept
<1>6. CASE UNCHANGED vars
  <2>1. UNCHANGED <<file, symbols, output, pass, nerrors, status>>
    BY <1>6 DEF vars
  <2>2. Numbered'
    BY <2>1 DEF Numbered
  <2> SUFFICES ASSUME (pass = "second" /\ nerrors = 0) \/ Succeeded,
                      NEW k \in DOMAIN output
               PROVE  ReadsBack(k)'
    BY <2>1, <2>2 DEF OffsetsSoFar, Succeeded
  <2> QED BY <2>1, OffsetsKept
<1> QED BY <1>2, <1>3, <1>4, <1>5, <1>6 DEF Next

\* When an assembly has succeeded, the low bits of every word, read as a
\* signed number, are the offset of its line, for a branch from the address
\* behind it (assemble32.c:609-620, 681 and 845-846).
THEOREM OffsetsAreReadBack == Spec => []OffsetsReadBack
<1>1. Init => Numbered /\ OffsetsSoFar
  <2> SUFFICES ASSUME Init PROVE Numbered /\ OffsetsSoFar
    OBVIOUS
  <2>1. DOMAIN symbols = {} /\ DOMAIN output = {}
    BY DEF Init
  <2> QED BY <2>1 DEF Numbered, OffsetsSoFar
<1>2. OffsetsSoFar => OffsetsReadBack
  BY DEF OffsetsSoFar, OffsetsReadBack
<1> QED BY <1>1, <1>2, OffsetsStep, Invariant, PTL DEF Spec

-----------------------------------------------------------------------------
(* The numbers of the lexer.                                               *)

\* Digits of a small base are digits of a large one; x is none.
LEMMA DigitFacts ==
  /\ DigitsOf(8) \subseteq DigitsOf(10)
  /\ "0" \in DigitsOf(10)
  /\ "x" \notin DigitsOf(10)
<1>1. ASSUME NEW c \in DigitsOf(8)
      PROVE  c \in DigitsOf(10)
  <2>1. PICK k \in 1 .. 8 : c = Digits[k]
    BY DEF DigitsOf
  <2>2. k \in 1 .. 10
    OBVIOUS
  <2> QED BY <2>1, <2>2 DEF DigitsOf
<1>2. "0" \in DigitsOf(10)
  <2>1. Digits[1] = "0" /\ 1 \in 1 .. 10
    BY DEF Digits
  <2> QED BY <2>1, Zenon DEF DigitsOf
<1>3. ASSUME NEW k \in 1 .. 10
      PROVE  Digits[k] # "x"
  <2>1. k \in {1, 2, 3, 4, 5, 6, 7, 8, 9, 10}
    OBVIOUS
  <2> QED BY <2>1 DEF Digits
<1> QED BY <1>1, <1>2, <1>3 DEF DigitsOf

\* Digits up to the end are read up to the end.
LEMMA ValueOfDigits ==
  ASSUME NEW S, NEW t \in Seq(S), NEW p \in Nat, NEW base,
         AllIn(t, p, DigitsOf(base))
  PROVE  Value(t, p, base) = Sum(SubSeq(t, p, Len(t)), base)
<1> DEFINE N == Len(t)
           D == DigitsOf(base)
           others == {k \in p .. N : t[k] \notin D}
           stop == Min(others \cup {N + 1})
<1>1. others = {} /\ N \in Nat
  BY DEF AllIn
<1> HIDE DEF others, N, D
<1>2. others \cup {N + 1} = {N + 1}
  BY <1>1
<1>3. stop = N + 1
  BY <1>1, <1>2 DEF Min
<1>4. Value(t, p, base) = Sum(SubSeq(t, p, stop - 1), base)
  BY Zenon DEF Value, others, N, D
<1> HIDE DEF stop
<1>5. stop - 1 = N
  BY <1>1, <1>3
<1> QED BY <1>4, <1>5, Zenon DEF N

\* What is_numeric() asks of a token whose digits start at a place.
LEMMA NumericIs ==
  ASSUME NEW t, NEW first, first = IF t[1] = "-" THEN 2 ELSE 1, IsNumeric(t)
  PROVE  /\ At(t, first) # "0" => AllIn(t, first, DigitsOf(10))
         /\ At(t, first) = "0" /\ At(t, first + 1) = "x"
              => At(t, first + 2) # "" /\ AllIn(t, first + 2, DigitsOf(16))
         /\ At(t, first) = "0" /\ At(t, first + 1) # "x"
              => AllIn(t, first + 1, DigitsOf(8))
<1>1. CASE At(t, first) # "0"
  BY <1>1, Zenon DEF IsNumeric
<1>2. CASE At(t, first) = "0" /\ At(t, first + 1) = "x"
  <2>1. ~ (At(t, first) # "0")
    BY <1>2
  <2> QED BY <1>2, <2>1, Zenon DEF IsNumeric
<1>3. CASE At(t, first) = "0" /\ At(t, first + 1) # "x"
  <2>1. ~ (At(t, first) # "0") /\ ~ (At(t, first) = "0" /\ At(t, first + 1) = "x")
    BY <1>3
  <2> QED BY <1>3, <2>1, Zenon DEF IsNumeric
<1> QED BY <1>1, <1>2, <1>3

\* An octal number consists of decimal digits.
LEMMA OctalIsDecimal ==
  ASSUME NEW S, NEW t \in Seq(S), NEW p \in Nat \ {0},
         At(t, p) = "0", AllIn(t, p + 1, DigitsOf(8))
  PROVE  AllIn(t, p, DigitsOf(10))
<1>1. SUFFICES ASSUME NEW k \in p .. Len(t) PROVE t[k] \in DigitsOf(10)
  BY DEF AllIn
<1>2. Len(t) \in Nat /\ DOMAIN t = 1 .. Len(t)
  BY LenProperties
<1>3. CASE k = p
  <2>1. p \in DOMAIN t
    BY <1>2, <1>3
  <2>2. t[p] = "0"
    BY <2>1, Zenon DEF At
  <2> QED BY <1>3, <2>2, DigitFacts
<1>4. CASE k # p
  <2>1. k \in p + 1 .. Len(t)
    BY <1>2, <1>4
  <2>2. t[k] \in DigitsOf(8)
    BY <2>1, Zenon DEF AllIn
  <2> QED BY <2>2, DigitFacts
<1> QED BY <1>3, <1>4

\* Digits are read up to the first character that is none.
LEMMA ValueOfZero ==
  ASSUME NEW S, NEW t \in Seq(S), Len(t) >= 3, t[2] = "0", t[3] = "x"
  PROVE  Value(t, 2, 10) = Sum(<<"0">>, 10)
<1> DEFINE N == Len(t)
           others == {k \in 2 .. N : t[k] \notin DigitsOf(10)}
           stop == Min(others \cup {N + 1})
<1>1. N \in Nat /\ N >= 3
  BY LenProperties
<1>2. 3 \in others /\ \A k \in others : k \in 3 .. N
  <2>1. 3 \in others
    BY <1>1, DigitFacts
  <2>2. ASSUME NEW k \in others PROVE k \in 3 .. N
    <3>1. k \in 2 .. N /\ t[k] \notin DigitsOf(10)
      OBVIOUS
    <3>2. k # 2
      BY <3>1, DigitFacts
    <3> QED BY <1>1, <3>1, <3>2
  <2> QED BY <2>1, <2>2
<1>3. Value(t, 2, 10) = Sum(SubSeq(t, 2, stop - 1), 10)
  BY Zenon DEF Value
<1> HIDE DEF others
<1>4. stop = 3
  <2> DEFINE all == others \cup {N + 1}
  <2>1. 3 \in all /\ \A k \in all : k \in Int /\ 3 <= k
    BY <1>1, <1>2
  <2> HIDE DEF all
  <2>2. Min(all) = CHOOSE m \in all : \A k \in all : m <= k
    BY Zenon DEF Min
  <2>3. Min(all) \in all /\ \A k \in all : Min(all) <= k
    BY <2>1, <2>2
  <2>4. Min(all) = 3
    BY <2>1, <2>3
  <2> QED BY <2>4 DEF all
<1> HIDE DEF stop
<1>5. SubSeq(t, 2, 2) = <<"0">>
  <2> DEFINE w == SubSeq(t, 2, 2)
  <2>1. 2 \in 1 .. N + 1 /\ 2 \in 2 - 1 .. N
    BY <1>1
  <2>2. w \in Seq(S) /\ Len(w) = 1 /\ \A k \in 1 .. 1 : w[k] = t[2 + k - 1]
    BY <2>1, SubSeqProperties
  <2>3. w[1] = "0"
    BY <2>2
  <2>4. "0" \in S
    BY <1>1
  <2> DEFINE v == <<"0">>
  <2>5. v \in Seq(S) /\ Len(v) = 1 /\ v[1] = "0"
    BY <2>4
  <2> HIDE DEF w, v
  <2>6. w = v
    BY <2>2, <2>3, <2>5, SeqEqual
  <2> QED BY <2>6 DEF w, v
<1>6. stop - 1 = 2
  BY <1>4
<1> QED BY <1>3, <1>5, <1>6

\* What is behind a sign is the token without it.
LEMMA BehindSign ==
  ASSUME NEW S, NEW t \in Seq(S), t # <<>>
  PROVE  LET u == Tail(t)
         IN /\ u \in Seq(S) /\ Len(u) = Len(t) - 1
            /\ \A k \in 1 .. Len(t) - 1 : u[k] = t[k + 1]
            /\ SubSeq(u, 1, Len(u)) = SubSeq(t, 2, Len(t))
<1> DEFINE u == Tail(t)
           v == SubSeq(u, 1, Len(u))
           w == SubSeq(t, 2, Len(t))
<1>1. Len(t) \in Nat \ {0}
  BY EmptySeq
<1>2. /\ u \in Seq(S) /\ Len(u) = Len(t) - 1
      /\ \A k \in 1 .. Len(t) - 1 : u[k] = t[k + 1]
  OBVIOUS
<1>3. v = u
  BY <1>2
<1>4. w \in Seq(S) /\ Len(w) = Len(t) - 1 /\ \A k \in 1 .. Len(t) - 1 : w[k] = t[k + 1]
  <2>1. 2 \in 1 .. Len(t) + 1 /\ Len(t) \in 2 - 1 .. Len(t)
    BY <1>1
  <2>2. /\ w \in Seq(S)
        /\ Len(w) = IF 2 <= Len(t) THEN Len(t) - 2 + 1 ELSE 0
        /\ \A k \in 1 .. Len(t) - 2 + 1 : w[k] = t[2 + k - 1]
    BY <2>1, SubSeqProperties
  <2> HIDE DEF w
  <2>3. Len(w) = Len(t) - 1
    <3> DEFINE N == Len(t)
    <3> HIDE DEF N
    <3>1. N \in Nat \ {0} /\ Len(w) = IF 2 <= N THEN N - 2 + 1 ELSE 0
      BY <1>1, <2>2 DEF N
    <3>2. Len(w) = N - 1
      BY <3>1
    <3> QED BY <3>2 DEF N
  <2> QED BY <1>1, <2>2, <2>3
<1>5. u = w
  <2> HIDE DEF u, w
  <2> QED BY <1>1, <1>2, <1>4, SeqEqual
<1> QED BY <1>2, <1>3, <1>5

\* What a type keeps of a number is in its range, leaves the numbers in that
\* range alone and has the same low bits.
LEMMA WrappedIs ==
  ASSUME NEW v \in Int, NEW limit \in Nat \ {0}
  PROVE  /\ Fits(v, limit) => Wrapped(v, limit) = v
         /\ Wrapped(v, limit) \in Int
         /\ Wrapped(v, limit) % (2 * limit) = v % (2 * limit)
<1> DEFINE size == 2 * limit
           low == v % size
<1>1. low \in 0 .. size - 1 /\ size \in Nat \ {0}
  OBVIOUS
<1>2. Fits(v, limit) => Wrapped(v, limit) = v
  <2> SUFFICES ASSUME Fits(v, limit) PROVE Wrapped(v, limit) = v
    OBVIOUS
  <2>1. CASE v >= 0
    <3>1. low = v
      BY <2>1 DEF Fits
    <3> QED BY <3>1 DEF Wrapped, Fits
  <2>2. CASE v < 0
    <3>1. low = v + size
      BY <2>2 DEF Fits
    <3> HIDE DEF low
    <3> QED BY <2>2, <3>1 DEF Wrapped, Fits, low
  <2> QED BY <2>1, <2>2
<1>3. Wrapped(v, limit) = low \/ Wrapped(v, limit) = low - size
  BY DEF Wrapped
<1>4. low % size = low
  BY <1>1
<1>5. (low - size) % size = low
  BY <1>1
<1> QED BY <1>1, <1>2, <1>3, <1>4, <1>5

\* A number is read up to its end, as a hexadecimal or as a decimal one; of a
\* negative hexadecimal one the 0 is.
LEMMA DigitsAreRead ==
  ASSUME NEW S, text \in Seq(S), Number(text)
  PROVE  Hextoi(text) =
           IF IsHex(text) /\ ~Negative(text) THEN Wrapped(ReadFor(text), LongLimit)
           ELSE Wrapped(Clamped(ReadFor(text), LongLimit), IntLimit)
<1> DEFINE N == Len(text)
           u == Unsigned(text)
<1>1. /\ text # <<>> /\ IsNumeric(text) /\ N \in Nat \ {0} /\ DOMAIN text = 1 .. N
  BY EmptySeq, LenProperties DEF Number
<1>2. CASE Negative(text)
  <2>1. text[1] = "-" /\ u = Tail(text)
    BY <1>2 DEF Negative, Unsigned
  <2>2. /\ Len(u) = N - 1 /\ \A k \in 1 .. N - 1 : u[k] = text[k + 1]
        /\ SubSeq(u, 1, Len(u)) = SubSeq(text, 2, N)
    BY <1>1, <2>1, BehindSign
  <2>3. /\ At(text, 2) # "0" => AllIn(text, 2, DigitsOf(10))
        /\ At(text, 2) = "0" /\ At(text, 3) = "x" => At(text, 4) # ""
        /\ At(text, 2) = "0" /\ At(text, 3) # "x" => AllIn(text, 3, DigitsOf(8))
    <3>1. 2 = (IF text[1] = "-" THEN 2 ELSE 1) /\ 2 + 1 = 3 /\ 2 + 2 = 4
      BY <2>1
    <3> QED BY <1>1, <3>1, NumericIs
  <2>4. Hextoi(text) = Wrapped(Clamped(-Value(text, 2, 10), LongLimit), IntLimit)
    BY <2>1 DEF Hextoi, Atoi
  <2>5. CASE IsHex(text)
    <3>1. N > 3 /\ text[3] = "x"
      BY <1>1, <2>1, <2>2, <2>5 DEF IsHex
    <3>2. At(text, 2) = "0"
      <4>1. text[3] \notin DigitsOf(10)
        BY <3>1, DigitFacts
      <4>2. ~AllIn(text, 2, DigitsOf(10))
        BY <1>1, <3>1, <4>1 DEF AllIn
      <4> QED BY <2>3, <4>2
    <3>3. text[2] = "0"
      BY <1>1, <3>1, <3>2 DEF At
    <3>4. Value(text, 2, 10) = Sum(<<"0">>, 10)
      BY <1>1, <3>1, <3>3, ValueOfZero
    <3>5. ReadFor(text) = -Sum(<<"0">>, 10)
      BY <1>2, <2>5 DEF ReadFor
    <3> QED BY <1>2, <2>4, <3>4, <3>5
  <2>6. CASE ~IsHex(text)
    <3>1. AllIn(text, 2, DigitsOf(10))
      <4>1. CASE At(text, 2) = "0" /\ At(text, 3) = "x"
        <5>1. 4 \in 1 .. N /\ text[3] = "x"
          BY <1>1, <2>3, <4>1 DEF At
        <5>2. Len(u) > 2 /\ u[2] = "x"
          BY <1>1, <2>2, <5>1
        <5> QED BY <2>1, <2>6, <5>2 DEF IsHex
      <4>2. CASE At(text, 2) = "0" /\ At(text, 3) # "x"
        <5>1. 2 \in Nat \ {0} /\ 2 + 1 = 3
          OBVIOUS
        <5> QED BY <2>3, <4>2, <5>1, OctalIsDecimal
      <4> QED BY <2>3, <4>1, <4>2
    <3>2. Value(text, 2, 10) = Sum(SubSeq(text, 2, N), 10)
      BY <3>1, ValueOfDigits
    <3>3. ReadFor(text) = -Sum(SubSeq(u, 1, Len(u)), 10)
      BY <1>2, <2>6 DEF ReadFor, Meant
    <3> QED BY <1>2, <2>2, <2>4, <3>2, <3>3
  <2> QED BY <2>5, <2>6
<1>3. CASE ~Negative(text)
  <2>1. text[1] # "-" /\ u = text
    BY <1>1, <1>3 DEF Negative, Unsigned
  <2>2. /\ At(text, 1) # "0" => AllIn(text, 1, DigitsOf(10))
        /\ At(text, 1) = "0" /\ At(text, 2) = "x"
             => At(text, 3) # "" /\ AllIn(text, 3, DigitsOf(16))
        /\ At(text, 1) = "0" /\ At(text, 2) # "x" => AllIn(text, 2, DigitsOf(8))
    <3>1. 1 = (IF text[1] = "-" THEN 2 ELSE 1) /\ 1 + 1 = 2 /\ 1 + 2 = 3
      BY <2>1
    <3> QED BY <1>1, <3>1, NumericIs
  <2>3. CASE At(text, 1) = "0" /\ At(text, 2) = "x"
    <3>1. At(text, 3) # "" /\ AllIn(text, 3, DigitsOf(16))
      BY <2>2, <2>3
    <3>2. 3 \in 1 .. N /\ text[2] = "x" /\ text[1] = "0"
      BY <1>1, <2>3, <3>1 DEF At
    <3>3. IsHex(text)
      BY <1>1, <2>1, <3>2 DEF IsHex
    <3>4. Hextoi(text) = Wrapped(Value(text, 3, 16), LongLimit)
      BY <2>3, <3>2 DEF Hextoi
    <3>5. Value(text, 3, 16) = Sum(SubSeq(text, 3, N), 16)
      BY <3>1, ValueOfDigits
    <3>6. ReadFor(text) = Sum(SubSeq(text, 3, N), 16)
      BY <1>3, <2>1, <3>3 DEF ReadFor, Meant
    <3> QED BY <1>3, <3>3, <3>4, <3>5, <3>6
  <2>4. CASE ~ (At(text, 1) = "0" /\ At(text, 2) = "x")
    <3>1. AllIn(text, 1, DigitsOf(10))
      <4>1. CASE At(text, 1) = "0"
        <5>1. 1 \in Nat \ {0} /\ 1 + 1 = 2
          OBVIOUS
        <5> QED BY <2>2, <2>4, <4>1, <5>1, OctalIsDecimal
      <4> QED BY <2>2, <4>1
    <3>2. ~IsHex(text)
      <4>1. IsHex(text) => 2 \in 1 .. N /\ text[2] = "x"
        BY <1>1, <2>1 DEF IsHex
      <4> QED BY <3>1, <4>1, DigitFacts DEF AllIn
    <3>3. Hextoi(text) = Wrapped(Clamped(Value(text, 1, 10), LongLimit), IntLimit)
      <4>1. At(text, 1) = text[1]
        <5>1. 1 \in DOMAIN text
          BY <1>1
        <5> QED BY <5>1, Zenon DEF At
      <4> QED BY <2>1, <2>4, <4>1 DEF Hextoi, Atoi
    <3>4. Value(text, 1, 10) = Sum(SubSeq(text, 1, N), 10)
      BY <3>1, ValueOfDigits
    <3>5. ReadFor(text) = Sum(SubSeq(text, 1, N), 10)
      BY <1>3, <2>1, <3>2 DEF ReadFor, Meant
    <3> QED BY <3>2, <3>3, <3>4, <3>5
  <2> QED BY <2>3, <2>4
<1> QED BY <1>2, <1>3

\* Every token that is taken for a number is read for what ReadFor() says if
\* that is an int, and for its low bits if it is a long, whatever the widths of
\* the two types are (assemble32.c:145-166, 453-519 and 636).
THEOREM TokensAreRead ==
  ASSUME NEW S, text \in Seq(S)
  PROVE  NumbersRead
<1> DEFINE number == ReadFor(text)
<1> SUFFICES ASSUME Number(text), Fits(number, LongLimit)
             PROVE  /\ Fits(number, IntLimit) => NumericValue(text) = number
                    /\ NumericValue(text) % (2 * IntLimit) = number % (2 * IntLimit)
  <2>1. Fits(number, IntLimit) => Fits(number, LongLimit)
    BY WidthsAssumption DEF Fits
  <2> QED BY <2>1 DEF NumbersRead
<1>1. Hextoi(text) = IF IsHex(text) /\ ~Negative(text) THEN Wrapped(number, LongLimit)
                     ELSE Wrapped(Clamped(number, LongLimit), IntLimit)
  BY DigitsAreRead
<1>2. /\ number \in Int /\ IntLimit \in Nat \ {0} /\ LongLimit \in Nat \ {0}
  BY WidthsAssumption DEF Fits
<1> HIDE DEF number
<1>3. CASE IsHex(text) /\ ~Negative(text)
  <2>1. Hextoi(text) = number
    BY <1>1, <1>2, <1>3, WrappedIs
  <2> QED BY <1>2, <2>1, WrappedIs DEF NumericValue
<1>4. CASE ~ (IsHex(text) /\ ~Negative(text))
  <2>1. Clamped(number, LongLimit) = number
    BY DEF Clamped
  <2>2. Hextoi(text) = Wrapped(number, IntLimit)
    BY <1>1, <1>4, <2>1
  <2>3. /\ Hextoi(text) \in Int
        /\ Hextoi(text) % (2 * IntLimit) = number % (2 * IntLimit)
        /\ Fits(number, IntLimit) => Hextoi(text) = number
    BY <1>2, <2>2, WrappedIs
  <2> QED BY <1>2, <2>3, WrappedIs DEF NumericValue
<1> QED BY <1>3, <1>4

\* The same of every text that can be typed.
TypedText == text \in Seq(UNION Alphabets)

THEOREM NumbersAreRead == TypingSpec => []NumbersRead
<1>1. NoText => TypedText
  BY DEF NoText, TypedText
<1>2. TypedText /\ [Type]_text => TypedText'
  <2> SUFFICES ASSUME TypedText, [Type]_text
               PROVE  text' \in Seq(UNION Alphabets)
    BY DEF TypedText
  <2>1. CASE Type
    <3>1. PICK characters \in Alphabets : \E c \in characters : text' = Append(text, c)
      BY <2>1 DEF Type
    <3>2. PICK c \in characters : text' = Append(text, c)
      BY <3>1
    <3>3. c \in UNION Alphabets
      OBVIOUS
    <3> QED BY <3>2, <3>3, AppendProperties DEF TypedText
  <2> QED BY <2>1 DEF TypedText
<1>3. TypedText => NumbersRead
  BY TokensAreRead DEF TypedText
<1> QED BY <1>1, <1>2, <1>3, PTL DEF TypingSpec

-----------------------------------------------------------------------------
(* The words of Prj1Assembler.  First, powers of two.                      *)

LEMMA Power ==
  ASSUME NEW a \in Nat
  PROVE  2^a \in Nat /\ 2^a # 0 /\ Cardinality(SUBSET (1 .. a)) = 2^a
                     /\ IsFiniteSet(SUBSET (1 .. a))
<1>1. IsFiniteSet(1 .. a) /\ Cardinality(1 .. a) = a
  BY FS_Interval
<1>2. IsFiniteSet(SUBSET (1 .. a)) /\ Cardinality(SUBSET (1 .. a)) = 2^a
  BY <1>1, FS_SUBSET
<1>3. 2^a \in Nat
  BY <1>2, FS_CardinalityType
<1>4. SUBSET (1 .. a) # {}
  BY {} \in SUBSET (1 .. a)
<1>5. Cardinality(SUBSET (1 .. a)) # 0
  BY <1>2, <1>4, FS_EmptySet
<1> QED BY <1>2, <1>3, <1>5

\* The subsets of a and of b elements are, in pairs, those of a + b elements.
LEMMA PowerSum ==
  ASSUME NEW a \in Nat, NEW b \in Nat
  PROVE  2^(a + b) = 2^a * 2^b
<1> DEFINE A == 1 .. a
           B == a + 1 .. a + b
           C == 1 .. a + b
           P == SUBSET A
           Q == SUBSET B
           R == SUBSET C
           f == [p \in P \X Q |-> p[1] \cup p[2]]
<1>1. A \cup B = C /\ A \cap B = {}
  OBVIOUS
<1>2. /\ IsFiniteSet(A) /\ Cardinality(A) = a
      /\ IsFiniteSet(B) /\ Cardinality(B) = b
      /\ IsFiniteSet(C) /\ Cardinality(C) = a + b
  <2>1. a + b \in Nat /\ a + 1 \in Nat
    OBVIOUS
  <2>2. IsFiniteSet(B) /\ Cardinality(B) = (IF a + 1 > a + b THEN 0 ELSE (a + b) - (a + 1) + 1)
    BY <2>1, FS_Interval
  <2> QED BY <2>1, <2>2, FS_Interval
<1> HIDE DEF A, B, C
<1>3. /\ IsFiniteSet(P) /\ Cardinality(P) = 2^a
      /\ IsFiniteSet(Q) /\ Cardinality(Q) = 2^b
      /\ IsFiniteSet(R) /\ Cardinality(R) = 2^(a + b)
  BY <1>2, FS_SUBSET
<1>4. ASSUME NEW S \in P, NEW T \in Q
      PROVE  /\ S \cup T \in R /\ (S \cup T) \cap A = S /\ (S \cup T) \cap B = T
  BY <1>1
<1>5. ASSUME NEW U \in R
      PROVE  U \cap A \in P /\ U \cap B \in Q /\ (U \cap A) \cup (U \cap B) = U
  BY <1>1
<1> HIDE DEF P, Q, R
<1>6. \A S \in P, T \in Q : <<S, T>> \in P \X Q /\ f[<<S, T>>] = S \cup T
  OBVIOUS
<1>7. \A p \in P \X Q : \E S \in P, T \in Q : p = <<S, T>>
  OBVIOUS
<1>8. f \in [P \X Q -> R]
  <2>1. \A p \in P \X Q : p[1] \cup p[2] \in R
    BY <1>4
  <2> QED BY <2>1
<1> HIDE DEF f
<1>9. \A p, q \in P \X Q : f[p] = f[q] => p = q
  <2>1. ASSUME NEW S \in P, NEW T \in Q, NEW S1 \in P, NEW T1 \in Q,
               f[<<S, T>>] = f[<<S1, T1>>]
        PROVE  S = S1 /\ T = T1
    <3>1. S \cup T = S1 \cup T1
      BY <1>6, <2>1
    <3>2. S = (S \cup T) \cap A /\ T = (S \cup T) \cap B
      BY <1>4
    <3>3. S1 = (S1 \cup T1) \cap A /\ T1 = (S1 \cup T1) \cap B
      BY <1>4
    <3> QED BY <3>1, <3>2, <3>3, Zenon
  <2> QED BY <1>7, <2>1
<1>10. ASSUME NEW U \in R
       PROVE  \E p \in P \X Q : f[p] = U
  <2>1. U \cap A \in P /\ U \cap B \in Q /\ (U \cap A) \cup (U \cap B) = U
    BY <1>5
  <2>2. <<U \cap A, U \cap B>> \in P \X Q /\ f[<<U \cap A, U \cap B>>] = U
    BY <1>6, <2>1, Zenon
  <2> QED BY <2>2
<1>11. f \in Bijection(P \X Q, R)
  <2>1. f \in Injection(P \X Q, R)
    BY <1>8, <1>9 DEF Injection, IsInjective
  <2>2. f \in Surjection(P \X Q, R)
    BY <1>8, <1>10 DEF Surjection
  <2> QED BY <2>1, <2>2 DEF Bijection
<1>12. ExistsBijection(P \X Q, R)
  BY <1>11, Zenon DEF ExistsBijection
<1>13. /\ IsFiniteSet(P \X Q)
       /\ Cardinality(P \X Q) = Cardinality(P) * Cardinality(Q)
  BY <1>3, FS_Product
<1>14. Cardinality(R) = Cardinality(P \X Q)
  BY <1>12, <1>13, FS_Bijection
<1> QED BY <1>3, <1>13, <1>14, Zenon

-----------------------------------------------------------------------------
(* Strings of digits.                                                      *)

Nothing == Bits(0, 0)

\* Up to five strings are put together one after the other.
LEMMA JoinedIs ==
  ASSUME NEW strings, Len(strings) \in 0 .. 5
  PROVE  LET v1 == Join(Nothing, strings[1])
             v2 == Join(v1, strings[2])
             v3 == Join(v2, strings[3])
             v4 == Join(v3, strings[4])
             v5 == Join(v4, strings[5])
         IN Joined(strings) = CASE Len(strings) = 0 -> Nothing
                                [] Len(strings) = 1 -> v1
                                [] Len(strings) = 2 -> v2
                                [] Len(strings) = 3 -> v3
                                [] Len(strings) = 4 -> v4
                                [] Len(strings) = 5 -> v5
<1> DEFINE v1 == Join(Nothing, strings[1])
           v2 == Join(v1, strings[2])
           v3 == Join(v2, strings[3])
           v4 == Join(v3, strings[4])
           v5 == Join(v4, strings[5])
           N  == Len(strings)
           IsFirst(f) == f = [k \in 0 .. N |-> IF k = 0 THEN Nothing
                                               ELSE Join(f[k - 1], strings[k])]
           first == CHOOSE f : IsFirst(f)
           value(k) == CASE k = 0 -> Nothing [] k = 1 -> v1 [] k = 2 -> v2
                         [] k = 3 -> v3 [] k = 4 -> v4 [] k = 5 -> v5
           w == [k \in 0 .. N |-> value(k)]
<1>1. Joined(strings) = first[N]
  BY DEF Joined, Nothing
<1> HIDE DEF N, v1, v2, v3, v4, v5
<1>2. v1 = Join(Nothing, strings[1]) /\ v2 = Join(v1, strings[2])
      /\ v3 = Join(v2, strings[3]) /\ v4 = Join(v3, strings[4]) /\ v5 = Join(v4, strings[5])
  BY DEF v1, v2, v3, v4, v5
<1>3. N \in 0 .. 5
  BY DEF N
<1>4. IsFirst(w)
  <2>1. ASSUME NEW k \in 0 .. N
        PROVE  w[k] = IF k = 0 THEN Nothing ELSE Join(w[k - 1], strings[k])
    <3>1. k \in 0 .. 5 /\ k \in {0, 1, 2, 3, 4, 5} /\ (k # 0 => k - 1 \in 0 .. N)
      BY <1>3
    <3>2. w[k] = CASE k = 0 -> Nothing [] k = 1 -> v1 [] k = 2 -> v2
                   [] k = 3 -> v3 [] k = 4 -> v4 [] k = 5 -> v5
      OBVIOUS
    <3>3. k # 0 => w[k - 1] = CASE k = 1 -> Nothing [] k = 2 -> v1 [] k = 3 -> v2
                                [] k = 4 -> v3 [] k = 5 -> v4
      BY <3>1
    <3> HIDE DEF w
    <3> QED BY <1>2, <3>1, <3>2, <3>3
  <2>2. w = [k \in 0 .. N |-> w[k]]
    <3> HIDE DEF value
    <3> QED OBVIOUS
  <2> HIDE DEF w
  <2> QED BY <2>1, <2>2
<1> HIDE DEF IsFirst, w
<1>5. IsFirst(first)
  BY <1>4, Zenon
<1> HIDE DEF first
<1>6. \A k \in 0 .. N : first[k] = IF k = 0 THEN Nothing ELSE Join(first[k - 1], strings[k])
  BY <1>5 DEF IsFirst
<1>7. first[0] = Nothing
  BY <1>3, <1>6
<1>8. N >= 1 => first[1] = v1
  BY <1>2, <1>3, <1>6, <1>7
<1>9. N >= 2 => first[2] = v2
  BY <1>2, <1>3, <1>6, <1>8
<1>10. N >= 3 => first[3] = v3
  BY <1>2, <1>3, <1>6, <1>9
<1>11. N >= 4 => first[4] = v4
  BY <1>2, <1>3, <1>6, <1>10
<1>12. N >= 5 => first[5] = v5
  BY <1>2, <1>3, <1>6, <1>11
<1>13. first[N] = CASE N = 0 -> Nothing [] N = 1 -> v1 [] N = 2 -> v2
                    [] N = 3 -> v3 [] N = 4 -> v4 [] N = 5 -> v5
  BY <1>3, <1>7, <1>8, <1>9, <1>10, <1>11, <1>12
<1> QED BY <1>1, <1>13 DEF N, v1, v2, v3, v4, v5

IsBits(a) == a.value \in Nat /\ a.width \in Nat

\* v, k places to the left.
Shift(v, k) == v * 2^k

\* The laws of shifting, named so that they are used where they are asked for.
Twice(v, k, m) == Shift(Shift(v, k), m) = Shift(v, k + m)
Sums(v, w, k)  == Shift(v + w, k) = Shift(v, k) + Shift(w, k)

LEMMA ShiftType ==
  ASSUME NEW v \in Nat, NEW k \in Nat
  PROVE  Shift(v, k) \in Nat /\ Shift(0, k) = 0
<1> DEFINE p == 2^k
<1>1. p \in Nat
  BY Power
<1> HIDE DEF p
<1>2. v * p \in Nat /\ 0 * p = 0
  BY <1>1
<1> QED BY <1>2 DEF Shift, p

LEMMA ShiftTwice ==
  ASSUME NEW v \in Nat, NEW k \in Nat, NEW m \in Nat
  PROVE  Twice(v, k, m)
<1> DEFINE p == 2^k
           q == 2^m
           r == 2^(k + m)
<1>1. p \in Nat /\ q \in Nat
  BY Power
<1>2. r = p * q
  BY PowerSum, Zenon
<1> HIDE DEF p, q, r
<1>3. (v * p) * q = v * r
  BY <1>1, <1>2
<1> QED BY <1>3, Zenon DEF Twice, Shift, p, q, r

LEMMA ShiftSum ==
  ASSUME NEW v \in Nat, NEW w \in Nat, NEW k \in Nat
  PROVE  Sums(v, w, k)
<1> DEFINE p == 2^k
<1>1. p \in Nat
  BY Power
<1> HIDE DEF p
<1>2. (v + w) * p = v * p + w * p
  BY <1>1
<1> QED BY <1>2 DEF Sums, Shift, p

LEMMA JoinIs ==
  ASSUME NEW a, IsBits(a), NEW b, IsBits(b)
  PROVE  /\ IsBits(Join(a, b))
         /\ Join(a, b).value = Shift(a.value, b.width) + b.value
         /\ Join(a, b).width = a.width + b.width
<1>1. Shift(a.value, b.width) \in Nat
  BY ShiftType DEF IsBits
<1>2. /\ Join(a, b).value = Shift(a.value, b.width) + b.value
      /\ Join(a, b).width = a.width + b.width
  BY DEF Join, Bits, Shift
<1> QED BY <1>1, <1>2 DEF IsBits

LEMMA JoinOne ==
  ASSUME NEW a, IsBits(a)
  PROVE  LET v == Join(Nothing, a) IN IsBits(v) /\ v.value = a.value /\ v.width = a.width
<1>1. IsBits(Nothing) /\ Nothing.value = 0 /\ Nothing.width = 0
  BY DEF IsBits, Nothing, Bits
<1>2. Shift(0, a.width) = 0 /\ a.value \in Nat /\ a.width \in Nat
  BY ShiftType DEF IsBits
<1> QED BY <1>1, <1>2, JoinIs

\* The value of two strings that are put together, of four and of five.
LEMMA JoinTwo ==
  ASSUME NEW a, IsBits(a), NEW b, IsBits(b)
  PROVE  Joined(<<a, b>>).value = Shift(a.value, b.width) + b.value
<1> DEFINE s == <<a, b>>
<1>1. Len(s) = 2 /\ s[1] = a /\ s[2] = b
  OBVIOUS
<1> HIDE DEF s
<1>2. Joined(s) = Join(Join(Nothing, a), b)
  BY <1>1, JoinedIs
<1> QED BY <1>2, JoinOne, JoinIs DEF s

FourIs(a, b, c, d) ==
  Joined(<<a, b, c, d>>).value =
    Shift(a.value, b.width + c.width + d.width)
      + Shift(b.value, c.width + d.width) + Shift(c.value, d.width) + d.value
FiveIs(a, b, c, d, e) ==
  Joined(<<a, b, c, d, e>>).value =
    Shift(a.value, b.width + c.width + d.width + e.width)
      + Shift(b.value, c.width + d.width + e.width)
      + Shift(c.value, d.width + e.width) + Shift(d.value, e.width) + e.value

LEMMA JoinMany ==
  ASSUME NEW a, IsBits(a), NEW b, IsBits(b), NEW c, IsBits(c), NEW d, IsBits(d),
         NEW e, IsBits(e)
  PROVE  FourIs(a, b, c, d) /\ FiveIs(a, b, c, d, e)
<1> DEFINE s  == <<a, b, c, d>>
           t  == <<a, b, c, d, e>>
           v2 == Join(Join(Nothing, a), b)
           v3 == Join(v2, c)
           v4 == Join(v3, d)
           v5 == Join(v4, e)
<1>1. /\ Len(s) = 4 /\ s[1] = a /\ s[2] = b /\ s[3] = c /\ s[4] = d
      /\ Len(t) = 5 /\ t[1] = a /\ t[2] = b /\ t[3] = c /\ t[4] = d /\ t[5] = e
  OBVIOUS
<1> HIDE DEF s, t
<1>2. Joined(s) = v4 /\ Joined(t) = v5
  BY <1>1, JoinedIs
<1>3. IsBits(v2) /\ v2.value = Shift(a.value, b.width) + b.value
  BY JoinOne, JoinIs
<1> HIDE DEF v2
<1>4. /\ b.width \in Nat /\ c.width \in Nat /\ d.width \in Nat /\ e.width \in Nat
      /\ a.value \in Nat /\ b.value \in Nat /\ c.value \in Nat /\ d.value \in Nat
  BY DEF IsBits
<1>5. IsBits(v3) /\ v3.value = Shift(v2.value, c.width) + c.value
  BY <1>3, JoinIs
<1>6. Shift(v2.value, c.width) = Shift(a.value, b.width + c.width) + Shift(b.value, c.width)
  <2>1. Shift(a.value, b.width) \in Nat
    BY <1>4, ShiftType
  <2>2. Sums(Shift(a.value, b.width), b.value, c.width)
    BY <1>4, <2>1, ShiftSum
  <2>3. Twice(a.value, b.width, c.width)
    BY <1>4, ShiftTwice
  <2> QED BY <1>3, <2>2, <2>3 DEF Sums, Twice
<1> HIDE DEF v3
<1>7. IsBits(v4) /\ v4.value = Shift(v3.value, d.width) + d.value
  BY <1>5, JoinIs
<1>8. Shift(v3.value, d.width) =
        Shift(a.value, b.width + c.width + d.width) + Shift(b.value, c.width + d.width)
          + Shift(c.value, d.width)
  <2> DEFINE x   == Shift(a.value, b.width + c.width)
             y   == Shift(b.value, c.width)
             xy  == x + y
  <2>1. b.width + c.width \in Nat
    BY <1>4
  <2>2. x \in Nat /\ y \in Nat
    BY <1>4, <2>1, ShiftType
  <2>3. Twice(a.value, b.width + c.width, d.width) /\ Twice(b.value, c.width, d.width)
    BY <1>4, <2>1, ShiftTwice
  <2>4. /\ Shift(x, d.width) = Shift(a.value, b.width + c.width + d.width)
        /\ Shift(y, d.width) = Shift(b.value, c.width + d.width)
    BY <2>3 DEF Twice
  <2>5. v3.value = xy + c.value
    BY <1>5, <1>6
  <2> HIDE DEF x, y
  <2>6. xy \in Nat /\ Sums(x, y, d.width)
    BY <1>4, <2>2, ShiftSum
  <2>7. Shift(xy, d.width) = Shift(x, d.width) + Shift(y, d.width)
    BY <2>6 DEF Sums
  <2> HIDE DEF xy
  <2>8. Sums(xy, c.value, d.width)
    BY <1>4, <2>6, ShiftSum
  <2> QED BY <2>4, <2>5, <2>7, <2>8 DEF Sums
<1> HIDE DEF v4
<1>9. v5.value = Shift(v4.value, e.width) + e.value
  BY <1>7, JoinIs
<1>10. Shift(v4.value, e.width) =
         Shift(a.value, b.width + c.width + d.width + e.width)
           + Shift(b.value, c.width + d.width + e.width)
           + Shift(c.value, d.width + e.width) + Shift(d.value, e.width)
  <2> DEFINE x   == Shift(a.value, b.width + c.width + d.width)
             y   == Shift(b.value, c.width + d.width)
             z   == Shift(c.value, d.width)
             xy  == x + y
             xyz == xy + z
  <2>1. b.width + c.width + d.width \in Nat /\ c.width + d.width \in Nat
    BY <1>4
  <2>2. x \in Nat /\ y \in Nat /\ z \in Nat
    BY <1>4, <2>1, ShiftType
  <2>3. /\ Twice(a.value, b.width + c.width + d.width, e.width)
        /\ Twice(b.value, c.width + d.width, e.width)
        /\ Twice(c.value, d.width, e.width)
    BY <1>4, <2>1, ShiftTwice
  <2>4. /\ Shift(x, e.width) = Shift(a.value, b.width + c.width + d.width + e.width)
        /\ Shift(y, e.width) = Shift(b.value, c.width + d.width + e.width)
        /\ Shift(z, e.width) = Shift(c.value, d.width + e.width)
    BY <2>3 DEF Twice
  <2>5. v4.value = xyz + d.value
    BY <1>7, <1>8
  <2> HIDE DEF x, y, z
  <2>6. xy \in Nat /\ Sums(x, y, e.width)
    BY <1>4, <2>2, ShiftSum
  <2>7. Shift(xy, e.width) = Shift(x, e.width) + Shift(y, e.width)
    BY <2>6 DEF Sums
  <2> HIDE DEF xy
  <2>8. xyz \in Nat /\ Sums(xy, z, e.width)
    BY <1>4, <2>2, <2>6, ShiftSum
  <2>9. Shift(xyz, e.width) = Shift(xy, e.width) + Shift(z, e.width)
    BY <2>8 DEF Sums
  <2> HIDE DEF xyz
  <2>10. Sums(xyz, d.value, e.width)
    BY <1>4, <2>8, ShiftSum
  <2> QED BY <2>4, <2>5, <2>7, <2>9, <2>10 DEF Sums
<1>11. Joined(s).value = v4.value /\ Joined(t).value = v5.value
  BY <1>2
<1> HIDE DEF v5
<1>12. FourIs(a, b, c, d)
  BY <1>7, <1>8, <1>11 DEF FourIs, s
<1>13. FiveIs(a, b, c, d, e)
  BY <1>9, <1>10, <1>11 DEF FiveIs, t
<1> QED BY <1>12, <1>13

-----------------------------------------------------------------------------
(* The parts of a word.                                                    *)

LEMMA Sizes ==
  /\ OpBits \in Nat /\ RegBits \in Nat /\ TargetBits \in Nat /\ IntBits \in Nat
  /\ ImmDigits \in Nat \ {0} /\ 4 * ImmDigits \in Nat \ {0}
  /\ TargetBits = 2 * RegBits + 4 * ImmDigits
  /\ 4 * ImmDigits - RegBits \in Nat /\ TargetBits # 0
BY FormatAssumption

LEMMA OpcodeIs ==
  ASSUME NEW op, InstType(op) # "none"
  PROVE  opcodes[op] \in Nat
<1>1. op \in {"add", "addi", "mul", "sll", "srl", "and", "or",
              "lw", "sw", "j", "jr", "jal", "beq", "halt"}
  BY DEF InstType
<1> QED BY <1>1 DEF opcodes

\* A register that is known.
LEMMA RegIs ==
  ASSUME NEW r \in DOMAIN Registers
  PROVE  IsBits(Reg(r)) /\ Reg(r).value = RegNumber(r) /\ Reg(r).width = RegBits
BY Sizes, FormatAssumption DEF Reg, IsBits, Bits, RegNumber

LEMMA ZerosIs ==
  ASSUME NEW width \in Nat
  PROVE  IsBits(Zeros(width)) /\ Zeros(width).value = 0 /\ Zeros(width).width = width
BY DEF Zeros, IsBits, Bits

\* A number that fits has the least width.
LEMMA WidthIs ==
  ASSUME NEW least \in Nat, NEW i \in Int, i < 2^least
  PROVE  Width(i, least) = least
<1> DEFINE Enough(w) == i < 2^w /\ \A v \in least .. w - 1 : i >= 2^v
<1>1. IntBits \in Nat
  BY Sizes
<1>2. least \in least .. least + IntBits /\ Enough(least)
  BY <1>1
<1>3. ASSUME NEW w \in least .. least + IntBits, Enough(w)
      PROVE  w = least
  <2>1. 2^least \in Nat
    BY Power
  <2>2. CASE w > least
    <3>1. least \in least .. w - 1
      BY <1>1, <2>2
    <3>2. i >= 2^least
      BY <1>3, <3>1
    <3> HIDE DEF Enough
    <3> QED BY <2>1, <3>2
  <2> QED BY <1>1, <2>2
<1>4. Width(i, least) = CHOOSE w \in least .. least + IntBits : Enough(w)
  BY DEF Width
<1> HIDE DEF Enough
<1> QED BY <1>2, <1>3, <1>4, Zenon

\* An immediate that fits, or none.
LEMMA ImmediateIs ==
  ASSUME NEW i,
         i = None \/ (i \in Int /\ i < 2^(4 * ImmDigits))
  PROVE  /\ IsBits(IntToHex(i)) /\ IntToHex(i).width = 4 * ImmDigits
         /\ IntToHex(i).value = IF i = None THEN 0 ELSE i % 2^(4 * ImmDigits)
<1> DEFINE least == 4 * ImmDigits
           p     == 2^least
<1>1. least \in Nat /\ ImmDigits \in Nat /\ least = 4 * ImmDigits
  BY Sizes
<1>2. p \in Nat /\ p # 0
  BY <1>1, Power
<1>3. CASE i = None
  BY <1>1, <1>3 DEF IntToHex, Bits, IsBits
<1>4. CASE i \in Int /\ i # None /\ i < 0
  <2>1. IntToHex(i) = Bits(i % p, least)
    BY <1>4 DEF IntToHex
  <2> HIDE DEF p
  <2>2. i % p \in Nat
    BY <1>2, <1>4
  <2> HIDE DEF least
  <2> QED BY <1>1, <1>4, <2>1, <2>2 DEF Bits, IsBits, least, p
<1>5. CASE i \in Int /\ i # None /\ ~ (i < 0)
  <2>1. IntToHex(i) = Bits(i, 4 * ((Width(i, least) + 3) \div 4))
    BY <1>5 DEF IntToHex
  <2>2. Width(i, least) = least
    BY <1>1, <1>5, WidthIs
  <2>3. 4 * ((least + 3) \div 4) = least
    BY <1>1
  <2>4. IntToHex(i) = Bits(i, least)
    BY <2>1, <2>2, <2>3
  <2>5. i < p
    BY <1>5
  <2> HIDE DEF p, least
  <2>6. i % p = i /\ i \in Nat
    BY <1>2, <1>5, <2>5
  <2> QED BY <1>1, <1>5, <2>4, <2>6 DEF Bits, IsBits, least, p
<1> QED BY <1>3, <1>4, <1>5

\* The string of a line is the word it stands for.
LEMMA EncodedIs ==
  ASSUME NEW i, InstType(i.op) # "none",
         1 .. Places(i.op) \subseteq DOMAIN i.regs, i.imm \in Int \cup {None, Label},
         Legal(i), ~ Throws(i)
  PROVE  Encoded(i).value = Word(i)
<1> DEFINE type == InstType(i.op)
           op   == Bits(opcodes[i.op], OpBits)
           W    == 4 * ImmDigits
           T    == TargetBits
           R    == RegBits
<1>1. /\ T \in Nat /\ R \in Nat /\ W \in Nat \ {0} /\ W - R \in Nat
      /\ T = 2 * R + W /\ T # 0
  BY Sizes
<1>2. IsBits(op) /\ op.value = opcodes[i.op] /\ op.value \in Nat
  BY OpcodeIs, Sizes DEF IsBits, Bits
<1>3. type \in {"R", "I", "LD", "J", "JR", "O"}
  BY DEF InstType
<1>4. ASSUME NEW k \in 1 .. Places(i.op)
      PROVE  /\ IsBits(Reg(i.regs[k])) /\ Reg(i.regs[k]).value = RegNumber(i.regs[k])
             /\ Reg(i.regs[k]).width = R
  <2>1. i.regs[k] \in DOMAIN Registers
    BY <1>4 DEF Legal
  <2> QED BY <2>1, RegIs
<1>5. ASSUME NEW k \in Nat, NEW v
      PROVE  Shift(v, T - k * R) = v * 2^(TargetBits - k * RegBits)
  BY DEF Shift
<1> HIDE DEF op, T, R, W
<1>6. CASE type = "R"
  <2> DEFINE x == Reg(i.regs[1])
             y == Reg(i.regs[2])
             z == Reg(i.regs[3])
             e == Zeros(W - R)
  <2>1. /\ IsBits(x) /\ x.value = RegNumber(i.regs[1]) /\ x.width = R
        /\ IsBits(y) /\ y.value = RegNumber(i.regs[2]) /\ y.width = R
        /\ IsBits(z) /\ z.value = RegNumber(i.regs[3]) /\ z.width = R
    <3>1. Places(i.op) = 3
      BY <1>6 DEF Places
    <3> QED BY <1>4, <3>1
  <2>2. IsBits(e) /\ e.value = 0 /\ e.width = W - R
    BY <1>1, ZerosIs
  <2>3. Encoded(i) = Joined(<<op, y, z, x, e>>)
    BY <1>6 DEF Encoded, op, W, R
  <2> HIDE DEF x, y, z, e
  <2>4. Encoded(i).value =
          Shift(op.value, y.width + z.width + x.width + e.width)
            + Shift(y.value, z.width + x.width + e.width)
            + Shift(z.value, x.width + e.width) + Shift(x.value, e.width) + e.value
    <3>1. FiveIs(op, y, z, x, e)
      BY <1>2, <2>1, <2>2, JoinMany
    <3> QED BY <2>3, <3>1 DEF FiveIs
  <2>5. /\ y.width + z.width + x.width + e.width = T - 0 * R
        /\ z.width + x.width + e.width = T - 1 * R
        /\ x.width + e.width = T - 2 * R /\ e.width = T - 3 * R
    BY <1>1, <2>1, <2>2
  <2>6. Word(i) = Shift(op.value, T - 0 * R)
                  + (Shift(RegNumber(i.regs[2]), T - 1 * R) + Shift(RegNumber(i.regs[3]), T - 2 * R)
                     + Shift(RegNumber(i.regs[1]), T - 3 * R))
    BY <1>2, <1>5, <1>6 DEF Word
  <2>7. /\ Shift(op.value, T - 0 * R) \in Nat /\ Shift(y.value, T - 1 * R) \in Nat
        /\ Shift(z.value, T - 2 * R) \in Nat /\ Shift(x.value, T - 3 * R) \in Nat
    <3>1. T - 0 * R \in Nat /\ T - 1 * R \in Nat /\ T - 2 * R \in Nat /\ T - 3 * R \in Nat
      BY <1>1
    <3> QED BY <1>2, <2>1, <3>1, ShiftType DEF IsBits
  <2> QED BY <2>1, <2>2, <2>4, <2>5, <2>6, <2>7
<1>7. CASE type \in {"I", "LD"}
  <2> DEFINE x == Reg(i.regs[1])
             y == Reg(i.regs[2])
             e == IntToHex(i.imm)
  <2>1. /\ IsBits(x) /\ x.value = RegNumber(i.regs[1]) /\ x.width = R
        /\ IsBits(y) /\ y.value = RegNumber(i.regs[2]) /\ y.width = R
    <3>1. Places(i.op) = 2
      BY <1>7 DEF Places
    <3> QED BY <1>4, <3>1
  <2>2. i.imm = None \/ (i.imm \in Int /\ i.imm < 2^(4 * ImmDigits))
    <3>1. i.imm # Label
      BY <1>7 DEF Throws
    <3>2. ASSUME i.imm \in Int
          PROVE  i.imm < 2^(4 * ImmDigits)
      <4>1. i.imm \in -(2^(W - 1)) .. 2^W - 1
        BY <1>7, <3>2, SourcesAssumption DEF Legal, W
      <4>2. W \in Nat /\ W - 1 \in Nat
        BY <1>1
      <4>3. 2^W \in Nat /\ 2^(W - 1) \in Nat
        BY <4>2, Power
      <4> DEFINE p == 2^W
                 q == 2^(W - 1)
      <4> HIDE DEF p, q
      <4>4. i.imm \in -q .. p - 1 /\ p \in Nat /\ q \in Nat
        BY <4>1, <4>3 DEF p, q
      <4>5. i.imm < p
        BY <3>2, <4>4
      <4> QED BY <4>5 DEF p, W
    <3>3. i.imm \in Int \cup {None, Label}
      OBVIOUS
    <3>4. i.imm = None \/ i.imm \in Int
      BY <3>1, <3>3, Zenon
    <3> QED BY <3>2, <3>4, Zenon
  <2>3. IsBits(e) /\ e.width = W /\ e.value = IF i.imm = None THEN 0 ELSE i.imm % 2^(4 * ImmDigits)
    BY <2>2, ImmediateIs DEF W
  <2>4. Encoded(i) = Joined(<<op, y, x, e>>)
    BY <1>7 DEF Encoded, op
  <2>5. Word(i) = Shift(op.value, T - 0 * R)
                  + (Shift(RegNumber(i.regs[2]), T - 1 * R) + Shift(RegNumber(i.regs[1]), T - 2 * R)
                     + e.value)
    BY <1>2, <1>5, <1>7, <2>3 DEF Word
  <2> HIDE DEF x, y, e
  <2>6. Encoded(i).value =
          Shift(op.value, y.width + x.width + e.width) + Shift(y.value, x.width + e.width)
            + Shift(x.value, e.width) + e.value
    <3>1. FourIs(op, y, x, e) /\ FiveIs(op, y, x, e, e)
      BY <1>2, <2>1, <2>3, JoinMany
    <3> QED BY <2>4, <3>1 DEF FourIs
  <2>7. /\ y.width + x.width + e.width = T - 0 * R
        /\ x.width + e.width = T - 1 * R /\ e.width = T - 2 * R
    BY <1>1, <2>1, <2>3
  <2>8. /\ Shift(op.value, T - 0 * R) \in Nat /\ Shift(y.value, T - 1 * R) \in Nat
        /\ Shift(x.value, T - 2 * R) \in Nat /\ e.value \in Nat
    <3>1. T - 0 * R \in Nat /\ T - 1 * R \in Nat /\ T - 2 * R \in Nat
      BY <1>1
    <3> QED BY <1>2, <2>1, <2>3, <3>1, ShiftType DEF IsBits
  <2> QED BY <2>1, <2>5, <2>6, <2>7, <2>8
<1>8. CASE type = "JR"
  <2> DEFINE x == Reg(i.regs[1])
             y == Zeros(R)
             e == Zeros(W)
  <2>1. IsBits(x) /\ x.value = RegNumber(i.regs[1]) /\ x.width = R
    <3>1. Places(i.op) = 1
      BY <1>8 DEF Places
    <3> QED BY <1>4, <3>1
  <2>2. IsBits(y) /\ y.value = 0 /\ y.width = R /\ IsBits(e) /\ e.value = 0 /\ e.width = W
    BY <1>1, ZerosIs
  <2>3. Encoded(i) = Joined(<<op, x, y, e>>)
    BY <1>8 DEF Encoded, op, R, W
  <2>4. Word(i) = Shift(op.value, T - 0 * R) + Shift(RegNumber(i.regs[1]), T - 1 * R)
    BY <1>2, <1>5, <1>8 DEF Word
  <2> HIDE DEF x, y, e
  <2>5. Encoded(i).value =
          Shift(op.value, x.width + y.width + e.width) + Shift(x.value, y.width + e.width)
            + Shift(y.value, e.width) + e.value
    <3>1. FourIs(op, x, y, e) /\ FiveIs(op, x, y, e, e)
      BY <1>2, <2>1, <2>2, JoinMany
    <3> QED BY <2>3, <3>1 DEF FourIs
  <2>6. /\ x.width + y.width + e.width = T - 0 * R /\ y.width + e.width = T - 1 * R
        /\ e.width = W
    BY <1>1, <2>1, <2>2
  <2>7. /\ Shift(op.value, T - 0 * R) \in Nat /\ Shift(x.value, T - 1 * R) \in Nat
        /\ Shift(0, W) = 0
    <3>1. T - 0 * R \in Nat /\ T - 1 * R \in Nat /\ W \in Nat
      BY <1>1
    <3> QED BY <1>2, <2>1, <3>1, ShiftType DEF IsBits
  <2> QED BY <2>1, <2>2, <2>4, <2>5, <2>6, <2>7
<1>9. CASE type = "J"
  <2> DEFINE e == Target(i.imm)
  <2>1. i.imm \in Nat /\ i.imm # None /\ i.imm # Label
    BY <1>9, SourcesAssumption DEF Throws
  <2>2. i.imm < 2^TargetBits
    <3>1. i.imm \in -(2^(TargetBits - 1)) .. 2^TargetBits - 1
      BY <1>9, <2>1 DEF Legal
    <3>2. TargetBits \in Nat /\ TargetBits - 1 \in Nat
      BY <1>1 DEF T
    <3>3. 2^TargetBits \in Nat /\ 2^(TargetBits - 1) \in Nat
      BY <3>2, Power
    <3> DEFINE p == 2^TargetBits
               q == 2^(TargetBits - 1)
    <3> HIDE DEF p, q
    <3>4. i.imm \in -q .. p - 1 /\ p \in Nat /\ q \in Nat
      BY <3>1, <3>3 DEF p, q
    <3>5. i.imm < p
      BY <2>1, <3>4
    <3> QED BY <3>5 DEF p
  <2>3. Width(i.imm, TargetBits) = TargetBits
    BY <1>1, <2>1, <2>2, WidthIs DEF T
  <2>4. IsBits(e) /\ e.value = i.imm /\ e.width = T
    BY <1>1, <2>1, <2>3 DEF Target, Bits, IsBits, T
  <2>5. Encoded(i) = Joined(<<op, e>>)
    BY <1>9 DEF Encoded, op
  <2>6. Word(i) = Shift(op.value, T - 0 * R) + i.imm
    BY <1>2, <1>5, <1>9 DEF Word
  <2> HIDE DEF e
  <2>7. Encoded(i).value = Shift(op.value, T) + e.value /\ T - 0 * R = T
    BY <1>1, <1>2, <2>4, <2>5, JoinTwo
  <2> QED BY <2>4, <2>6, <2>7
<1>10. CASE type = "O"
  <2> DEFINE e == Zeros(T)
  <2>1. IsBits(e) /\ e.value = 0 /\ e.width = T
    BY <1>1, ZerosIs
  <2>2. Encoded(i) = Joined(<<op, e>>)
    BY <1>10 DEF Encoded, op, T
  <2>3. Word(i) = Shift(op.value, T - 0 * R) + 0
    BY <1>2, <1>5, <1>10 DEF Word
  <2> HIDE DEF e
  <2>4. Encoded(i).value = Shift(op.value, T) + e.value /\ T - 0 * R = T
    BY <1>1, <1>2, <2>1, <2>2, JoinTwo
  <2> QED BY <2>1, <2>3, <2>4
<1> QED BY <1>3, <1>6, <1>7, <1>8, <1>9, <1>10

-----------------------------------------------------------------------------
(* The lines of the output.                                                *)

CoreTypeOK ==
  /\ source \in Sources
  /\ place \in Nat \ {0}
  /\ IsSeq(out)

LEMMA AppendKeeps ==
  ASSUME NEW s, IsSeq(s), NEW e
  PROVE  /\ IsSeq(Append(s, e))
         /\ \A k \in DOMAIN Append(s, e) :
              Append(s, e)[k] = e \/ (k \in DOMAIN s /\ Append(s, e)[k] = s[k])
<1> DEFINE t == Append(s, e)
           S == {s[k] : k \in DOMAIN s} \cup {e}
<1>1. s \in Seq(S) /\ DOMAIN s = 1 .. Len(s) /\ Len(s) \in Nat
  BY LenProperties DEF IsSeq
<1>2. /\ t \in Seq(S) /\ Len(t) = Len(s) + 1
      /\ \A k \in 1 .. Len(s) : t[k] = s[k]
      /\ t[Len(s) + 1] = e
  BY <1>1, AppendProperties
<1>3. DOMAIN t = 1 .. Len(s) + 1 /\ t \in [DOMAIN t -> S]
  BY <1>1, <1>2, LenProperties
<1> HIDE DEF t, S
<1>4. IsSeq(t)
  <2>1. t = [k \in 1 .. Len(t) |-> t[k]] /\ Len(t) \in Nat
    BY <1>1, <1>2, <1>3
  <2>2. t \in [1 .. Len(t) -> {t[k] : k \in DOMAIN t}]
    BY <1>2, <1>3, <2>1
  <2> QED BY <2>1, <2>2 DEF IsSeq
<1>5. ASSUME NEW k \in DOMAIN t
      PROVE  t[k] = e \/ (k \in DOMAIN s /\ t[k] = s[k])
  <2>1. CASE k = Len(s) + 1
    <3>1. t[k] = e
      BY <1>2, <2>1, Zenon
    <3> QED BY <3>1, Zenon
  <2>2. CASE k \in 1 .. Len(s)
    <3>1. t[k] = s[k] /\ k \in DOMAIN s
      BY <1>1, <1>2, <2>2, Zenon
    <3> QED BY <3>1, Zenon
  <2>3. k = Len(s) + 1 \/ k \in 1 .. Len(s)
    BY <1>1, <1>3
  <2> QED BY <2>1, <2>2, <2>3
<1> QED BY <1>4, <1>5 DEF t

\* The header is put at the end of what earlier runs have left.
LEMMA HeaderFacts ==
  ASSUME NEW s, IsSeq(s)
  PROVE  /\ IsSeq(s \o Header)
         /\ \A k \in DOMAIN (s \o Header) :
              (s \o Header)[k].line = 0 \/ (k \in DOMAIN s /\ (s \o Header)[k] = s[k])
<1> DEFINE h1 == [line |-> 0, value |-> "v2.0 raw"]
           h2 == [line |-> 0, value |-> "stack"]
<1>1. s \o Header = Append(Append(s, h1), h2)
  <2> DEFINE S == {s[k] : k \in DOMAIN s} \cup {h1, h2}
  <2> HIDE DEF h1, h2
  <2>1. Header = <<h1, h2>>
    BY DEF Header, h1, h2
  <2>2. s \in Seq(S) /\ h1 \in S /\ h2 \in S
    BY DEF IsSeq
  <2> HIDE DEF S
  <2>3. s \o <<h1, h2>> = Append(Append(s, h1), h2)
    BY <2>2
  <2> QED BY <2>1, <2>3
<1>2. h1.line = 0 /\ h2.line = 0
  OBVIOUS
<1> HIDE DEF h1, h2
<1> DEFINE t == Append(s, h1)
           u == Append(t, h2)
<1>3. /\ IsSeq(t)
      /\ \A k \in DOMAIN t : t[k] = h1 \/ (k \in DOMAIN s /\ t[k] = s[k])
  BY AppendKeeps, Zenon
<1> HIDE DEF t
<1>4. /\ IsSeq(u)
      /\ \A k \in DOMAIN u : u[k] = h2 \/ (k \in DOMAIN t /\ u[k] = t[k])
  BY <1>3, AppendKeeps, Zenon
<1>5. s \o Header = u
  BY <1>1 DEF t
<1> HIDE DEF u
<1>6. ASSUME NEW k \in DOMAIN u
      PROVE  u[k].line = 0 \/ (k \in DOMAIN s /\ u[k] = s[k])
  <2>1. CASE u[k] = h2
    BY <1>2, <2>1
  <2>2. CASE k \in DOMAIN t /\ u[k] = t[k]
    <3>1. t[k] = h1 \/ (k \in DOMAIN s /\ t[k] = s[k])
      BY <1>3, <2>2, Zenon
    <3> QED BY <1>2, <2>2, <3>1
  <2> QED BY <1>4, <2>1, <2>2, Zenon
<1> QED BY <1>4, <1>5, <1>6

\* However often the assembler is run on a file, and whatever an earlier run
\* has left in the output: a line whose operands are legal gives the word it
\* stands for (core.clj:105-129 and 150-287).
THEOREM WordsAreReadBack == CoreSpec => []WordsReadBack
<1>1. CoreInit => CoreTypeOK /\ WordsReadBack
  <2> SUFFICES ASSUME CoreInit PROVE CoreTypeOK /\ WordsReadBack
    OBVIOUS
  <2>1. out = <<>> /\ DOMAIN out = {}
    BY DEF CoreInit
  <2> QED BY <2>1 DEF CoreInit, CoreTypeOK, IsSeq, WordsReadBack
<1>2. CoreTypeOK /\ WordsReadBack /\ [CoreNext]_core => CoreTypeOK' /\ WordsReadBack'
  <2> SUFFICES ASSUME CoreTypeOK, WordsReadBack, [CoreNext]_core
               PROVE  CoreTypeOK' /\ WordsReadBack'
    OBVIOUS
  <2>1. ASSUME UNCHANGED <<source, out>>, place' \in Nat \ {0}
        PROVE  CoreTypeOK' /\ WordsReadBack'
    BY <2>1 DEF CoreTypeOK, WordsReadBack, IsSeq
  <2>2. CASE InitProgram
    <3>1. source' = source /\ out' = out \o Header /\ place' = 1
      BY <2>2 DEF InitProgram
    <3>2. /\ IsSeq(out')
          /\ \A k \in DOMAIN out' : out'[k].line = 0 \/ (k \in DOMAIN out /\ out'[k] = out[k])
      BY <3>1, HeaderFacts DEF CoreTypeOK
    <3>3. CoreTypeOK'
      BY <3>1, <3>2 DEF CoreTypeOK
    <3>4. WordsReadBack'
      BY <3>1, <3>2 DEF WordsReadBack
    <3> QED BY <3>3, <3>4
  <2>3. CASE Process
    <3>1. place \in DOMAIN source /\ place' \in Nat \ {0} /\ source' = source
      <4>1. source \in Seq({source[k] : k \in DOMAIN source})
        BY SourcesAssumption DEF CoreTypeOK
      <4> QED BY <2>3, <4>1, LenProperties DEF Process, CoreTypeOK
    <3>2. CASE out' = out
      BY <2>1, <3>1, <3>2
    <3>3. CASE /\ InstType(source[place].op) # "none" /\ ~ Throws(source[place])
               /\ out' = Append(out, [line |-> place, value |-> Encoded(source[place]).value])
      <4> DEFINE e == [line |-> place, value |-> Encoded(source[place]).value]
      <4>1. e.line = place /\ e.value = Encoded(source[place]).value
        OBVIOUS
      <4>2. Legal(source[place]) => Encoded(source[place]).value = Word(source[place])
        <5>1. /\ 1 .. Places(source[place].op) \subseteq DOMAIN source[place].regs
              /\ source[place].imm \in Int \cup {None, Label}
          BY <3>1, SourcesAssumption DEF CoreTypeOK
        <5> QED BY <3>3, <5>1, EncodedIs
      <4> HIDE DEF e
      <4>3. /\ IsSeq(out')
            /\ \A k \in DOMAIN out' : out'[k] = e \/ (k \in DOMAIN out /\ out'[k] = out[k])
        BY <3>3, AppendKeeps DEF CoreTypeOK, e
      <4>4. CoreTypeOK'
        BY <3>1, <4>3 DEF CoreTypeOK
      <4>5. WordsReadBack'
        BY <3>1, <4>1, <4>2, <4>3 DEF WordsReadBack
      <4> QED BY <4>4, <4>5
    <3> QED BY <2>3, <3>2, <3>3 DEF Process
  <2>4. CASE Finish
    BY <2>1, <2>4 DEF Finish, CoreTypeOK
  <2>5. CASE UNCHANGED core
    BY <2>1, <2>5 DEF core, CoreTypeOK
  <2> QED BY <2>2, <2>3, <2>4, <2>5 DEF CoreNext
<1> QED BY <1>1, <1>2, PTL DEF CoreSpec
=============================================================================
