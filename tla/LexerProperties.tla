-------------------------- MODULE LexerProperties ---------------------------
(***************************************************************************)
(* What the functions of Lexer return, for every text that can be typed    *)
(* with a few characters.                                                  *)
(***************************************************************************)
EXTENDS Lexer

CONSTANTS
  Alphabets, \* sets of characters: a text has those of one of them
  MaxLength  \* bound: the length of a text

VARIABLE text

\* A text is typed, character by character.
NoText == text = <<>>
Type ==
  /\ Len(text) < MaxLength
  /\ \E characters \in Alphabets : \E c \in characters :
       /\ \A k \in DOMAIN text : text[k] \in characters
       /\ text' = Append(text, c)

TypingSpec == NoText /\ [][Type]_text

-----------------------------------------------------------------------------
Feeds(t) == {k \in DOMAIN t : t[k] = LineFeed}

\* The lines of a text: what ends at a line feed, and what is behind the last
\* one, if anything is.
Ends(t) == SetToSortSeq(Feeds(t) \cup (IF t = <<>> \/ Last(t) = LineFeed
                                       THEN {} ELSE {Len(t) + 1}),
                        LAMBDA a, b : a < b)
LinesOf(t) ==
  [k \in DOMAIN Ends(t) |->
     SubSeq(t, IF k = 1 THEN 1 ELSE Ends(t)[k - 1] + 1, Ends(t)[k] - 1)]

\* getLine() loses no character of a file, however long its lines are, and
\* returns them one by one as long as each of them fits into its buffer with
\* a NUL and one more character (assemble32.c:182-191).
LinesMatch ==
  /\ FlattenSeq(Lines(text)) = SelectSeq(text, LAMBDA c : c # LineFeed)
  /\ (\A k \in DOMAIN LinesOf(text) : Len(LinesOf(text)[k]) < MaxLineLen - 1)
       => Lines(text) = LinesOf(text)

\* A token starts where a delimiter is and where a run of other characters
\* does, and ends with the run.
Starts(t) ==
  {p \in DOMAIN t :
     \/ t[p] \in RawDelimiters
     \/ t[p] \notin White /\ (p = 1 \/ t[p - 1] \in White \cup RawDelimiters)}
Run(t, p) ==
  CHOOSE q \in p .. Len(t) :
    /\ t[p] \in RawDelimiters => q = p
    /\ t[p] \notin RawDelimiters =>
         /\ \A k \in p .. q : t[k] \notin White \cup RawDelimiters
         /\ q = Len(t) \/ t[q + 1] \in White \cup RawDelimiters

\* lexer() returns the delimiters and the runs of other characters in front
\* of a comment, in their order; if they fill its array, a run in the last
\* entry is not ended and is all the rest of the line (assemble32.c:252-291).
TokensMatch ==
  LET t == Uncommented(text)
      starts == SetToSortSeq(Starts(t), LAMBDA a, b : a < b)
      kept == SubSeq(starts, 1, Min({Len(starts), MaxTokens - 1}))
      unended(k) == k = MaxTokens - 1 /\ t[kept[k]] \notin RawDelimiters
  IN Tokens(text) =
       [k \in DOMAIN kept |->
          SubSeq(t, kept[k], IF unended(k) THEN Len(t) ELSE Run(t, kept[k]))]

\* Text is taken apart into the lines and tokens it consists of.
TextTakenApart == LinesMatch /\ TokensMatch

Negative(t) == t # <<>> /\ t[1] = "-"
Unsigned(t) == IF Negative(t) THEN Tail(t) ELSE t
IsHex(t) == Len(Unsigned(t)) > 2 /\ Unsigned(t)[2] = "x"

\* The number that a token of a base means.
Meant(t, from, base) ==
  LET sum == Sum(SubSeq(Unsigned(t), from, Len(Unsigned(t))), base)
  IN IF Negative(t) THEN -sum ELSE sum

Number(t) == t # <<>> /\ IsNumeric(t)

\* What a numeric token is read for.  A decimal one and a hexadecimal one without
\* a sign are read for what they mean.  The two notations that atoi() does not
\* know are not, although is_numeric() looks for octal digits and takes a sign
\* in front of any number: an octal number is read as a decimal one, and of a
\* negative hexadecimal one only the 0 in front of the x.
ReadFor(t) ==
  CASE IsHex(t) /\ ~Negative(t) -> Meant(t, 3, 16)
    [] IsHex(t) /\ Negative(t)  -> -Sum(<<"0">>, 10)
    [] OTHER                    -> Meant(t, 1, 10)

\* Every token that is taken for a number is read, and all of it but for the
\* negative hexadecimal ones: for a number that is an int as that number, and
\* for one that is a long with its low bits, so that .word takes every word,
\* signed or not (assemble32.c:145-166, 453-519 and 636).
NumbersRead ==
  Number(text) =>
    LET number == ReadFor(text) IN
    /\ Fits(number, IntLimit) => NumericValue(text) = number
    /\ Fits(number, LongLimit) =>
         NumericValue(text) % (2 * IntLimit) = number % (2 * IntLimit)
=============================================================================
