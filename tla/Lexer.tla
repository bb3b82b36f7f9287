------------------------------- MODULE Lexer --------------------------------
(***************************************************************************)
(* How assemble32.c reads text: getLine() takes a file apart into lines,   *)
(* lexer() a line into tokens, and is_numeric() and hextoi() read a        *)
(* numeric token.  Text is a sequence of characters, in lower case.        *)
(***************************************************************************)
EXTENDS Integers, Sequences, SequencesExt, FiniteSetsExt

CONSTANTS
  MaxLineLen, \* MAXLINELEN: the size of the buffer of a line
  MaxTokens,  \* MAXTOKENS: the size of the array of tokens
  IntLimit,   \* 2^31: what is beyond the largest int
  LongLimit   \* 2^63: what is beyond the largest long

ASSUME SizesAssumption == MaxLineLen \in Nat \ {0, 1} /\ MaxTokens \in Nat \ {0}

\* A long is as wide as an int, or wider.
ASSUME WidthsAssumption ==
  IntLimit \in Nat \ {0} /\ LongLimit \in Nat /\ IntLimit <= LongLimit

LineFeed == "\n"
White == {" ", "\t"}
RawDelimiters == {":", ",", "(", ")"}
CommentChars == {"!", "#", ";"}

-----------------------------------------------------------------------------
(* Lines.                                                                  *)

\* Where getLine() stops when it starts at place p of the text: at a line
\* feed, at the end, or when its buffer is full.
LineStop(text, p) ==
  Min({k \in p .. Len(text) : text[k] = LineFeed}
        \cup {Len(text) + 1, p + MaxLineLen - 1})

\* Mistake: the character behind a full buffer is dropped.
NextLineAlways(text, p) == Min({LineStop(text, p), Len(text)}) + 1
\* A line feed is taken with its line; behind a full buffer it is left.
NextLine(text, p) ==
  LET stop == LineStop(text, p)
  IN IF stop <= Len(text) /\ stop < p + MaxLineLen - 1 THEN stop + 1 ELSE stop

\* The lines that calls of getLine() return until one returns NULL.
Lines(text) ==
  LET from[p \in 1 .. Len(text) + 1] ==
        IF p > Len(text) THEN <<>>
        ELSE <<SubSeq(text, p, LineStop(text, p) - 1)>> \o from[NextLine(text, p)]
  IN from[1]

-----------------------------------------------------------------------------
(* Tokens.                                                                 *)

EndsToken(c) == c \in White \cup RawDelimiters

\* The place behind the token that starts at p.
TokenStop(line, p) ==
  IF line[p] \in RawDelimiters THEN p + 1
  ELSE Min({k \in p + 1 .. Len(line) : EndsToken(line[k])} \cup {Len(line) + 1})

Uncommented(line) ==
  SubSeq(line, 1,
         Min({k \in DOMAIN line : line[k] \in CommentChars} \cup {Len(line) + 1}) - 1)

\* The NUL behind a token is written when the next one is looked for, which
\* nobody does behind the last one that the array has room for: unless it is
\* a delimiter, a string of its own, it is all the rest of the line.
TokenEnd(line, p, room) ==
  IF room = 1 /\ line[p] \notin RawDelimiters THEN Len(line) + 1
  ELSE TokenStop(line, p)

\* The tokens of a line, as the strings that the entries of the array are.
Tokens(line) ==
  LET code == Uncommented(line)
      from[p \in 1 .. Len(code) + 1, room \in 0 .. MaxTokens - 1] ==
        CASE p > Len(code) \/ room = 0 -> <<>>
          [] p <= Len(code) /\ room > 0 /\ code[p] \in White -> from[p + 1, room]
          [] OTHER -> <<SubSeq(code, p, TokenEnd(code, p, room) - 1)>>
                        \o from[TokenEnd(code, p, room), room - 1]
  IN from[1, MaxTokens - 1]

-----------------------------------------------------------------------------
(* Numbers.                                                                *)

Digits == <<"0", "1", "2", "3", "4", "5", "6", "7", "8", "9",
            "a", "b", "c", "d", "e", "f">>
DigitsOf(base) == {Digits[k] : k \in 1 .. base}
DigitValue(c) == (CHOOSE k \in DOMAIN Digits : Digits[k] = c) - 1

At(token, p) == IF p \in DOMAIN token THEN token[p] ELSE ""
AllIn(token, p, set) == \A k \in p .. Len(token) : token[k] \in set

\* Whether a token looks like a number, perhaps with a sign.
IsNumeric(token) ==
  LET first == IF token[1] = "-" THEN 2 ELSE 1 IN
  CASE At(token, first) # "0" -> AllIn(token, first, DigitsOf(10))
    [] At(token, first) = "0" /\ At(token, first + 1) = "x" ->
         /\ At(token, first + 2) # ""
         /\ AllIn(token, first + 2, DigitsOf(16))
    [] OTHER -> AllIn(token, first + 1, DigitsOf(8))

Sum(digits, base) == FoldLeft(LAMBDA v, c : v * base + DigitValue(c), 0, digits)

\* The value of the digits of a base from place p on, up to what is none.
Value(token, p, base) ==
  LET stop == Min({k \in p .. Len(token) : token[k] \notin DigitsOf(base)}
                    \cup {Len(token) + 1})
  IN Sum(SubSeq(token, p, stop - 1), base)

Fits(v, limit) == v \in -limit .. limit - 1

\* What a type of that limit keeps of a number: its low bits, signed.
Wrapped(v, limit) ==
  LET low == v % (2 * limit) IN IF low >= limit THEN low - 2 * limit ELSE low

Clamped(v, limit) ==
  CASE Fits(v, limit) -> v
    [] ~Fits(v, limit) /\ v >= limit -> limit - 1
    [] OTHER -> -limit

\* The number without a prefix, as atoi() of the library reads it: it cuts to
\* an int what strtol() gives, which is a long and the nearest one to a number
\* that is none.
Atoi(token) ==
  Wrapped(Clamped(IF token[1] = "-" THEN -Value(token, 2, 10)
                  ELSE Value(token, 1, 10), LongLimit), IntLimit)

\* Mistake: the digits of a hexadecimal number are read as decimal ones.
HextoiDecimal(token) == Atoi(token)
\* The sum of a hexadecimal number is kept in a long.
Hextoi(token) ==
  IF token[1] = "0" /\ At(token, 2) = "x" THEN Wrapped(Value(token, 3, 16), LongLimit)
  ELSE Atoi(token)

\* token_to_number() of a numeric token: the long is cut to an int.
NumericValue(token) == Wrapped(Hextoi(token), IntLimit)
=============================================================================
