\* Texts of up to six characters, files of up to three lines for
\* assemble32.c, and of up to two for core.clj, which is run twice.
SPECIFICATION AllSpec
CONSTANTS
  Alphabets <- MCAlphabets
  MaxLength = 6
  MaxLineLen = 4
  MaxTokens = 4
  IntLimit = 128
  LongLimit = 512
  Files <- MCFiles
  Numbers <- MCNumbers
  OffsetRange = 2
  NoWord = NoWord
  Sources <- MCSources
  Registers <- MCRegisters
  OpBits = 6
  RegBits = 2
  TargetBits = 8
  ImmDigits = 1
  IntBits = 13
  MaxRuns = 2
  None = None
  Label = Label
INVARIANTS
  PassesAgree
  SuccessIsComplete
  OffsetsReadBack
  TextTakenApart
  NumbersRead
  WordsReadBack
CHECK_DEADLOCK FALSE
