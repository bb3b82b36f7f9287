---------------------------- MODULE MCAssemblers ----------------------------
(***************************************************************************)
(* The assemblers for TLC.  A behaviour is one of the lexer, of both       *)
(* passes of assemble32.c, or of core.clj; the others do not start in it.  *)
(***************************************************************************)
EXTENDS AssemblerProperties, LexerProperties, Prj1Assembler, TLC

VARIABLE tool \* the tool of this behaviour

AllInit ==
  /\ tool \in {"lexer", "assemble32", "core"}
  /\ NoText
  /\ Init /\ (tool # "assemble32" => file = <<>>)
  /\ CoreInit /\ (tool # "core" => source = <<>>)

AllNext ==
  \/ tool = "lexer" /\ Type /\ UNCHANGED <<tool, vars, core>>
  \/ tool = "assemble32" /\ Next /\ UNCHANGED <<tool, text, core>>
  \/ tool = "core" /\ CoreNext /\ UNCHANGED <<tool, text, vars>>

AllSpec == AllInit /\ [][AllNext]_<<tool, text, vars, core>>

-----------------------------------------------------------------------------
(* Delimiters, white space and comments; the characters of numbers.        *)
MCAlphabets == {{" ", ",", "\n", "!", "a"}, {"-", "0", "1", "8", "x", "f"}}

MCNumbers == ("1" :> 1) @@ ("2" :> 2) @@ ("-2" :> -2)
MCLines ==
  {<<>>, <<"A", ":">>, <<"B", ":", "halt">>,
   <<"beq", "$at", ",", "$zero", ",", "A">>,
   <<"A", ":", "beq", "$v0", ",", "$a0", ",", "B">>,
   <<"lw", "$at", ",", "1", "(", "$v0", ")">>,
   <<"add", "$at", ",", "$v0", ",", "$a0">>,
   <<"la", "$sp", ",", "B">>, <<"la", "-2">>, <<".fill", "A">>,
   <<"jalr", "$at", ",", "$ra">>, <<"jalr", "$at", "$ra", "$ra">>,
   <<"addi", "$at", ",", "$at", ",", "2">>, <<"addi", "$at", ",", "$at">>,
   <<"sub">>, <<"halt", "C">>, <<",", "halt">>, <<"B", ":", ",", "ei">>}
MCFiles == UNION {[1 .. k -> MCLines] : k \in 0 .. 3}

MCRegisters == ("$zero" :> 0) @@ ("$at" :> 1) @@ ("$v0" :> 2) @@ ("$v1" :> 3)
Names == {"$zero", "$v0", "$v1", "$x"}
Instructions(op, regs, imms) == {[op |-> op, regs |-> r, imm |-> i] : r \in regs, i \in imms}
MCInstructions ==
  Instructions("add", Names \X {"$zero", "$v1"} \X {"$at", "$v0"}, {None})
    \cup Instructions("addi", Names \X {"$zero", "$v1"}, {None, Label, -9, -8, -1, 15, 16})
    \cup Instructions("lw", {"$v1"} \X {"$at", "$x"}, {None, 0, 7, 256})
    \cup Instructions("j", {<<>>}, {None, Label, -1, 0, 255, 256, 1023})
    \cup Instructions("jr", {<<"$v1">>, <<"$x">>}, {None})
    \cup Instructions("halt", {<<>>}, {None})
    \cup Instructions("loop: add", {<<>>}, {None})
MCSources == UNION {[1 .. k -> MCInstructions] : k \in 0 .. 2}
=============================================================================
