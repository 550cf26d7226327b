------------------------------- MODULE MCMain -------------------------------
(***************************************************************************)
(* main() with a block near the end of memory, where what blockFill writes *)
(* behind it is small enough to keep in every state, and with images of a  *)
(* few bytes in the shape of the functional test: a cell of data, a check  *)
(* at KLAUS_START = 8 that goes on to the jump to itself at                *)
(* KLAUS_MAGIC = 32 when its result is right, and a trap when it is not.   *)
(***************************************************************************)
EXTENDS Main, TLC

MCImages == {zeroed}

ROM(cell, check) ==
  <<cell, 0, 0, 0, 0, 0, 0, 0>> \o check \o [i \in 1 .. 24 - Len(check) |-> 234] \o <<76, 32, 0>>

\* BEQ over a trap at address a, JMP *, to the jump to KLAUS_MAGIC; op is BEQ or BCS.
Trap(op, a) == <<op, 3, 76, a + 2, 0, 76, 32, 0>>

\* LDA #7; LDX #3; loop: CLC; ADC #5; DEX; BNE loop; CMP #expected
Sum(expected, end) ==
  ROM(0, <<169, 7, 162, 3, 24, 105, 5, 202, 208, 250, 201, expected>> \o end)

Good    == Sum(22, Trap(240, 20))
Wrong   == Sum(23, Trap(240, 20))
Illegal == Sum(22, <<2>>)
\* BNE *; JMP 32
Caught  == Sum(23, <<208, 254, 76, 32, 0>>)

\* DEC 0: right in the first run, which leaves another cell to the next.
Once == ROM(1, <<198, 0>> \o Trap(240, 10))
\* INC 0; LDA 0; CMP #2: wrong in the first run, right in the others.
Later == ROM(0, <<230, 0, 165, 0, 201, 2>> \o Trap(176, 14))
\* LDA #7; CLC; ADC #5; CMP #12; BEQ over the trap; JMP *; SED; JMP 32: the
\* first run leaves decimal mode on.
Decimal == ROM(0, <<169, 7, 24, 105, 5, 201, 12, 240, 3, 76, 17, 0, 248, 76, 32, 0>>)

\* The verdict, the address in it and the instructions of the last run.
Outcome == <<>>    :> <<"none", START + LENGTH, LENGTH>>
        @@ Good    :> <<"passed", 32, 17>>
        @@ Wrong   :> <<"terminated", 22, 16>>
        @@ Illegal :> <<"terminated", 20, 15>>
        @@ Once    :> <<"terminated", 12, 2>>
        @@ Later   :> <<"passed", 32, 5>>
        @@ Decimal :> <<"terminated", 17, 5>>

MCFiles == DOMAIN Outcome \cup {Caught}

-----------------------------------------------------------------------------
\* Whatever the single operation test left in memory and in the registers, the
\* verdict is what the image deserves in the last of its runs, in the state
\* the runs before it left: a check that went wrong in an earlier run only is
\* not reported, one that fails because of what an earlier run left is.
\* Without an image there is no verdict.
Verdicts == at = "end" => <<verdict, iProgramCounter, instrs>> = Outcome[rom]
=============================================================================
