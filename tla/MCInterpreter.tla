--------------------------- MODULE MCInterpreter ---------------------------
(***************************************************************************)
(* Programs for the pinned build.  ByteImages and LoopImages leave run()   *)
(* through an illegal byte, Halt through a jump to itself at once, and     *)
(* SelfJump through one after a change of the accumulator and the flags.   *)
(***************************************************************************)
EXTENDS Interpreter, TLC

Start == 1536

At(org, bytes) == [a \in org .. org + Len(bytes) - 1 |-> bytes[a - org + 1]]

\* Every byte, fetched with A and the flags other than the host left them.
ByteImages == {At(0, <<2, 2, 2>>) @@ At(Start, <<169, 200, 56, b, 2, 2, 2, 2>>) : b \in 0 .. 255}

\* A run after a run: each adds to the accumulator the last one left.
\* LDX #n; loop: CLC; ADC #100; DEX; BNE loop; end
LoopImages == {At(0, <<2>>) @@ At(Start, <<162, n, 24, 105, 100, 202, 208, 250, 2>>) : n \in 1 .. 3}

Halt == At(Start, <<76, LowByte(Start), HighByte(Start)>>)

MCImages == ByteImages \cup LoopImages \cup {Halt}

\* LDX #n; loop: ADC #7; DEX; BNE loop; end: JMP end
SelfJump == {At(0, <<2>>) @@ At(Start, <<162, n, 105, 7, 202, 208, 251, 76, 7, 6>>) : n \in 1 .. 4}
=============================================================================
