---------------------------- MODULE MCCallFrames ----------------------------
(***************************************************************************)
(* Programs that nest calls, interrupts and saved registers.               *)
(***************************************************************************)
EXTENDS CallFrames, SequencesExt

Start   == 1536
Routine == 1552
Handler == 1584

At(org, bytes) == [a \in org .. org + Len(bytes) - 1 |-> bytes[a - org + 1]]

\* The interrupt vector, and an illegal byte where an unset program counter is.
Vector == At(VEC_IRQ, <<LowByte(Handler), HighByte(Handler)>>) @@ At(0, <<2>>)

\* LDX #n; JSR Routine; end
\* Routine: DEX; BEQ +3; JSR Routine; RTS
Recursion(n) ==
  At(Start, <<162, n, 32, 16, 6, 2>>)
    @@ At(Routine, <<202, 240, 3, 32, 16, 6, 96>>)
    @@ Vector

\* LDA #s; PHA; PLP; LDA #a; LDX #x; TXS; JSR Routine; NOP; end
\* Routine: PHP; PHA; BRK; NOP; PLA; PLP; SEC; RTS
\* Handler: PHP; PHA; LDA #1; SED; CLV; JSR Leaf; PLA; PLP; RTI
\* Leaf: PHA; LDX #3; loop: DEX; BNE loop; PLA; RTS
\* x moves the stack, so that every frame meets the end of the page in turn.
Interrupts(s, a, x) ==
  At(Start, <<169, s, 72, 40, 169, a, 162, x, 154, 32, 16, 6, 234, 2>>)
    @@ At(Routine, <<8, 72, 0, 234, 104, 40, 56, 96>>)
    @@ At(Handler, <<8, 72, 169, 1, 248, 184, 32, 64, 6, 104, 40, 64>>)
    @@ At(Handler + 16, <<72, 162, 3, 202, 208, 253, 104, 96>>)
    @@ Vector

\* LDX #0; push: TXA; PHA; DEX; BNE push; PHA; PHP; LDX #200;
\* pull: PLA; DEX; BNE pull; end: 258 pushes, of which the first two are lost.
Overflow ==
  At(Start, <<162, 0, 138, 72, 202, 208, 251, 72, 8, 40, 72,
              162, 200, 104, 202, 208, 252, 2>>) @@ Vector

\* LDX #131; TXS; JMP to a JSR in the stack page, whose pushes replace its own
\* opcode and the low byte of its operand: it reads its target, the RTS at 1793,
\* from what it has pushed.  At the address it held before, CLV; BVC *.
InStackPage ==
  At(Start, <<162, 131, 154, 76, 130, 1>>) @@ At(386, <<32, 16, 7, 2>>)
    @@ At(1793, <<96>>) @@ At(1808, <<184, 80, 254>>) @@ Vector

\* JMP to the end of memory, where LDX #3; loop: DEX; BEQ end goes forward across
\* it, and BVC loop back.  end: 4
AcrossTheEnd ==
  At(Start, <<76, 251, 255>>) @@ At(65531, <<162, 3, 202, 240, 4>>) @@ At(0, <<80, 251, 0, 0, 2>>)

MCImages ==
  {Overflow, InStackPage, AcrossTheEnd}
    \cup {Recursion(n) : n \in {1, 2, 127, 128}}
    \cup {Interrupts(s, 129, x) : s \in {0, 207}, x \in 0 .. 12}
    \cup {Interrupts(195, 0, 255)}
=============================================================================
