--------------------------- MODULE MCInstructions ---------------------------
(***************************************************************************)
(* Every instruction in every addressing mode, once, from the registers a  *)
(* short prologue leaves: index registers that do and do not wrap, an      *)
(* operand in the middle and at the end of its page, and the flags set and *)
(* clear.  The memory around each operand holds bytes of either sign.      *)
(***************************************************************************)
EXTENDS Cpu, Sequences, TLC

Start == 1536

At(org, bytes) == [a \in org .. org + Len(bytes) - 1 |-> bytes[a - org + 1]]

\* LDA #s; PHA; PLP; LDX #x; LDY #y; LDA #a: seeds the status register with s.
Prologue(s, x, y, a) == <<169, s, 72, 40, 162, x, 160, y, 169, a>>

\* The instruction under test; a byte that is no opcode ends the program
\* wherever it goes on: after it, at its jump target and two bytes further.
Body(b, n, p, hi) == SubSeq(<<b, p, hi>>, 1, n) \o <<2, 2, 2>>

\* Page zero and its end, the page after the stack, and the end of memory.
Data == At(0, <<128, 2>>) @@ At(16, <<127, 2, 0>>) @@ At(255, <<255>>)
        @@ At(528, <<1, 2, 129>>) @@ At(767, <<2, 2>>) @@ At(2, <<2>>)
        \* the frame that a return from an empty stack finds, past the wrap
        @@ At(256, <<195, 2, 2>>)
        \* VEC_IRQ, and the handler that returns to the program
        @@ At(VEC_IRQ, <<0, 7>>) @@ At(1792, <<64>>)

Instructions == UNION {{<<Opcode[op][mode], SIZE[mode]>> : mode \in DOMAIN Opcode[op]} :
                         op \in DOMAIN Opcode} \cup {<<255, 1>>}

Operands == {<<16, 2>>, <<255, 2>>, <<255, 255>>}

\* A jump to itself, the other way out of run().
Halt == At(Start, Prologue(207, 1, 0, 144) \o <<76, LowByte(Start + 10), HighByte(Start + 10)>>)

MCImages ==
  {At(Start, Prologue(s, x[1], x[2], a) \o Body(i[1], i[2], p[1], p[2])) @@ Data :
     s \in {0, 207}, x \in {<<1, 0>>, <<255, 2>>}, a \in {0, 127, 144},
     i \in Instructions, p \in Operands} \cup {Halt @@ Data}

-----------------------------------------------------------------------------
\* addressing.hpp: "($NN,X) (wraps in zero page)": neither byte of the address is
\* read from outside page zero, as the address functions of the other page zero
\* modes of that comment have it.
PreIndexedPointerInPage ==
  \A op \in DOMAIN Opcode :
    "IX" \in Fetched(op) =>
      address("IX") = WordInPage((readByte(aBytes, iProgramCounter + 1) + iXIndex) % 256)
=============================================================================
