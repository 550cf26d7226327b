---------------------------- MODULE MCArithmetic ----------------------------
(***************************************************************************)
(* Programs that compute with numbers wider than a byte, or with signs and *)
(* decimal digits, and so depend on what one instruction leaves in the     *)
(* flags for the next.  The operands are two words in page zero; a result  *)
(* is compared with the arithmetic of the integers when the program ends.  *)
(***************************************************************************)
EXTENDS Cpu, Sequences, TLC

Start == 1536

At(org, bytes) == [a \in org .. org + Len(bytes) - 1 |-> bytes[a - org + 1]]

Operands(v, w) == At(16, <<LowByte(v), HighByte(v), LowByte(w), HighByte(w)>>)
                    @@ At(0, <<2>>)

\* CLC or SEC; LDA 16; op 18; STA r; LDA 17; op 19; STA r+1; PHP; PLA; STA r+2
Words(prepare, op, r) ==
  <<prepare, 165, 16, op, 18, 133, r, 165, 17, op, 19, 133, r + 1, 8, 104, 133, r + 2>>

\* The sum at 20 and the difference at 24 in binary, at 28 and 32 in decimal,
\* each with the flags it left.  The end is the illegal byte 2.
WordProgram == <<216>> \o Words(24, 101, 20) \o Words(56, 229, 24)
               \o <<248>> \o Words(24, 101, 28) \o Words(56, 229, 32) \o <<2>>

\* LDX #8; LDA #0; LSR 16; loop: BCC +3; CLC; ADC 18; ROR A; ROR 16; DEX;
\* BNE loop; STA 20; end: the product of 16 and 18, low byte in 16, high in 20.
\* The operands have a copy each in 17 and 19.
ProductProgram == <<162, 8, 169, 0, 70, 16, 144, 3, 24, 101, 18, 106, 102, 16,
                    202, 208, 245, 133, 20, 2>>

\* LDA 16; LDX #0; SEC; SBC 18; BVC +2; EOR #128; BPL +1; INX; STX 20;
\* LDX #0; LDA 16; CMP 18; BCS +1; INX; STX 21; end: is the first operand less
\* than the second, as signed bytes in 20 and as unsigned bytes in 21.
OrderProgram == <<165, 16, 162, 0, 56, 229, 18, 80, 2, 73, 128, 16, 1, 232, 134, 20,
                  162, 0, 165, 16, 197, 18, 176, 1, 232, 134, 21, 2>>

\* Words at the boundaries of the carry, the borrow and the sign, and decimals.
Word == {0, 1, 255, 256, 32767, 32768, 65535, 153, 4096, 4660, 22136, 38912, 39321}

MCImages ==
  {At(Start, WordProgram) @@ Operands(v, w) : v \in Word, w \in Word}
    \cup {At(Start, program) @@ Operands(v * 257, w * 257) :
            program \in {ProductProgram, OrderProgram},
            v \in {0, 1, 3, 127, 128, 129, 254, 255},
            w \in {0, 1, 2, 127, 128, 200, 255}}

\* The bytes at Start are those of the program.
Holds(image, program) ==
  \A i \in 1 .. Len(program) : readByte(image, Start + (i - 1)) = program[i]

\* One run, of one of these programs, with any operands and anything else in
\* memory.  A host that does not set the program counter runs from 0.
ASSUME ArithmeticAssumption ==
  /\ EntryPoints \subseteq {Start}
  /\ MaxRuns <= 1
  /\ \A image \in Images :
       /\ readByte(image, 0) = 2
       /\ \/ Holds(image, WordProgram)
          \/ Holds(image, OrderProgram)
          \/ /\ Holds(image, ProductProgram)
             /\ readByte(image, 16) = readByte(image, 17)
             /\ readByte(image, 18) = readByte(image, 19)

-----------------------------------------------------------------------------
Ends(program) == /\ ~running
                 /\ iProgramCounter = Start + Len(program) - 1
                 /\ At(Start, program) = [a \in DOMAIN At(Start, program) |-> aBytes[a]]

Cell(a) == readByte(aBytes, a)
Number(a) == readWord(aBytes, a)
FlagsAt(a) == Bits(Cell(a))

SignedWord(n) == IF n >= 32768 THEN n - 65536 ELSE n
TooWide(n)    == n < -32768 \/ n > 32767

\* After ADC and SBC over two bytes the word is the sum or the difference
\* modulo 65536, C is its carry or the absence of a borrow, V says that the
\* signed result has no 16 bit representation, and N is its sign.
BinaryWords ==
  Ends(WordProgram) =>
    LET v == Number(16)  w == Number(18)
        sum == SignedWord(v) + SignedWord(w)
        diff == SignedWord(v) - SignedWord(w)
    IN  /\ Number(20) = (v + w) % 65536
        /\ F_CARRY \in FlagsAt(22) <=> v + w > 65535
        /\ F_OVERFLOW \in FlagsAt(22) <=> TooWide(sum)
        /\ F_NEGATIVE \in FlagsAt(22) <=> Number(20) >= 32768
        /\ Number(24) = (v - w) % 65536
        /\ F_CARRY \in FlagsAt(26) <=> v >= w
        /\ F_OVERFLOW \in FlagsAt(26) <=> TooWide(diff)
        /\ F_NEGATIVE \in FlagsAt(26) <=> Number(24) >= 32768

\* A word of four decimal digits.
Digits(n) == <<n % 16, (n \div 16) % 16, (n \div 256) % 16, n \div 4096>>
IsDecimal(n) == \A i \in 1 .. 4 : Digits(n)[i] <= 9
Decimal(n) == LET d == Digits(n) IN d[1] + 10 * d[2] + 100 * d[3] + 1000 * d[4]

\* In decimal mode ADC and SBC of numbers with digits up to 9 give the decimal
\* sum and difference modulo 10000, and C carries and borrows between bytes.
DecimalWords ==
  Ends(WordProgram) /\ IsDecimal(Number(16)) /\ IsDecimal(Number(18)) =>
    LET v == Decimal(Number(16))  w == Decimal(Number(18))
    IN  /\ IsDecimal(Number(28)) /\ IsDecimal(Number(32))
        /\ Decimal(Number(28)) = (v + w) % 10000
        /\ F_CARRY \in FlagsAt(30) <=> v + w > 9999
        /\ Decimal(Number(32)) = (v - w) % 10000
        /\ F_CARRY \in FlagsAt(34) <=> v >= w

\* Eight rounds of the multiplication, in which every addition hands its carry
\* to a rotation and every rotation hands the next bit of the multiplier to a
\* branch, leave the product of the two bytes.
Product ==
  Ends(ProductProgram) => Cell(16) + 256 * Cell(20) = Cell(17) * Cell(19)

\* SBC, V and N order bytes as signed numbers; CMP and C order them unsigned.
Order ==
  Ends(OrderProgram) =>
    /\ Cell(20) = 1 <=> Signed(Cell(16)) < Signed(Cell(18))
    /\ Cell(21) = 1 <=> Cell(16) < Cell(18)
=============================================================================
