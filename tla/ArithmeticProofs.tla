-------------------------- MODULE ArithmeticProofs --------------------------
(***************************************************************************)
(* The programs of MCArithmetic compute what they are meant to, for all    *)
(* operands and whatever else is in memory: the order of two bytes, their  *)
(* product, and the sums and differences of words in binary and decimal.   *)
(*                                                                         *)
(* The invariant says where a program is and what it has found out there.  *)
(* It follows the instructions: each has a lemma with its effect on        *)
(* accumulator, index register, flags and cells, and a step of a program   *)
(* is the lemma of the instruction it is at.                               *)
(***************************************************************************)
EXTENDS StepProofs, MCArithmetic

-----------------------------------------------------------------------------
(***************************************************************************)
(* The instructions of the programs.  o is the distance of an instruction  *)
(* from Start.                                                             *)
(***************************************************************************)
Code(o) == readByte(aBytes, Start + o)

AtCode(o) == iProgramCounter = Start + o

\* The step leads to the instruction at o.
To(o) == iProgramCounter' = Start + o

SameCarry == F_CARRY \in iStatus' <=> F_CARRY \in iStatus
SameMode  == F_DECIMAL \in iStatus' <=> F_DECIMAL \in iStatus

\* The step writes v to c, and nothing else.
Stored(c, v) == \A a \in Address : Cell(a)' = IF a = c THEN v ELSE Cell(a)

LEMMA Opcodes ==
  /\ Is("LDA", "IM", 169) /\ Is("LDA", "ZP", 165) /\ Is("LDX", "IM", 162)
  /\ Is("STA", "ZP", 133) /\ Is("STX", "ZP", 134) /\ Is("INX", "IMP", 232)
  /\ Is("DEX", "IMP", 202) /\ Is("ADC", "ZP", 101) /\ Is("SBC", "ZP", 229)
  /\ Is("CMP", "ZP", 197) /\ Is("EOR", "IM", 73) /\ Is("LSR", "ZP", 70)
  /\ Is("ROR", "A", 106) /\ Is("ROR", "ZP", 102) /\ Is("CLC", "IMP", 24)
  /\ Is("SEC", "IMP", 56) /\ Is("CLD", "IMP", 216) /\ Is("SED", "IMP", 248)
  /\ Is("BVC", "REL", 80) /\ Is("BPL", "REL", 16) /\ Is("BCS", "REL", 176)
  /\ Is("BCC", "REL", 144) /\ Is("BNE", "REL", 208)
  /\ Is("PHP", "IMP", 8) /\ Is("PLA", "IMP", 104)
<1>1. Is("LDA", "IM", 169) /\ Is("LDA", "ZP", 165) /\ Is("LDX", "IM", 162)
  BY DEF Is, Opcode
<1>2. Is("STA", "ZP", 133) /\ Is("STX", "ZP", 134) /\ Is("INX", "IMP", 232)
  BY DEF Is, Opcode
<1>3. Is("DEX", "IMP", 202) /\ Is("ADC", "ZP", 101) /\ Is("SBC", "ZP", 229)
  BY DEF Is, Opcode
<1>4. Is("CMP", "ZP", 197) /\ Is("EOR", "IM", 73) /\ Is("LSR", "ZP", 70)
  BY DEF Is, Opcode
<1>5. Is("ROR", "A", 106) /\ Is("ROR", "ZP", 102) /\ Is("CLC", "IMP", 24)
  BY DEF Is, Opcode
<1>6. Is("SEC", "IMP", 56) /\ Is("CLD", "IMP", 216) /\ Is("SED", "IMP", 248)
  BY DEF Is, Opcode
<1>7. Is("BVC", "REL", 80) /\ Is("BPL", "REL", 16) /\ Is("BCS", "REL", 176)
  BY DEF Is, Opcode
<1>8. Is("BCC", "REL", 144) /\ Is("BNE", "REL", 208)
  BY DEF Is, Opcode
<1>9. Is("PHP", "IMP", 8) /\ Is("PLA", "IMP", 104)
  BY DEF Is, Opcode
<1>. QED
  BY <1>1, <1>2, <1>3, <1>4, <1>5, <1>6, <1>7, <1>8, <1>9

LEMMA Here ==
  ASSUME NEW o \in Int, 0 <= o, o < 128, AtCode(o)
  PROVE  /\ InCode /\ opcode = Code(o)
         /\ readByte(aBytes, iProgramCounter + 1) = Code(o + 1)
         /\ \A d \in Int : Goto(d) => To(o + d)
<1>1. iProgramCounter = 1536 + o
  BY DEF AtCode, Start
<1>2. InCode
  BY <1>1 DEF InCode
<1>3. opcode = Code(o)
  BY DEF AtCode, opcode, Code
<1>4. iProgramCounter + 1 = Start + (o + 1)
  BY <1>1 DEF Start
<1>5. ASSUME NEW d \in Int, Goto(d) PROVE To(o + d)
  BY <1>1, <1>5 DEF Goto, To, Start
<1>. QED
  BY <1>2, <1>3, <1>4, <1>5 DEF Code

\* No instruction but these four changes the mode of the arithmetic.
LEMMA ModeStays ==
  ASSUME Instruction, opcode \notin {216, 248, 40, 64}
  PROVE  SameMode
<1>1. \A op \in {"CLD", "SED", "PLP", "RTI"} : Fetched(op) = {}
  BY DEF Fetched, Opcode
<1>2. [Next]_vars
  BY DEF Next
<1>3. ModeStep
  BY <1>2, EveryFlagStep DEF FlagStep
<1>. QED
  BY <1>1, <1>3 DEF ModeStep, SameMode

LEMMA ResultCarry ==
  ASSUME NEW S, NEW n
  PROVE  /\ F_CARRY \in updateNZ(S, n) <=> F_CARRY \in S
         /\ F_NEGATIVE \in updateNZ(S, n) <=> n >= 128
  BY DEF updateNZ, NZ, FlagIf, Negative, F_NZ, F_ZERO, F_NEGATIVE, F_CARRY

\* An operand in page zero.
LEMMA ZeroPage == load("ZP") = Cell(readByte(aBytes, iProgramCounter + 1))
                  /\ address("ZP") = readByte(aBytes, iProgramCounter + 1)
  BY DEF load, address, addrZeroPageByte, Cell

LEMMA ImmediateOperand == load("IM") = readByte(aBytes, iProgramCounter + 1)
  BY DEF load, address

LEMMA LoadsAt ==
  ASSUME Instruction, NEW o \in Int, 0 <= o, o < 128, AtCode(o)
  PROVE  /\ Code(o) = 169 => /\ iAccumulator' = Code(o + 1) /\ To(o + 2) /\ SameCarry /\ SameMode
                             /\ UNCHANGED <<iXIndex, iStackPointer, aBytes>>
         /\ Code(o) = 165 => /\ iAccumulator' = Cell(Code(o + 1)) /\ To(o + 2)
                             /\ SameCarry /\ SameMode
                             /\ UNCHANGED <<iXIndex, iStackPointer, aBytes>>
         /\ Code(o) = 162 => /\ iXIndex' = Code(o + 1) /\ To(o + 2) /\ SameCarry /\ SameMode
                             /\ UNCHANGED <<iAccumulator, iStackPointer, aBytes>>
<1>. USE Opcodes, SizeOver, Here, ModeStays
<1>1. CASE Code(o) = 169
  <2>1. SetAccumulator("IM", load("IM"), updateNZ(iStatus, load("IM")))
    BY <1>1, Runs DEF Handler, LDA
  <2>. QED
    BY <1>1, <2>1, ImmediateOperand, ResultCarry DEF SetAccumulator, SameCarry
<1>2. CASE Code(o) = 165
  <2>1. SetAccumulator("ZP", load("ZP"), updateNZ(iStatus, load("ZP")))
    BY <1>2, Runs DEF Handler, LDA
  <2>. QED
    BY <1>2, <2>1, ZeroPage, ResultCarry DEF SetAccumulator, SameCarry
<1>3. CASE Code(o) = 162
  <2>1. SetX("IM", load("IM"))
    BY <1>3, Runs DEF Handler, LDX
  <2>. QED
    BY <1>3, <2>1, ImmediateOperand, ResultCarry DEF SetX, SameCarry
<1>. QED
  BY <1>1, <1>2, <1>3

\* A store to page zero.
LEMMA StoredByte ==
  ASSUME NEW c \in Byte, NEW v, aBytes' = writeByte(aBytes, c, v)
  PROVE  Stored(c, v)
<1>1. c \in Address
  BY ByteIsAddress
<1>. QED
  BY <1>1, ReadWritten DEF Stored, Cell

LEMMA StoresAt ==
  ASSUME Inv, Instruction, NEW o \in Int, 0 <= o, o < 128, AtCode(o)
  PROVE  /\ Code(o) = 133 => /\ Stored(Code(o + 1), iAccumulator) /\ To(o + 2)
                             /\ UNCHANGED <<iAccumulator, iStatus, iXIndex, iStackPointer>>
         /\ Code(o) = 134 => /\ Stored(Code(o + 1), iXIndex) /\ To(o + 2)
                             /\ UNCHANGED <<iAccumulator, iStatus, iXIndex, iStackPointer>>
<1>. USE Opcodes, SizeOver, Here
<1>1. readByte(aBytes, iProgramCounter + 1) \in Byte
  BY Registers, ReadByteType
<1>2. CASE Code(o) = 133
  <2>1. store("ZP", iAccumulator, iStatus)
    BY <1>2, Runs DEF Handler, STA
  <2>. QED
    BY <1>1, <1>2, <2>1, ZeroPage, StoredByte DEF store
<1>3. CASE Code(o) = 134
  <2>1. store("ZP", iXIndex, iStatus)
    BY <1>3, Runs DEF Handler, STX
  <2>. QED
    BY <1>1, <1>3, <2>1, ZeroPage, StoredByte DEF store
<1>. QED
  BY <1>2, <1>3

LEMMA SetsFlagAt ==
  ASSUME Instruction, NEW o \in Int, 0 <= o, o < 128, AtCode(o), Code(o) \in {24, 56, 216, 248}
  PROVE  /\ To(o + 1)
         /\ UNCHANGED <<iAccumulator, iXIndex, iStackPointer, aBytes>>
         /\ Code(o) = 24 => F_CARRY \notin iStatus' /\ SameMode
         /\ Code(o) = 56 => F_CARRY \in iStatus' /\ SameMode
         /\ Code(o) = 216 => F_DECIMAL \notin iStatus'
         /\ Code(o) = 248 => F_DECIMAL \in iStatus'
<1>. USE Opcodes, SizeOver, Here, ModeStays
<1>1. CASE Code(o) = 24
  BY <1>1, Runs DEF Handler, CLC, Clear, SetStatus
<1>2. CASE Code(o) = 56
  BY <1>2, Runs DEF Handler, SEC, Set, SetStatus
<1>3. CASE Code(o) = 216
  BY <1>3, Runs DEF Handler, CLD, Clear, SetStatus
<1>4. CASE Code(o) = 248
  BY <1>4, Runs DEF Handler, SED, Set, SetStatus
<1>. QED
  BY <1>1, <1>2, <1>3, <1>4

LEMMA CountsAt ==
  ASSUME Instruction, NEW o \in Int, 0 <= o, o < 128, AtCode(o)
  PROVE  /\ Code(o) = 232 => /\ iXIndex' = (iXIndex + 1) % 256 /\ To(o + 1) /\ SameMode
                             /\ UNCHANGED <<iAccumulator, iStackPointer, aBytes>>
         /\ Code(o) = 202 => /\ iXIndex' = (iXIndex - 1) % 256 /\ To(o + 1)
                             /\ F_ZERO \in iStatus' <=> iXIndex' = 0
                             /\ SameCarry /\ SameMode
                             /\ UNCHANGED <<iAccumulator, iStackPointer, aBytes>>
<1>. USE Opcodes, SizeOver, Here, ModeStays
<1>1. CASE Code(o) = 232
  <2>1. SetX("IMP", (iXIndex + 1) % 256)
    BY <1>1, Runs DEF Handler, INX
  <2>. QED
    BY <1>1, <2>1 DEF SetX
<1>2. CASE Code(o) = 202
  <2>1. SetX("IMP", (iXIndex - 1) % 256)
    BY <1>2, Runs DEF Handler, DEX
  <2>. QED
    BY <1>2, <2>1, ResultCarry, ZeroFlag DEF SetX, SameCarry
<1>. QED
  BY <1>1, <1>2

LEMMA AluAt ==
  ASSUME Instruction, NEW o \in Int, 0 <= o, o < 128, AtCode(o)
  PROVE  /\ Code(o) = 101 =>
              /\ LET r == addByteWithCarry(iStatus, iAccumulator, Cell(Code(o + 1)))
                 IN  iAccumulator' = r.iValue /\ iStatus' = r.iStatus
              /\ To(o + 2) /\ SameMode /\ UNCHANGED <<iXIndex, iStackPointer, aBytes>>
         /\ Code(o) = 229 =>
              /\ LET r == subByteWithCarry(iStatus, iAccumulator, Cell(Code(o + 1)))
                 IN  iAccumulator' = r.iValue /\ iStatus' = r.iStatus
              /\ To(o + 2) /\ SameMode /\ UNCHANGED <<iXIndex, iStackPointer, aBytes>>
         /\ Code(o) = 73 =>
              /\ iAccumulator' = Xor(iAccumulator, Code(o + 1))
              /\ F_NEGATIVE \in iStatus' <=> iAccumulator' >= 128
              /\ To(o + 2) /\ SameMode /\ UNCHANGED <<iXIndex, iStackPointer, aBytes>>
         /\ Code(o) = 197 =>
              /\ F_CARRY \in iStatus' <=> Cell(Code(o + 1)) <= iAccumulator
              /\ To(o + 2) /\ SameMode
              /\ UNCHANGED <<iAccumulator, iXIndex, iStackPointer, aBytes>>
<1>. USE Opcodes, SizeOver, Here, ModeStays
<1>1. CASE Code(o) = 101
  BY <1>1, Runs, ZeroPage DEF Handler, ADC, SetAccumulator
<1>2. CASE Code(o) = 229
  BY <1>2, Runs, ZeroPage DEF Handler, SBC, SetAccumulator
<1>3. CASE Code(o) = 73
  <2>1. SetAccumulator("IM", Xor(iAccumulator, load("IM")),
                       updateNZ(iStatus, Xor(iAccumulator, load("IM"))))
    BY <1>3, Runs DEF Handler, EOR, Logic
  <2>. QED
    BY <1>3, <2>1, ImmediateOperand, ResultCarry DEF SetAccumulator
<1>4. CASE Code(o) = 197
  <2>1. SetStatus("ZP", cmpByte(iStatus, iAccumulator, load("ZP")))
    BY <1>4, Runs DEF Handler, CMP
  <2>2. \A S, a, b : F_CARRY \in cmpByte(S, a, b) <=> b <= a
    BY DEF cmpByte, NZ, FlagIf, F_NZC, F_ZERO, F_NEGATIVE, F_CARRY
  <2>. QED
    BY <1>4, <2>1, <2>2, ZeroPage DEF SetStatus
<1>. QED
  BY <1>1, <1>2, <1>3, <1>4

LEMMA ShiftRight ==
  ASSUME NEW S, NEW n
  PROVE  /\ shiftRightWithCarry(S, n).iValue = n \div 2
         /\ F_CARRY \in shiftRightWithCarry(S, n).iStatus <=> n % 2 = 1
         /\ rotateRightWithCarry(S, n).iValue = (n \div 2) + 128 * Carry(S)
         /\ F_CARRY \in rotateRightWithCarry(S, n).iStatus <=> n % 2 = 1
<1>1. ASSUME NEW m, NEW c \in BOOLEAN
      PROVE  /\ Shifted(S, m, c).iValue = m
             /\ F_CARRY \in Shifted(S, m, c).iStatus <=> c
  <2>. DEFINE T == (S \ {F_CARRY}) \cup FlagIf(F_CARRY, c)
  <2>1. F_CARRY \in T <=> c
    BY DEF FlagIf
  <2>2. Shifted(S, m, c) = [iStatus |-> updateNZ(T, m), iValue |-> m]
    BY Zenon DEF Shifted
  <2>. HIDE DEF T
  <2>. QED
    BY <2>1, <2>2, ResultCarry
<1>. DEFINE c == n % 2 = 1
<1>2. c \in BOOLEAN
  OBVIOUS
<1>3. /\ shiftRightWithCarry(S, n) = Shifted(S, n \div 2, c)
      /\ rotateRightWithCarry(S, n) = Shifted(S, (n \div 2) + 128 * Carry(S), c)
  BY Zenon DEF shiftRightWithCarry, rotateRightWithCarry
<1>. HIDE DEF c
<1>4. /\ shiftRightWithCarry(S, n).iValue = n \div 2
      /\ F_CARRY \in shiftRightWithCarry(S, n).iStatus <=> c
      /\ rotateRightWithCarry(S, n).iValue = (n \div 2) + 128 * Carry(S)
      /\ F_CARRY \in rotateRightWithCarry(S, n).iStatus <=> c
  BY <1>1, <1>2, <1>3
<1>. QED
  BY <1>4 DEF c

LEMMA ShiftsAt ==
  ASSUME Inv, Instruction, NEW o \in Int, 0 <= o, o < 128, AtCode(o)
  PROVE  /\ Code(o) = 70 =>
              /\ Stored(Code(o + 1), Cell(Code(o + 1)) \div 2)
              /\ F_CARRY \in iStatus' <=> Cell(Code(o + 1)) % 2 = 1
              /\ To(o + 2) /\ SameMode /\ UNCHANGED <<iAccumulator, iXIndex, iStackPointer>>
         /\ Code(o) = 102 =>
              /\ Stored(Code(o + 1), (Cell(Code(o + 1)) \div 2) + 128 * Carry(iStatus))
              /\ F_CARRY \in iStatus' <=> Cell(Code(o + 1)) % 2 = 1
              /\ To(o + 2) /\ SameMode /\ UNCHANGED <<iAccumulator, iXIndex, iStackPointer>>
         /\ Code(o) = 106 =>
              /\ iAccumulator' = (iAccumulator \div 2) + 128 * Carry(iStatus)
              /\ F_CARRY \in iStatus' <=> iAccumulator % 2 = 1
              /\ To(o + 1) /\ SameMode /\ UNCHANGED <<iXIndex, iStackPointer, aBytes>>
<1>. USE Opcodes, SizeOver, Here, ModeStays
<1>1. readByte(aBytes, iProgramCounter + 1) \in Byte
  BY Registers, ReadByteType
<1>2. CASE Code(o) = 70
  <2>. DEFINE r == shiftRightWithCarry(iStatus, load("ZP"))
  <2>1. Shift("ZP", r)
    BY <1>2, Runs DEF Handler, LSR, target
  <2>. HIDE DEF r
  <2>2. aBytes' = writeByte(aBytes, address("ZP"), r.iValue) /\ iStatus' = r.iStatus
        /\ To(o + 2) /\ SameMode /\ UNCHANGED <<iAccumulator, iXIndex, iStackPointer>>
    BY <1>2, <2>1 DEF Shift, store
  <2>3. r.iValue = load("ZP") \div 2 /\ (F_CARRY \in r.iStatus <=> load("ZP") % 2 = 1)
    BY ShiftRight DEF r
  <2>. QED
    BY <1>1, <1>2, <2>2, <2>3, ZeroPage, StoredByte
<1>3. CASE Code(o) = 102
  <2>. DEFINE r == rotateRightWithCarry(iStatus, load("ZP"))
  <2>1. Shift("ZP", r)
    BY <1>3, Runs DEF Handler, ROR, target
  <2>. HIDE DEF r
  <2>2. aBytes' = writeByte(aBytes, address("ZP"), r.iValue) /\ iStatus' = r.iStatus
        /\ To(o + 2) /\ SameMode /\ UNCHANGED <<iAccumulator, iXIndex, iStackPointer>>
    BY <1>3, <2>1 DEF Shift, store
  <2>3. /\ r.iValue = (load("ZP") \div 2) + 128 * Carry(iStatus)
        /\ F_CARRY \in r.iStatus <=> load("ZP") % 2 = 1
    BY ShiftRight DEF r
  <2>. QED
    BY <1>1, <1>3, <2>2, <2>3, ZeroPage, StoredByte
<1>4. CASE Code(o) = 106
  <2>. DEFINE r == rotateRightWithCarry(iStatus, iAccumulator)
  <2>1. Shift("A", r)
    BY <1>4, Runs DEF Handler, ROR, target
  <2>. HIDE DEF r
  <2>2. iAccumulator' = r.iValue /\ iStatus' = r.iStatus
        /\ To(o + 1) /\ SameMode /\ UNCHANGED <<iXIndex, iStackPointer, aBytes>>
    BY <1>4, <2>1 DEF Shift, SetAccumulator
  <2>3. /\ r.iValue = (iAccumulator \div 2) + 128 * Carry(iStatus)
        /\ F_CARRY \in r.iStatus <=> iAccumulator % 2 = 1
    BY ShiftRight DEF r
  <2>. QED
    BY <1>4, <2>2, <2>3
<1>. QED
  BY <1>2, <1>3, <1>4

\* Does the branch with this opcode go to its target?
Taken(n) == /\ n = 80 => F_OVERFLOW \notin iStatus
            /\ n = 16 => F_NEGATIVE \notin iStatus
            /\ n = 176 => F_CARRY \in iStatus
            /\ n = 144 => F_CARRY \notin iStatus
            /\ n = 208 => F_ZERO \notin iStatus

LEMMA BranchesAt ==
  ASSUME Instruction, NEW o \in Int, 0 <= o, o < 128, AtCode(o),
         Code(o) \in {80, 16, 176, 144, 208},
         NEW d \in -16 .. 16, d = Signed(Code(o + 1))
  PROVE  /\ IF Taken(Code(o)) THEN To(o + (2 + d)) ELSE To(o + 2)
         /\ UNCHANGED <<registers, aBytes>>
<1>. DEFINE taken == Taken(opcode)
<1>1. UNCHANGED <<registers, aBytes>> /\ goto(iProgramCounter + 2 + (IF taken THEN d ELSE 0))
  <2>. USE Opcodes, Runs, Sizes, Here
  <2>1. CASE Code(o) = 80
    BY <2>1 DEF Handler, BVC, Branch, Taken
  <2>2. CASE Code(o) = 16
    BY <2>2 DEF Handler, BPL, Branch, Taken
  <2>3. CASE Code(o) = 176
    BY <2>3 DEF Handler, BCS, Branch, Taken
  <2>4. CASE Code(o) = 144
    BY <2>4 DEF Handler, BCC, Branch, Taken
  <2>5. CASE Code(o) = 208
    BY <2>5 DEF Handler, BNE, Branch, Taken
  <2>. QED
    BY <2>1, <2>2, <2>3, <2>4, <2>5
<1>2. iProgramCounter \in Int /\ InCode /\ opcode = Code(o)
  BY Here DEF InCode
<1>3. CASE taken
  <2>1. goto(iProgramCounter + (2 + d)) /\ 2 + d \in -18 .. 18
    BY <1>1, <1>2, <1>3 DEF goto
  <2>2. Goto(2 + d)
    BY <1>2, <2>1, StepOver
  <2>. QED
    BY <1>1, <1>2, <1>3, <2>2, Here
<1>4. CASE ~ taken
  <2>1. goto(iProgramCounter + 2)
    BY <1>1, <1>2, <1>4 DEF goto
  <2>2. Goto(2)
    BY <1>2, <2>1, StepOver
  <2>. QED
    BY <1>1, <1>2, <1>4, <2>2, Here
<1>. QED
  BY <1>3, <1>4

LEMMA StackAt ==
  ASSUME Inv, Instruction, NEW o \in Int, 0 <= o, o < 128, AtCode(o)
  PROVE  /\ Code(o) = 8 =>
              /\ Stored(STACK_BASE + iStackPointer, PushedStatus)
              /\ iStackPointer' = (iStackPointer - 1) % 256
              /\ To(o + 1) /\ UNCHANGED <<iAccumulator, iStatus, iXIndex>>
         /\ Code(o) = 104 =>
              /\ iAccumulator' = Cell(STACK_BASE + ((iStackPointer + 1) % 256))
              /\ To(o + 1) /\ SameMode /\ UNCHANGED <<iXIndex, aBytes>>
<1>0. STACK_BASE + iStackPointer \in Address
  <2>1. STACK_BASE + iStackPointer \in 0 .. 511
    BY Registers DEF STACK_BASE, Byte
  <2>. QED
    BY <2>1, LowCells
<1>. USE Opcodes, SizeOver, Here, ModeStays
<1>1. CASE Code(o) = 8
  <2>1. /\ aBytes' = writeByte(aBytes, STACK_BASE + iStackPointer, PushedStatus)
        /\ iStackPointer' = (iStackPointer - 1) % 256
        /\ To(o + 1) /\ UNCHANGED <<iAccumulator, iStatus, iXIndex>>
    <3>1. Is("PHP", "IMP", opcode)
      BY <1>1
    <3>2. Handler("PHP") /\ Fetched("PHP") = {"IMP"}
      BY <3>1, Runs
    <3>3. /\ Pushed(push(Stack, PushedStatus)) /\ size("IMP")
          /\ UNCHANGED <<iAccumulator, iStatus, iXIndex>>
      BY <3>2 DEF Handler, PHP
    <3>4. To(o + 1)
      BY <3>3
    <3>. QED
      BY <3>3, <3>4 DEF Pushed, push, Stack
  <2>2. Stored(STACK_BASE + iStackPointer, PushedStatus)
    BY <1>0, <2>1, ReadWritten DEF Stored, Cell
  <2>. QED
    BY <1>1, <2>1, <2>2
<1>2. CASE Code(o) = 104
  <2>1. Is("PLA", "IMP", opcode)
    BY <1>2
  <2>2. Handler("PLA") /\ Fetched("PLA") = {"IMP"}
    BY <2>1, Runs
  <2>3. iAccumulator' = pull(1) /\ Pulled(1) /\ size("IMP") /\ UNCHANGED iXIndex
    BY <2>2 DEF Handler, PLA
  <2>4. To(o + 1) /\ SameMode
    BY <1>2, <2>3
  <2>. QED
    BY <1>2, <2>3, <2>4 DEF Pulled, pull, Cell
<1>. QED
  BY <1>1, <1>2

-----------------------------------------------------------------------------
(***************************************************************************)
(* What stays: the program, and the cells a step does not write.           *)
(***************************************************************************)
\* A step that keeps the program, and the illegal byte where the processor starts.
Kept == \A a \in Address : a = 0 \/ a >= 512 => Cell(a)' = Cell(a)

LEMMA KeptCells ==
  /\ UNCHANGED aBytes => Kept
  /\ \A c \in 1 .. 511 : \A v : Stored(c, v) => Kept
<1>1. ASSUME NEW c \in 1 .. 511, NEW v, Stored(c, v) PROVE Kept
  <2>1. ~ (c >= 512) /\ c # 0
    OBVIOUS
  <2>. QED
    BY <1>1, <2>1 DEF Stored, Kept
<1>. QED
  BY <1>1 DEF Kept, Cell

LEMMA PageZero == \A c \in 0 .. 255 : c \in Address
  BY LowCells

LEMMA CellType == ASSUME Inv, NEW a PROVE Cell(a) \in Byte
  BY Registers, ReadByteType DEF Cell

LEMMA CellKept ==
  ASSUME Kept, NEW c \in Int, 512 <= c, c < 65536
  PROVE  Cell(c)' = Cell(c)
<1>1. MEM_SIZE \in Int /\ c <= MEM_SIZE - 1
  BY DEF MEM_SIZE
<1>2. c \in Address
  BY <1>1 DEF Address
<1>. QED
  BY <1>2 DEF Kept

LEMMA ProgramKept ==
  ASSUME Kept, NEW program, NEW n \in 0 .. 100, Len(program) = n, Holds(aBytes, program)
  PROVE  Holds(aBytes', program) /\ Cell(0)' = Cell(0)
<1>1. ASSUME NEW i \in 1 .. n
      PROVE  readByte(aBytes', Start + (i - 1)) = readByte(aBytes, Start + (i - 1))
  <2>1. Start + (i - 1) = 1535 + i
    BY DEF Start
  <2>2. PICK c \in Int : c = 1535 + i /\ 512 <= c /\ c < 65536
    OBVIOUS
  <2>3. Cell(c)' = Cell(c)
    BY <2>2, CellKept
  <2>. QED
    BY <2>1, <2>2, <2>3 DEF Cell
<1>3. Cell(0)' = Cell(0)
  BY PageZero DEF Kept
<1>. QED
  BY <1>1, <1>3, Zenon DEF Holds

-----------------------------------------------------------------------------
(***************************************************************************)
(* The comparison of two bytes.                                            *)
(***************************************************************************)
\* N and the sign of a sum or a difference.
LEMMA SignOfResult ==
  ASSUME NEW S, NEW a, NEW b
  PROVE  /\ LET r == addByteWithCarry(S, a, b)
            IN  F_NEGATIVE \in r.iStatus <=> r.iValue >= 128
         /\ LET r == subByteWithCarry(S, a, b)
            IN  F_NEGATIVE \in r.iStatus <=> r.iValue >= 128
<1>1. \A n, c, v : F_NEGATIVE \in SumStatus(S, n, c, v) <=> n >= 128
  BY DEF SumStatus, NZ, FlagIf, Negative, F_NZCV, F_CARRY, F_ZERO, F_NEGATIVE, F_OVERFLOW
<1>2. LET r == addByteWithCarry(S, a, b)
      IN  F_NEGATIVE \in r.iStatus <=> r.iValue >= 128
  <2>. DEFINE n == IF F_DECIMAL \in S THEN addBCDWithCarry(S, a, b) ELSE Carry(S) + b + a
              v == Negative(b) = Negative(a) /\ Negative(b) # Negative(n % 256)
              c == Bit8(n)
              r == addByteWithCarry(S, a, b)
  <2>1. r.iValue = n % 256 /\ r.iStatus = SumStatus(S, n % 256, c, v)
    BY Zenon DEF addByteWithCarry, SumStatus
  <2>. HIDE DEF n, v, c, r
  <2>2. F_NEGATIVE \in r.iStatus <=> r.iValue >= 128
    BY <1>1, <2>1
  <2>. QED
    BY <2>2 DEF r
<1>3. LET r == subByteWithCarry(S, a, b)
      IN  F_NEGATIVE \in r.iStatus <=> r.iValue >= 128
  <2>. DEFINE n == IF F_DECIMAL \in S THEN subBCDWithCarry(S, a, b) ELSE a - b - (1 - Carry(S))
              v == Negative(b) # Negative(a) /\ Negative(a) # Negative(n % 256)
              c == ~Bit8(n)
              r == subByteWithCarry(S, a, b)
  <2>1. r.iValue = n % 256 /\ r.iStatus = SumStatus(S, n % 256, c, v)
    BY Zenon DEF subByteWithCarry, SumStatus
  <2>. HIDE DEF n, v, c, r
  <2>2. F_NEGATIVE \in r.iStatus <=> r.iValue >= 128
    BY <1>1, <2>1
  <2>. QED
    BY <2>2 DEF r
<1>. QED
  BY <1>1, <1>2, <1>3

\* After SBC with the carry set N and V differ when a is less than b.
LEMMA SignedOrder ==
  ASSUME NEW S \in SUBSET RealFlag, F_CARRY \in S, F_DECIMAL \notin S,
         NEW a \in Byte, NEW b \in Byte
  PROVE  LET r == subByteWithCarry(S, a, b)
         IN  ((F_OVERFLOW \in r.iStatus) # (F_NEGATIVE \in r.iStatus)) <=> Signed(a) < Signed(b)
<1>. DEFINE r == subByteWithCarry(S, a, b)
            c == Carry(r.iStatus)
            n == r.iValue
<1>1. /\ n - 256 * (1 - c) = a - b
      /\ F_OVERFLOW \in r.iStatus <=> Signed(a) - Signed(b) \notin -128 .. 127
  <2>1. Carry(S) = 1
    BY DEF Carry
  <2>2. /\ n - 256 * (1 - c) = a - b - (1 - Carry(S))
        /\ F_OVERFLOW \in r.iStatus <=> Signed(a) - Signed(b) - (1 - Carry(S)) \notin -128 .. 127
    BY SubBinary
  <2>. HIDE DEF r
  <2>. QED
    BY <2>1, <2>2 DEF Byte, Signed
<1>2. c \in {0, 1} /\ n \in Byte /\ (F_NEGATIVE \in r.iStatus <=> n >= 128)
  BY CarryType, SubType, SignOfResult DEF IsResult
<1>. HIDE DEF c, n
<1>3. (Signed(a) - Signed(b) \notin -128 .. 127) # (n >= 128) <=> Signed(a) < Signed(b)
  BY <1>1, <1>2 DEF Byte, Signed
<1>. QED
  BY <1>1, <1>2, <1>3 DEF r

LEMMA SignTurned ==
  ASSUME NEW a \in Byte
  PROVE  Xor(a, 128) >= 128 <=> a < 128
<1>. DEFINE T == (Bits(a) \ Bits(128)) \cup (Bits(128) \ Bits(a))
<1>1. Bits(128) = {128}
  BY DEF Bits, Flag, F_CARRY, F_ZERO, F_INTERRUPT, F_DECIMAL, F_BREAK, F_UNUSED, F_OVERFLOW,
         F_NEGATIVE
<1>2. 128 \in Bits(a) <=> a >= 128
  BY DEF Bits, Flag, F_NEGATIVE, Byte
<1>3. 128 \in T <=> a < 128
  BY <1>1, <1>2 DEF Byte
<1>. HIDE DEF T
<1>4. ToByte(T) >= 128 <=> 128 \in T
  BY DEF ToByte, Weight
<1>5. Xor(a, 128) = ToByte(T)
  BY DEF Xor, T
<1>. QED
  BY <1>3, <1>4, <1>5

-----------------------------------------------------------------------------
(***************************************************************************)
(* The program that orders two bytes.                                      *)
(***************************************************************************)
LEMMA OrderCode ==
  ASSUME Holds(aBytes, OrderProgram)
  PROVE  /\ Code(0) = 165 /\ Code(1) = 16 /\ Code(2) = 162 /\ Code(3) = 0 /\ Code(4) = 56
         /\ Code(5) = 229 /\ Code(6) = 18 /\ Code(7) = 80 /\ Code(8) = 2 /\ Code(9) = 73
         /\ Code(10) = 128 /\ Code(11) = 16 /\ Code(12) = 1 /\ Code(13) = 232
         /\ Code(14) = 134 /\ Code(15) = 20 /\ Code(16) = 162 /\ Code(17) = 0
         /\ Code(18) = 165 /\ Code(19) = 16 /\ Code(20) = 197 /\ Code(21) = 18
         /\ Code(22) = 176 /\ Code(23) = 1 /\ Code(24) = 232 /\ Code(25) = 134
         /\ Code(26) = 21 /\ Code(27) = 2
<1>. DEFINE p == <<165, 16, 162, 0, 56, 229, 18, 80, 2, 73, 128, 16, 1, 232, 134, 20,
                   162, 0, 165, 16, 197, 18, 176, 1, 232, 134, 21, 2>>
<1>1. \A i \in 1 .. 28 : Code(i - 1) = p[i]
  BY DEF Holds, OrderProgram, Code
<1>. QED
  BY <1>1

SignedLess == Signed(Cell(16)) < Signed(Cell(18))
ByteLess   == Cell(16) < Cell(18)

\* The result that is in memory.
SignedTold == Cell(20) = 1 <=> SignedLess

\* What the program has found out when it is at an instruction.
OrderAt ==
  \/ AtCode(0)
  \/ AtCode(2) /\ iAccumulator = Cell(16)
  \/ AtCode(4) /\ iAccumulator = Cell(16) /\ iXIndex = 0
  \/ AtCode(5) /\ iAccumulator = Cell(16) /\ iXIndex = 0 /\ F_CARRY \in iStatus
  \/ /\ AtCode(7) /\ iXIndex = 0
     /\ F_NEGATIVE \in iStatus <=> iAccumulator >= 128
     /\ (F_OVERFLOW \in iStatus) # (F_NEGATIVE \in iStatus) <=> SignedLess
  \/ AtCode(9) /\ iXIndex = 0 /\ (iAccumulator < 128 <=> SignedLess)
  \/ AtCode(11) /\ iXIndex = 0 /\ (F_NEGATIVE \in iStatus <=> SignedLess)
  \/ AtCode(13) /\ iXIndex = 0 /\ SignedLess
  \/ AtCode(14) /\ (iXIndex = 1 <=> SignedLess)
  \/ AtCode(16) /\ SignedTold
  \/ AtCode(18) /\ SignedTold /\ iXIndex = 0
  \/ AtCode(20) /\ SignedTold /\ iXIndex = 0 /\ iAccumulator = Cell(16)
  \/ /\ AtCode(22) /\ SignedTold /\ iXIndex = 0
     /\ F_CARRY \in iStatus <=> ~ ByteLess
  \/ AtCode(24) /\ SignedTold /\ iXIndex = 0 /\ ByteLess
  \/ AtCode(25) /\ SignedTold /\ (iXIndex = 1 <=> ByteLess)
  \/ AtCode(27) /\ SignedTold /\ (Cell(21) = 1 <=> ByteLess)

\* A step that leaves memory, or the cells below some cell, as they are.
LEMMA SameCells ==
  /\ UNCHANGED aBytes => Kept /\ \A a : Cell(a)' = Cell(a)
  /\ \A c \in 1 .. 255 : \A v : Stored(c, v) =>
       Kept /\ Cell(c)' = v /\ \A a \in 0 .. 255 : a # c => Cell(a)' = Cell(a)
<1>1. UNCHANGED aBytes => Kept /\ \A a : Cell(a)' = Cell(a)
  BY KeptCells DEF Cell
<1>2. ASSUME NEW c \in 1 .. 255, NEW v, Stored(c, v)
      PROVE  Kept /\ Cell(c)' = v /\ \A a \in 0 .. 255 : a # c => Cell(a)' = Cell(a)
  <2>1. c \in 1 .. 511 /\ c \in 0 .. 255
    OBVIOUS
  <2>2. Kept
    BY <1>2, <2>1, KeptCells
  <2>3. Cell(c)' = v
    BY <1>2, <2>1, PageZero DEF Stored
  <2>4. ASSUME NEW a \in 0 .. 255, a # c PROVE Cell(a)' = Cell(a)
    <3>1. a \in Address
      BY PageZero
    <3>. QED
      BY <1>2, <2>4, <3>1 DEF Stored
  <2>. QED
    BY <2>2, <2>3, <2>4
<1>. QED
  BY <1>1, <1>2

LEMMA SameOperands ==
  ASSUME Cell(16)' = Cell(16), Cell(18)' = Cell(18)
  PROVE  /\ SignedLess' <=> SignedLess
         /\ ByteLess' <=> ByteLess
         /\ Cell(20)' = Cell(20) => (SignedTold' <=> SignedTold)
<1>1. (SignedLess' <=> SignedLess) /\ (ByteLess' <=> ByteLess)
  BY DEF SignedLess, ByteLess
<1>. QED
  BY <1>1 DEF SignedTold

\* What the steps of the program leave as it is.
LEMMA OrderStays ==
  /\ UNCHANGED aBytes => /\ Kept /\ Cell(16)' = Cell(16) /\ (SignedLess' <=> SignedLess)
                         /\ (ByteLess' <=> ByteLess) /\ (SignedTold' <=> SignedTold)
  /\ \A v : Stored(20, v) => /\ Kept /\ Cell(20)' = v /\ (SignedLess' <=> SignedLess)
                             /\ (ByteLess' <=> ByteLess)
  /\ \A v : Stored(21, v) => /\ Kept /\ Cell(21)' = v /\ (SignedLess' <=> SignedLess)
                             /\ (ByteLess' <=> ByteLess) /\ (SignedTold' <=> SignedTold)
<1>1. ASSUME UNCHANGED aBytes
      PROVE  /\ Kept /\ Cell(16)' = Cell(16) /\ (SignedLess' <=> SignedLess)
             /\ (ByteLess' <=> ByteLess) /\ (SignedTold' <=> SignedTold)
  <2>1. Kept /\ \A a : Cell(a)' = Cell(a)
    BY <1>1, SameCells
  <2>. QED
    BY <2>1, SameOperands
<1>2. ASSUME NEW c \in {20, 21}, NEW v, Stored(c, v)
      PROVE  /\ Kept /\ Cell(c)' = v /\ Cell(16)' = Cell(16) /\ Cell(18)' = Cell(18)
             /\ c = 21 => Cell(20)' = Cell(20)
  <2>1. c \in 1 .. 255 /\ c # 16 /\ c # 18 /\ 16 \in 0 .. 255 /\ 18 \in 0 .. 255
    OBVIOUS
  <2>2. Kept /\ Cell(c)' = v /\ \A a \in 0 .. 255 : a # c => Cell(a)' = Cell(a)
    BY <1>2, <2>1, SameCells
  <2>. QED
    BY <2>1, <2>2
<1>. QED
  BY <1>1, <1>2, SameOperands

\* A branch leaves everything as it is.
LEMMA OrderBranch ==
  ASSUME UNCHANGED <<registers, aBytes>>
  PROVE  /\ Kept /\ SameMode /\ UNCHANGED <<iAccumulator, iStatus, iXIndex>>
         /\ SignedLess' <=> SignedLess
         /\ ByteLess' <=> ByteLess
         /\ SignedTold' <=> SignedTold
<1>1. Kept /\ \A a : Cell(a)' = Cell(a)
  BY SameCells
<1>. QED
  BY <1>1, SameOperands DEF registers, SameMode

LEMMA OrderNext ==
  ASSUME Inv, Instruction, Holds(aBytes, OrderProgram), F_DECIMAL \notin iStatus, OrderAt
  PROVE  OrderAt' /\ Kept /\ SameMode
<1>. USE OrderCode
<1>1. CASE AtCode(0)
  <2>1. To(2) /\ iAccumulator' = Cell(16) /\ SameMode /\ UNCHANGED aBytes
    BY <1>1, LoadsAt
  <2>. QED
    BY <2>1, OrderStays DEF OrderAt, To, AtCode
<1>2. CASE AtCode(2) /\ iAccumulator = Cell(16)
  <2>1. To(4) /\ iXIndex' = 0 /\ SameMode /\ UNCHANGED <<iAccumulator, aBytes>>
    BY <1>2, LoadsAt
  <2>. QED
    BY <1>2, <2>1, OrderStays DEF OrderAt, To, AtCode
<1>3. CASE AtCode(4) /\ iAccumulator = Cell(16) /\ iXIndex = 0
  <2>1. To(5) /\ F_CARRY \in iStatus' /\ SameMode /\ UNCHANGED <<iAccumulator, iXIndex, aBytes>>
    BY <1>3, SetsFlagAt
  <2>. QED
    BY <1>3, <2>1, OrderStays DEF OrderAt, To, AtCode
<1>4. CASE AtCode(5) /\ iAccumulator = Cell(16) /\ iXIndex = 0 /\ F_CARRY \in iStatus
  <2>. DEFINE r == subByteWithCarry(iStatus, iAccumulator, Cell(18))
  <2>1. /\ iAccumulator' = r.iValue /\ iStatus' = r.iStatus
        /\ To(7) /\ SameMode /\ UNCHANGED <<iXIndex, aBytes>>
    BY <1>4, AluAt
  <2>2. F_NEGATIVE \in r.iStatus <=> r.iValue >= 128
    BY SignOfResult
  <2>3. (F_OVERFLOW \in r.iStatus) # (F_NEGATIVE \in r.iStatus) <=> SignedLess
    <3>1. iAccumulator \in Byte /\ Cell(18) \in Byte /\ iStatus \in SUBSET RealFlag
      BY Registers, CellType
    <3>. QED
      BY <1>4, <3>1, SignedOrder DEF SignedLess
  <2>. HIDE DEF r
  <2>. QED
    BY <1>4, <2>1, <2>2, <2>3, OrderStays DEF OrderAt, To, AtCode
<1>5. CASE /\ AtCode(7) /\ iXIndex = 0
           /\ F_NEGATIVE \in iStatus <=> iAccumulator >= 128
           /\ (F_OVERFLOW \in iStatus) # (F_NEGATIVE \in iStatus) <=> SignedLess
  <2>1. /\ IF F_OVERFLOW \notin iStatus THEN To(11) ELSE To(9)
        /\ UNCHANGED <<registers, aBytes>>
    BY <1>5, BranchesAt DEF Taken, Signed
  <2>2. iAccumulator \in Int
    BY Registers DEF Byte
  <2>3. CASE F_OVERFLOW \in iStatus
    BY <1>5, <2>1, <2>3, <2>2, OrderBranch DEF OrderAt, To, AtCode
  <2>4. CASE F_OVERFLOW \notin iStatus
    BY <1>5, <2>1, <2>4, <2>2, OrderBranch DEF OrderAt, To, AtCode
  <2>. QED
    BY <2>3, <2>4
<1>6. CASE AtCode(9) /\ iXIndex = 0 /\ (iAccumulator < 128 <=> SignedLess)
  <2>1. /\ iAccumulator' = Xor(iAccumulator, 128)
        /\ F_NEGATIVE \in iStatus' <=> iAccumulator' >= 128
        /\ To(11) /\ SameMode /\ UNCHANGED <<iXIndex, aBytes>>
    BY <1>6, AluAt
  <2>2. F_NEGATIVE \in iStatus' <=> SignedLess
    BY <1>6, <2>1, Registers, SignTurned
  <2>9. Kept /\ (AtCode(11) /\ iXIndex = 0 /\ (F_NEGATIVE \in iStatus <=> SignedLess))'
    BY <1>6, <2>1, <2>2, OrderStays DEF To, AtCode
  <2>. QED
    BY <2>1, <2>9, Zenon DEF OrderAt
<1>7. CASE AtCode(11) /\ iXIndex = 0 /\ (F_NEGATIVE \in iStatus <=> SignedLess)
  <2>1. /\ IF F_NEGATIVE \notin iStatus THEN To(14) ELSE To(13)
        /\ UNCHANGED <<registers, aBytes>>
    BY <1>7, BranchesAt DEF Taken, Signed
  <2>3. CASE F_NEGATIVE \in iStatus
    BY <1>7, <2>1, <2>3, OrderBranch DEF OrderAt, To, AtCode
  <2>4. CASE F_NEGATIVE \notin iStatus
    BY <1>7, <2>1, <2>4, OrderBranch DEF OrderAt, To, AtCode
  <2>. QED
    BY <2>3, <2>4
<1>8. CASE AtCode(13) /\ iXIndex = 0 /\ SignedLess
  <2>1. iXIndex' = 1 /\ To(14) /\ SameMode /\ UNCHANGED aBytes
    BY <1>8, CountsAt
  <2>9. Kept /\ (AtCode(14) /\ (iXIndex = 1 <=> SignedLess))'
    BY <1>8, <2>1, OrderStays DEF To, AtCode
  <2>. QED
    BY <2>1, <2>9, Zenon DEF OrderAt
<1>9. CASE AtCode(14) /\ (iXIndex = 1 <=> SignedLess)
  <2>1. Stored(20, iXIndex) /\ To(16) /\ UNCHANGED iStatus
    BY <1>9, StoresAt
  <2>2. /\ Kept /\ Cell(20)' = iXIndex
        /\ SignedLess' <=> SignedLess
    BY <2>1, OrderStays
  <2>9. SameMode /\ (AtCode(16) /\ SignedTold)'
    BY <1>9, <2>1, <2>2 DEF To, AtCode, SignedTold, SameMode
  <2>. QED
    BY <2>2, <2>9, Zenon DEF OrderAt
<1>10. CASE AtCode(16) /\ SignedTold
  <2>1. To(18) /\ iXIndex' = 0 /\ SameMode /\ UNCHANGED aBytes
    BY <1>10, LoadsAt
  <2>9. Kept /\ (AtCode(18) /\ SignedTold /\ iXIndex = 0)'
    BY <1>10, <2>1, OrderStays DEF To, AtCode
  <2>. QED
    BY <2>1, <2>9, Zenon DEF OrderAt
<1>11. CASE AtCode(18) /\ SignedTold /\ iXIndex = 0
  <2>1. To(20) /\ iAccumulator' = Cell(16) /\ SameMode /\ UNCHANGED <<iXIndex, aBytes>>
    BY <1>11, LoadsAt
  <2>9. Kept /\ (AtCode(20) /\ SignedTold /\ iXIndex = 0 /\ iAccumulator = Cell(16))'
    BY <1>11, <2>1, OrderStays DEF To, AtCode
  <2>. QED
    BY <2>1, <2>9, Zenon DEF OrderAt
<1>12. CASE AtCode(20) /\ SignedTold /\ iXIndex = 0 /\ iAccumulator = Cell(16)
  <2>1. /\ F_CARRY \in iStatus' <=> Cell(18) <= iAccumulator
        /\ To(22) /\ SameMode /\ UNCHANGED <<iXIndex, aBytes>>
    BY <1>12, AluAt
  <2>2. Cell(16) \in Int /\ Cell(18) \in Int
    BY CellType DEF Byte
  <2>3. F_CARRY \in iStatus' <=> ~ ByteLess
    BY <1>12, <2>1, <2>2 DEF ByteLess
  <2>9. Kept /\ (AtCode(22) /\ SignedTold /\ iXIndex = 0 /\ (F_CARRY \in iStatus <=> ~ ByteLess))'
    BY <1>12, <2>1, <2>3, OrderStays DEF To, AtCode
  <2>. QED
    BY <2>1, <2>9, Zenon DEF OrderAt
<1>13. CASE /\ AtCode(22) /\ SignedTold /\ iXIndex = 0
            /\ F_CARRY \in iStatus <=> ~ ByteLess
  <2>1. /\ IF F_CARRY \in iStatus THEN To(25) ELSE To(24)
        /\ UNCHANGED <<registers, aBytes>>
    BY <1>13, BranchesAt DEF Taken, Signed
  <2>3. CASE F_CARRY \in iStatus
    BY <1>13, <2>1, <2>3, OrderBranch DEF OrderAt, To, AtCode
  <2>4. CASE F_CARRY \notin iStatus
    BY <1>13, <2>1, <2>4, OrderBranch DEF OrderAt, To, AtCode
  <2>. QED
    BY <2>3, <2>4
<1>14. CASE AtCode(24) /\ SignedTold /\ iXIndex = 0 /\ ByteLess
  <2>1. iXIndex' = 1 /\ To(25) /\ SameMode /\ UNCHANGED aBytes
    BY <1>14, CountsAt
  <2>9. Kept /\ (AtCode(25) /\ SignedTold /\ (iXIndex = 1 <=> ByteLess))'
    BY <1>14, <2>1, OrderStays DEF To, AtCode
  <2>. QED
    BY <2>1, <2>9, Zenon DEF OrderAt
<1>15. CASE AtCode(25) /\ SignedTold /\ (iXIndex = 1 <=> ByteLess)
  <2>1. Stored(21, iXIndex) /\ To(27) /\ UNCHANGED iStatus
    BY <1>15, StoresAt
  <2>2. /\ Kept /\ Cell(21)' = iXIndex
        /\ SignedTold' <=> SignedTold
        /\ ByteLess' <=> ByteLess
    BY <2>1, OrderStays
  <2>9. SameMode /\ (AtCode(27) /\ SignedTold /\ (Cell(21) = 1 <=> ByteLess))'
    BY <1>15, <2>1, <2>2 DEF To, AtCode, SameMode
  <2>. QED
    BY <2>2, <2>9, Zenon DEF OrderAt
<1>16. CASE AtCode(27)
  <2>1. opcode = 2
    BY <1>16, Here
  <2>. QED
    BY <2>1, IllegalEnds
<1>. QED
  BY <1>1, <1>2, <1>3, <1>4, <1>5, <1>6, <1>7, <1>8, <1>9, <1>10, <1>11, <1>12, <1>13, <1>14,
     <1>15, <1>16 DEF OrderAt

-----------------------------------------------------------------------------
(***************************************************************************)
(* The program that multiplies two bytes.                                  *)
(***************************************************************************)
LEMMA ProductCode ==
  ASSUME Holds(aBytes, ProductProgram)
  PROVE  /\ Code(0) = 162 /\ Code(1) = 8 /\ Code(2) = 169 /\ Code(3) = 0 /\ Code(4) = 70
         /\ Code(5) = 16 /\ Code(6) = 144 /\ Code(7) = 3 /\ Code(8) = 24 /\ Code(9) = 101
         /\ Code(10) = 18 /\ Code(11) = 106 /\ Code(12) = 102 /\ Code(13) = 16
         /\ Code(14) = 202 /\ Code(15) = 208 /\ Code(16) = 245 /\ Code(17) = 133
         /\ Code(18) = 20 /\ Code(19) = 2
<1>. DEFINE p == <<162, 8, 169, 0, 70, 16, 144, 3, 24, 101, 18, 106, 102, 16,
                   202, 208, 245, 133, 20, 2>>
<1>1. \A i \in 1 .. 20 : Code(i - 1) = p[i]
  BY DEF Holds, ProductProgram, Code
<1>. QED
  BY <1>1

\* With x rounds to go, 8 - x bits of the product are final.
Scale(x, p, q) == <<x, p, q>> \in {<<8, 1, 256>>, <<7, 2, 128>>, <<6, 4, 64>>, <<5, 8, 32>>,
                                   <<4, 16, 16>>, <<3, 32, 8>>, <<2, 64, 4>>, <<1, 128, 2>>,
                                   <<0, 256, 1>>}

LEMMA Scales ==
  /\ Scale(8, 1, 256)
  /\ \A x, p, q \in Int : Scale(x, p, q) /\ x # 0 =>
       \E r \in Int : q = 2 * r /\ p * r = 128 /\ Scale(x - 1, 2 * p, r) /\ x \in 1 .. 8
  /\ \A x, p, q \in Int : Scale(x, p, q) => x \in 0 .. 8 /\ (x = 0 => p = 256 /\ q = 1)
<1>1. Scale(8, 1, 256)
  BY DEF Scale
<1>2. ASSUME NEW x \in Int, NEW p \in Int, NEW q \in Int, Scale(x, p, q), x # 0
      PROVE  \E r \in Int : q = 2 * r /\ p * r = 128 /\ Scale(x - 1, 2 * p, r) /\ x \in 1 .. 8
  <2>. DEFINE T(r) == q = 2 * r /\ p * r = 128 /\ Scale(x - 1, 2 * p, r) /\ x \in 1 .. 8
  <2>1. CASE x = 8 /\ p = 1 /\ q = 256
    BY <2>1 DEF Scale
  <2>2. CASE x = 7 /\ p = 2 /\ q = 128
    BY <2>2 DEF Scale
  <2>3. CASE x = 6 /\ p = 4 /\ q = 64
    BY <2>3 DEF Scale
  <2>4. CASE x = 5 /\ p = 8 /\ q = 32
    BY <2>4 DEF Scale
  <2>5. CASE x = 4 /\ p = 16 /\ q = 16
    BY <2>5 DEF Scale
  <2>6. CASE x = 3 /\ p = 32 /\ q = 8
    BY <2>6 DEF Scale
  <2>7. CASE x = 2 /\ p = 64 /\ q = 4
    BY <2>7 DEF Scale
  <2>8. CASE x = 1 /\ p = 128 /\ q = 2
    BY <2>8 DEF Scale
  <2>. QED
    BY <1>2, <2>1, <2>2, <2>3, <2>4, <2>5, <2>6, <2>7, <2>8 DEF Scale
<1>3. ASSUME NEW x \in Int, NEW p \in Int, NEW q \in Int, Scale(x, p, q)
      PROVE  x \in 0 .. 8 /\ (x = 0 => p = 256 /\ q = 1)
  BY <1>3 DEF Scale
<1>. QED
  BY <1>1, <1>2, <1>3

\* What a round does to the sum of the partial products: with the bit c of the
\* multiplier added, and the sum b shifted into a and the final bit d.
LEMMA Rounds ==
  ASSUME NEW p \in Int, NEW a \in Int, NEW l \in Int, NEW t \in Int, NEW w \in Int, NEW n \in Int
  PROVE  /\ p * a + l + p * ((2 * t + 0) * w) = n <=> p * a + l + 2 * p * (t * w) = n
         /\ p * a + l + p * ((2 * t + 1) * w) = n <=> p * (a + w) + l + 2 * p * (t * w) = n
         /\ \A d \in {0, 1} :
              p * (2 * a + d) + l + 2 * p * (t * w) = n
                <=> (2 * p) * a + (l + d * p) + (2 * p) * (t * w) = n
<1>1. p * a + l + p * ((2 * t + 0) * w) = n <=> p * a + l + 2 * p * (t * w) = n
  OBVIOUS
<1>2. p * a + l + p * ((2 * t + 1) * w) = n <=> p * (a + w) + l + 2 * p * (t * w) = n
  OBVIOUS
<1>3. ASSUME NEW d \in {0, 1}
      PROVE  p * (2 * a + d) + l + 2 * p * (t * w) = n
                <=> (2 * p) * a + (l + d * p) + (2 * p) * (t * w) = n
  OBVIOUS
<1>. QED
  BY <1>1, <1>2, <1>3

Operand   == Cell(17) * Cell(18)
C         == Carry(iStatus)

\* The final bits l of the product, and the bits t of the multiplier, share a cell.
Halves(q, l, t) == t >= 0 /\ Cell(16) = l * q + t

\* Before the bit c of the multiplier is added: 2 * t + c is what is left of it.
Partial(p, q, l, t, c) ==
  /\ Halves(q, l, t) /\ 2 * t + c < q
  /\ p * iAccumulator + l + p * ((2 * t + c) * Cell(18)) = Operand

\* With the bit added: b is the sum, with its carry.
Added(p, q, l, t, b) ==
  /\ Halves(q, l, t) /\ 2 * t < q
  /\ p * b + l + 2 * p * (t * Cell(18)) = Operand

RoundAt(x, p, q, l, t) ==
  \/ AtCode(6) /\ x # 0 /\ iXIndex = x /\ Partial(p, q, l, t, C)
  \/ AtCode(8) /\ x # 0 /\ iXIndex = x /\ Partial(p, q, l, t, 1)
  \/ AtCode(9) /\ x # 0 /\ iXIndex = x /\ C = 0 /\ Partial(p, q, l, t, 1)
  \/ AtCode(11) /\ x # 0 /\ iXIndex = x /\ Added(p, q, l, t, iAccumulator + 256 * C)
  \/ AtCode(12) /\ x # 0 /\ iXIndex = x /\ Added(p, q, l, t, 2 * iAccumulator + C)
  \/ AtCode(14) /\ iXIndex = x + 1 /\ Partial(p, q, l, t, C)
  \/ AtCode(15) /\ iXIndex = x /\ (F_ZERO \in iStatus <=> x = 0) /\ Partial(p, q, l, t, C)

InRounds == \E x, p, q, l, t \in Int : Scale(x, p, q) /\ RoundAt(x, p, q, l, t)

ProductAt ==
  \/ AtCode(0) /\ Cell(16) = Cell(17)
  \/ AtCode(2) /\ Cell(16) = Cell(17) /\ iXIndex = 8
  \/ AtCode(4) /\ Cell(16) = Cell(17) /\ iXIndex = 8 /\ iAccumulator = 0
  \/ InRounds
  \/ AtCode(17) /\ Cell(16) + 256 * iAccumulator = Operand
  \/ AtCode(19) /\ Cell(16) + 256 * Cell(20) = Operand

\* A step of a round that leaves the operands as they are.
LEMMA SameHalves ==
  ASSUME UNCHANGED aBytes
  PROVE  /\ Kept /\ Operand' = Operand /\ \A a : Cell(a)' = Cell(a)
         /\ \A q, l, t : Halves(q, l, t)' <=> Halves(q, l, t)
<1>1. Kept /\ \A a : Cell(a)' = Cell(a)
  BY SameCells
<1>. QED
  BY <1>1 DEF Operand, Halves

LEMMA Types ==
  ASSUME Inv
  PROVE  /\ iAccumulator \in Int /\ iXIndex \in Int /\ C \in {0, 1} /\ C \in Int
         /\ Operand \in Int /\ \A a : Cell(a) \in Int
<1>1. \A a : Cell(a) \in Int
  BY CellType DEF Byte
<1>2. iAccumulator \in Int /\ iXIndex \in Int
  BY Registers DEF Byte
<1>3. C \in {0, 1} /\ C \in Int
  BY DEF C, Carry
<1>. QED
  BY <1>1, <1>2, <1>3 DEF Operand

LEMMA SameRound ==
  ASSUME UNCHANGED <<aBytes, iAccumulator>>
  PROVE  \A p, q, l, t, c : Partial(p, q, l, t, c)' <=> Partial(p, q, l, t, c)
  BY SameHalves DEF Partial

LEMMA InRound ==
  \A x, p, q, l, t \in Int : Scale(x, p, q) /\ RoundAt(x, p, q, l, t)' => ProductAt'
<1>1. ASSUME NEW x \in Int, NEW p \in Int, NEW q \in Int, NEW l \in Int, NEW t \in Int,
             Scale(x, p, q), RoundAt(x, p, q, l, t)'
      PROVE  InRounds'
  BY <1>1, Zenon DEF InRounds
<1>. QED
  BY <1>1, Zenon DEF ProductAt

\* What it does to the cell that holds the final bits above the multiplier.
RotatesTo(m, d, t, n, r) ==
  \E h \in Int : \E c \in {0, 1} : /\ 0 <= h /\ t = 2 * h + c /\ m % 2 = c
                                   /\ (m \div 2) + 128 * d = n * r + h

LEMMA HalvesRotated ==
  ASSUME Inv, NEW p \in Int, NEW r \in Int, p * r = 128, NEW l \in Int, NEW t \in Int,
         NEW q, q = 2 * r, Halves(q, l, t), NEW n \in Int, n = l + C * p
  PROVE  RotatesTo(Cell(16), C, t, n, r)
<1>1. PICK m \in Int, d \in Int : m = Cell(16) /\ d = C /\ (d = 0 \/ d = 1)
  BY Types
<1>2. m = l * (2 * r) + t /\ 0 <= t /\ n = l + d * p
  BY <1>1 DEF Halves
<1>3. PICK h \in Int, c \in {0, 1} : 0 <= h /\ t = 2 * h + c
  <2>1. t = 2 * (t \div 2) + (t % 2) /\ t % 2 \in {0, 1} /\ t \div 2 \in Int /\ 0 <= t \div 2
    BY <1>2
  <2>. QED
    BY <2>1
<1>4. PICK y \in Int : y = l * r
  OBVIOUS
<1>5. m = 2 * (y + h) + c
  BY <1>2, <1>3, <1>4
<1>6. m % 2 = c /\ m \div 2 = y + h
  BY <1>5
<1>7. n * r = y + 128 * d
  BY <1>1, <1>2, <1>4
<1>8. (m \div 2) + 128 * d = n * r + h
  BY <1>6, <1>7
<1>9. RotatesTo(m, d, t, n, r)
  BY <1>3, <1>6, <1>8, Zenon DEF RotatesTo
<1>. QED
  BY <1>1, <1>9

\* A step that leaves the factors and the copies as they are.
SameFactors == Cell(17)' = Cell(17) /\ Cell(18)' = Cell(18) /\ Cell(19)' = Cell(19)

LEMMA FactorsStay ==
  /\ \A v : Stored(16, v) => Kept /\ SameFactors /\ Cell(16)' = v
  /\ \A v : Stored(20, v) => Kept /\ SameFactors /\ Cell(20)' = v /\ Cell(16)' = Cell(16)
<1>1. ASSUME NEW c \in {16, 20}, NEW v, Stored(c, v)
      PROVE  Kept /\ SameFactors /\ Cell(c)' = v /\ (c = 20 => Cell(16)' = Cell(16))
  <2>1. /\ c \in 1 .. 255 /\ c # 17 /\ c # 18 /\ c # 19
        /\ 16 \in 0 .. 255 /\ 17 \in 0 .. 255 /\ 18 \in 0 .. 255 /\ 19 \in 0 .. 255
    OBVIOUS
  <2>2. Kept /\ Cell(c)' = v /\ \A a \in 0 .. 255 : a # c => Cell(a)' = Cell(a)
    BY <1>1, <2>1, SameCells
  <2>. QED
    BY <2>1, <2>2 DEF SameFactors
<1>. QED
  BY <1>1

LEMMA RoundStep ==
  ASSUME Inv, Instruction, Holds(aBytes, ProductProgram), F_DECIMAL \notin iStatus,
         NEW x \in Int, NEW p \in Int, NEW q \in Int, NEW l \in Int, NEW t \in Int,
         Scale(x, p, q), RoundAt(x, p, q, l, t)
  PROVE  ProductAt' /\ Kept /\ SameMode /\ SameFactors
<1>. USE ProductCode DEF SameFactors
<1>. DEFINE Goal == Kept /\ SameMode /\ SameFactors
<1>1. CASE AtCode(6) /\ x # 0 /\ iXIndex = x /\ Partial(p, q, l, t, C)
  <2>1. /\ IF F_CARRY \notin iStatus THEN To(11) ELSE To(8)
        /\ UNCHANGED <<registers, aBytes>>
    BY <1>1, BranchesAt DEF Taken, Signed
  <2>2. Goal /\ UNCHANGED <<aBytes, iAccumulator, iStatus, iXIndex>> /\ Operand' = Operand
    BY <2>1, SameHalves DEF registers, SameMode
  <2>3. CASE F_CARRY \notin iStatus
    <3>1. C = 0 /\ C' = 0 /\ To(11)
      BY <2>1, <2>2, <2>3 DEF C, Carry
    <3>2. Added(p, q, l, t, iAccumulator + 256 * C)
      BY <1>1, <3>1, Rounds, Types DEF Partial, Added
    <3>3. Added(p, q, l, t, iAccumulator + 256 * C)'
      BY <2>2, <3>1, <3>2, SameHalves DEF Added
    <3>4. RoundAt(x, p, q, l, t)'
      BY <1>1, <2>2, <3>1, <3>3 DEF RoundAt, To, AtCode
    <3>. QED
      BY <2>2, <3>4, InRound
  <2>4. CASE F_CARRY \in iStatus
    <3>1. C = 1 /\ To(8)
      BY <2>1, <2>4 DEF C, Carry
    <3>2. Partial(p, q, l, t, 1)'
      BY <1>1, <2>2, <3>1, SameRound
    <3>3. RoundAt(x, p, q, l, t)'
      BY <1>1, <2>2, <3>1, <3>2 DEF RoundAt, To, AtCode
    <3>. QED
      BY <2>2, <3>3, InRound
  <2>. QED
    BY <2>3, <2>4
<1>2. CASE AtCode(8) /\ x # 0 /\ iXIndex = x /\ Partial(p, q, l, t, 1)
  <2>1. /\ To(9) /\ F_CARRY \notin iStatus' /\ SameMode
        /\ UNCHANGED <<iAccumulator, iXIndex, aBytes>>
    BY <1>2, SetsFlagAt
  <2>2. C' = 0
    BY <2>1 DEF C, Carry
  <2>3. Partial(p, q, l, t, 1)' /\ Goal
    BY <1>2, <2>1, SameRound, SameHalves
  <2>4. RoundAt(x, p, q, l, t)'
    BY <1>2, <2>1, <2>2, <2>3 DEF RoundAt, To, AtCode
  <2>. QED
    BY <2>1, <2>3, <2>4, InRound
<1>3. CASE AtCode(9) /\ x # 0 /\ iXIndex = x /\ C = 0 /\ Partial(p, q, l, t, 1)
  <2>. DEFINE r == addByteWithCarry(iStatus, iAccumulator, Cell(18))
  <2>1. /\ iAccumulator' = r.iValue /\ iStatus' = r.iStatus
        /\ To(11) /\ SameMode /\ UNCHANGED <<iXIndex, aBytes>>
    BY <1>3, AluAt
  <2>2. r.iValue + 256 * Carry(r.iStatus) = iAccumulator + Cell(18) + C
    BY Registers, CellType, AddBinary DEF C
  <2>. HIDE DEF r
  <2>3. iAccumulator' + 256 * C' = iAccumulator + Cell(18)
    <3>1. C' = Carry(r.iStatus)
      BY <2>1 DEF C
    <3>2. iAccumulator + Cell(18) + C = iAccumulator + Cell(18)
      BY <1>3, Types
    <3>. QED
      BY <2>1, <2>2, <3>1, <3>2
  <2>4. Added(p, q, l, t, iAccumulator + Cell(18))
    BY <1>3, Rounds, Types DEF Partial, Added
  <2>5. Added(p, q, l, t, iAccumulator + 256 * C)' /\ Goal
    BY <2>1, <2>3, <2>4, SameHalves DEF Added
  <2>6. RoundAt(x, p, q, l, t)'
    BY <1>3, <2>1, <2>5 DEF RoundAt, To, AtCode
  <2>. QED
    BY <2>1, <2>5, <2>6, InRound
<1>4. CASE AtCode(11) /\ x # 0 /\ iXIndex = x /\ Added(p, q, l, t, iAccumulator + 256 * C)
  <2>1. /\ iAccumulator' = (iAccumulator \div 2) + 128 * C
        /\ F_CARRY \in iStatus' <=> iAccumulator % 2 = 1
        /\ To(12) /\ SameMode /\ UNCHANGED <<iXIndex, aBytes>>
    BY <1>4, ShiftsAt DEF C
  <2>2. iAccumulator + 256 * C = 2 * iAccumulator' + C'
    <3>1. /\ iAccumulator % 2 \in {0, 1}
          /\ iAccumulator = 2 * (iAccumulator \div 2) + (iAccumulator % 2)
      BY Registers DEF Byte
    <3>2. C' = iAccumulator % 2
      BY <2>1, <3>1 DEF C, Carry
    <3>. QED
      BY <2>1, <3>1, <3>2, Types
  <2>3. Added(p, q, l, t, 2 * iAccumulator + C)' /\ Goal
    BY <1>4, <2>1, <2>2, SameHalves DEF Added
  <2>4. RoundAt(x, p, q, l, t)'
    BY <1>4, <2>1, <2>3 DEF RoundAt, To, AtCode
  <2>. QED
    BY <2>1, <2>3, <2>4, InRound
<1>5. CASE AtCode(12) /\ x # 0 /\ iXIndex = x /\ Added(p, q, l, t, 2 * iAccumulator + C)
  <2>1. /\ Stored(16, (Cell(16) \div 2) + 128 * C)
        /\ F_CARRY \in iStatus' <=> Cell(16) % 2 = 1
        /\ To(14) /\ SameMode /\ UNCHANGED <<iAccumulator, iXIndex>>
    BY <1>5, ShiftsAt DEF C
  <2>2. Goal /\ Cell(16)' = (Cell(16) \div 2) + 128 * C
    BY <2>1, FactorsStay
  <2>3. Operand' = Operand
    BY <2>2 DEF Operand
  <2>4. PICK r \in Int : q = 2 * r /\ p * r = 128 /\ Scale(x - 1, 2 * p, r)
    BY <1>5, Scales
  <2>7. PICK k \in Int : k = l + C * p
    BY Types
  <2>5. PICK h \in Int, c \in {0, 1} :
          /\ 0 <= h /\ t = 2 * h + c /\ Cell(16) % 2 = c
          /\ (Cell(16) \div 2) + 128 * C = k * r + h
    <3>1. Halves(q, l, t) /\ q = 2 * r /\ p * r = 128
      BY <1>5, <2>4 DEF Added
    <3>2. RotatesTo(Cell(16), C, t, k, r)
      BY <2>7, <3>1, HalvesRotated
    <3>. QED
      BY <3>2, Zenon DEF RotatesTo
  <2>6. C' = c
    BY <2>1, <2>5 DEF C, Carry
  <2>8. PICK s \in Int : s = 2 * p
    OBVIOUS
  <2>9. s * iAccumulator + k + s * (t * Cell(18)) = Operand
    BY <1>5, <2>7, <2>8, Rounds, Types DEF Added
  <2>10. Partial(s, r, k, h, C)'
    <3>1. 2 * t < q
      BY <1>5 DEF Added
    <3>2. 2 * h + c < r
      BY <2>4, <2>5, <3>1
    <3>. QED
      BY <2>1, <2>2, <2>3, <2>5, <2>6, <2>7, <2>9, <3>2 DEF Partial, Halves
  <2>11. PICK y \in Int : y = x - 1
    OBVIOUS
  <2>12. RoundAt(y, s, r, k, h)' /\ Scale(y, s, r)
    <3>1. iXIndex' = y + 1
      BY <1>5, <2>1, <2>11
    <3>. QED
      BY <2>1, <2>4, <2>8, <2>10, <2>11, <3>1 DEF RoundAt, To, AtCode
  <2>. QED
    BY <2>2, <2>12, InRound
<1>6. CASE AtCode(14) /\ iXIndex = x + 1 /\ Partial(p, q, l, t, C)
  <2>1. /\ iXIndex' = (iXIndex - 1) % 256 /\ To(15) /\ SameCarry /\ SameMode
        /\ F_ZERO \in iStatus' <=> iXIndex' = 0
        /\ UNCHANGED <<iAccumulator, aBytes>>
    BY <1>6, CountsAt
  <2>2. iXIndex' = x
    <3>1. x \in 0 .. 8
      BY Scales
    <3>. QED
      BY <1>6, <2>1, <3>1
  <2>3. C' = C
    BY <2>1 DEF C, Carry, SameCarry
  <2>4. Partial(p, q, l, t, C)' /\ Goal
    BY <1>6, <2>1, <2>3, SameRound, SameHalves
  <2>5. RoundAt(x, p, q, l, t)'
    BY <2>1, <2>2, <2>4 DEF RoundAt, To, AtCode
  <2>. QED
    BY <2>4, <2>5, InRound
<1>7. CASE AtCode(15) /\ iXIndex = x /\ (F_ZERO \in iStatus <=> x = 0) /\ Partial(p, q, l, t, C)
  <2>1. /\ IF F_ZERO \notin iStatus THEN To(6) ELSE To(17)
        /\ UNCHANGED <<registers, aBytes>>
    BY <1>7, BranchesAt DEF Taken, Signed
  <2>2. Goal /\ UNCHANGED <<aBytes, iAccumulator, iStatus, iXIndex>> /\ Operand' = Operand /\ C' = C
    BY <2>1, SameHalves DEF registers, SameMode, C
  <2>3. CASE x # 0
    <3>1. Partial(p, q, l, t, C)'
      BY <1>7, <2>2, SameRound
    <3>2. RoundAt(x, p, q, l, t)'
      BY <1>7, <2>1, <2>2, <2>3, <3>1 DEF RoundAt, To, AtCode
    <3>. QED
      BY <2>2, <3>2, InRound
  <2>4. CASE x = 0
    <3>1. p = 256 /\ q = 1
      BY <2>4, Scales
    <3>2. t = 0 /\ C = 0
      BY <1>7, <3>1, Types DEF Partial, Halves
    <3>3. Cell(16) + 256 * iAccumulator = Operand
      BY <1>7, <3>1, <3>2, Types DEF Partial, Halves
    <3>4. (AtCode(17) /\ Cell(16) + 256 * iAccumulator = Operand)'
      BY <1>7, <2>1, <2>2, <2>4, <3>3, SameHalves DEF To, AtCode
    <3>. QED
      BY <2>2, <3>4 DEF ProductAt
  <2>. QED
    BY <2>3, <2>4
<1>. QED
  BY <1>1, <1>2, <1>3, <1>4, <1>5, <1>6, <1>7 DEF RoundAt

LEMMA ProductNext ==
  ASSUME Inv, Instruction, Holds(aBytes, ProductProgram), F_DECIMAL \notin iStatus, ProductAt
  PROVE  ProductAt' /\ Kept /\ SameMode /\ SameFactors
<1>. USE ProductCode DEF SameFactors
<1>. DEFINE Goal == Kept /\ SameMode /\ SameFactors
<1>1. CASE AtCode(0) /\ Cell(16) = Cell(17)
  <2>1. To(2) /\ iXIndex' = 8 /\ SameMode /\ UNCHANGED aBytes
    BY <1>1, LoadsAt
  <2>3. Goal /\ Cell(16)' = Cell(16)
    BY <2>1, SameHalves
  <2>2. Goal /\ (AtCode(2) /\ Cell(16) = Cell(17) /\ iXIndex = 8)'
    BY <1>1, <2>1, <2>3 DEF To, AtCode
  <2>. QED
    BY <2>2, Zenon DEF ProductAt
<1>2. CASE AtCode(2) /\ Cell(16) = Cell(17) /\ iXIndex = 8
  <2>1. To(4) /\ iAccumulator' = 0 /\ SameMode /\ UNCHANGED <<iXIndex, aBytes>>
    BY <1>2, LoadsAt
  <2>3. Goal /\ Cell(16)' = Cell(16)
    BY <2>1, SameHalves
  <2>2. Goal /\ (AtCode(4) /\ Cell(16) = Cell(17) /\ iXIndex = 8 /\ iAccumulator = 0)'
    BY <1>2, <2>1, <2>3 DEF To, AtCode
  <2>. QED
    BY <2>2, Zenon DEF ProductAt
<1>3. CASE AtCode(4) /\ Cell(16) = Cell(17) /\ iXIndex = 8 /\ iAccumulator = 0
  <2>1. /\ Stored(16, Cell(16) \div 2)
        /\ F_CARRY \in iStatus' <=> Cell(16) % 2 = 1
        /\ To(6) /\ SameMode /\ UNCHANGED <<iAccumulator, iXIndex>>
    BY <1>3, ShiftsAt
  <2>2. Goal /\ Cell(16)' = Cell(16) \div 2
    BY <2>1, FactorsStay
  <2>3. PICK t \in Int, c \in {0, 1} : /\ 0 <= t /\ Cell(16) = 2 * t + c /\ 2 * t + c < 256
                                      /\ Cell(16) \div 2 = t /\ Cell(16) % 2 = c
    <3>1. PICK m \in Byte : m = Cell(16)
      BY CellType
    <3>2. /\ m = 2 * (m \div 2) + (m % 2) /\ m % 2 \in {0, 1} /\ m \div 2 \in Int /\ 0 <= m \div 2
          /\ m < 256
      BY DEF Byte
    <3>. QED
      BY <3>1, <3>2
  <2>4. C' = c /\ Operand' = Operand
    BY <2>1, <2>2, <2>3 DEF C, Carry, Operand
  <2>0. PICK x \in Int, p \in Int, q \in Int, l \in Int : x = 8 /\ p = 1 /\ q = 256 /\ l = 0
    OBVIOUS
  <2>5. p * iAccumulator + l + p * ((2 * t + c) * Cell(18)) = Operand
    <3>1. Operand = (2 * t + c) * Cell(18)
      BY <1>3, <2>3 DEF Operand
    <3>. QED
      BY <1>3, <2>0, <3>1, Types
  <2>6. Partial(p, q, l, t, C)'
    BY <2>0, <2>1, <2>2, <2>3, <2>4, <2>5 DEF Partial, Halves
  <2>7. RoundAt(x, p, q, l, t)'
    BY <1>3, <2>0, <2>1, <2>6 DEF RoundAt, To, AtCode
  <2>8. Scale(x, p, q)
    BY <2>0, Scales
  <2>9. ProductAt'
    BY <2>7, <2>8, InRound, Zenon
  <2>. QED
    BY <2>2, <2>9, Zenon
<1>4. CASE InRounds
  BY <1>4, RoundStep DEF InRounds
<1>5. CASE AtCode(17) /\ Cell(16) + 256 * iAccumulator = Operand
  <2>1. Stored(20, iAccumulator) /\ To(19) /\ UNCHANGED iStatus
    BY <1>5, StoresAt
  <2>2. Goal /\ Cell(20)' = iAccumulator /\ Cell(16)' = Cell(16)
    BY <2>1, FactorsStay DEF SameMode
  <2>3. Operand' = Operand
    BY <2>2 DEF Operand
  <2>. QED
    BY <1>5, <2>1, <2>2, <2>3 DEF ProductAt, To, AtCode
<1>6. CASE AtCode(19)
  <2>1. opcode = 2
    BY <1>6, Here
  <2>. QED
    BY <2>1, IllegalEnds
<1>. QED
  BY <1>1, <1>2, <1>3, <1>4, <1>5, <1>6 DEF ProductAt

-----------------------------------------------------------------------------
(***************************************************************************)
(* The program that adds and subtracts words.                              *)
(***************************************************************************)
\* The instructions from b on, of one sum or difference.
Block(b, prepare, op, r) ==
  /\ Code(b) = prepare /\ Code(b + 1) = 165 /\ Code(b + 2) = 16 /\ Code(b + 3) = op
  /\ Code(b + 4) = 18 /\ Code(b + 5) = 133 /\ Code(b + 6) = r /\ Code(b + 7) = 165
  /\ Code(b + 8) = 17 /\ Code(b + 9) = op /\ Code(b + 10) = 19 /\ Code(b + 11) = 133
  /\ Code(b + 12) = r + 1 /\ Code(b + 13) = 8 /\ Code(b + 14) = 104 /\ Code(b + 15) = 133
  /\ Code(b + 16) = r + 2

LEMMA WordCode ==
  ASSUME Holds(aBytes, WordProgram)
  PROVE  /\ Code(0) = 216 /\ Block(1, 24, 101, 20) /\ Block(18, 56, 229, 24)
         /\ Code(35) = 248 /\ Block(36, 24, 101, 28) /\ Block(53, 56, 229, 32) /\ Code(70) = 2
<1>1. Len(WordProgram) = 71
  BY DEF WordProgram, Words
<1>2. \A i \in 1 .. 71 : Code(i - 1) = WordProgram[i]
  <2>. HIDE DEF WordProgram
  <2>. QED
    BY <1>1 DEF Holds, Code
<1>3. Code(0) = WordProgram[1] /\ Code(35) = WordProgram[36] /\ Code(70) = WordProgram[71]
  BY <1>2
<1>4. WordProgram[1] = 216 /\ WordProgram[36] = 248 /\ WordProgram[71] = 2
  BY DEF WordProgram, Words
<1>5. Block(1, 24, 101, 20)
  <2>1. \A i \in 1 .. 17 : WordProgram[1 + i] = Words(24, 101, 20)[i]
    BY DEF WordProgram, Words
  <2>2. \A i \in 1 .. 17 : Code(i) = Words(24, 101, 20)[i]
    BY <1>2, <2>1
  <2>. QED
    BY <2>2 DEF Block, Words
<1>6. Block(18, 56, 229, 24)
  <2>1. \A i \in 1 .. 17 : WordProgram[18 + i] = Words(56, 229, 24)[i]
    BY DEF WordProgram, Words
  <2>2. \A i \in 1 .. 17 : Code(17 + i) = Words(56, 229, 24)[i]
    BY <1>2, <2>1
  <2>. QED
    BY <2>2 DEF Block, Words
<1>7. Block(36, 24, 101, 28)
  <2>1. \A i \in 1 .. 17 : WordProgram[36 + i] = Words(24, 101, 28)[i]
    BY DEF WordProgram, Words
  <2>2. \A i \in 1 .. 17 : Code(35 + i) = Words(24, 101, 28)[i]
    BY <1>2, <2>1
  <2>. QED
    BY <2>2 DEF Block, Words
<1>8. Block(53, 56, 229, 32)
  <2>1. \A i \in 1 .. 17 : WordProgram[53 + i] = Words(56, 229, 32)[i]
    BY DEF WordProgram, Words
  <2>2. \A i \in 1 .. 17 : Code(52 + i) = Words(56, 229, 32)[i]
    BY <1>2, <2>1
  <2>. QED
    BY <2>2 DEF Block, Words
<1>. QED
  BY <1>3, <1>4, <1>5, <1>6, <1>7, <1>8

\* A byte is one of n numbers: two digits when n is 100.
Num(n, x)   == IF n = 100 THEN Tens(x) ELSE x
Valid(n, x) == n = 100 => Two(x)
InMode(n)   == F_DECIMAL \in iStatus <=> n = 100

\* ADC adds i and the carry, SBC subtracts i and the missing carry.
Term(op, i)  == IF op = 101 THEN i ELSE 0 - i
Extra(op, S) == IF op = 101 THEN Carry(S) ELSE Carry(S) - 1

LEMMA Nums ==
  ASSUME NEW n \in {100, 256}, NEW x \in Byte, Valid(n, x)
  PROVE  Num(n, x) \in Int /\ 0 <= Num(n, x) /\ Num(n, x) < n
<1>1. CASE n = 256
  BY <1>1 DEF Num, Byte
<1>2. CASE n = 100
  <2>1. x % 16 \in 0 .. 9 /\ x \div 16 \in 0 .. 9
    BY <1>2 DEF Valid, Two, Byte
  <2>2. Tens(x) \in Int /\ 0 <= Tens(x) /\ Tens(x) < 100
    BY <2>1 DEF Tens
  <2>. QED
    BY <1>2, <2>2 DEF Num
<1>. QED
  BY <1>1, <1>2

LEMMA Extras ==
  ASSUME NEW S
  PROVE  /\ Extra(101, S) = Carry(S) /\ Extra(229, S) = Carry(S) - 1
         /\ \A op : Extra(op, S) \in Int /\ Extra(op, S) \in -1 .. 1
         /\ Carry(S) \in {0, 1} /\ Carry(S) \in Int
  BY CarryType DEF Extra

LEMMA NumberTypes ==
  ASSUME NEW x \in Byte
  PROVE  x \in Int /\ Tens(x) \in Int /\ Signed(x) \in Int
  BY DEF Byte, Tens, Signed

\* A borrow is an extra of -1.
LEMMA BorrowIsExtra ==
  ASSUME NEW v \in Int, NEW a \in Int, NEW b \in Int, NEW c \in Int, NEW d \in Int, NEW n \in Int
  PROVE  /\ v - n * (1 - d) = a - b - (1 - c) <=> v + n * (d - 1) = a + (0 - b) + (c - 1)
         /\ a - b - (1 - c) = a + (0 - b) + (c - 1)
  OBVIOUS

LEMMA OperationAt ==
  ASSUME Inv, Instruction, NEW o \in Int, 0 <= o, o < 128, AtCode(o),
         NEW n \in {100, 256}, InMode(n), NEW op \in {101, 229}, Code(o) = op,
         NEW b, b = Cell(Code(o + 1))
  PROVE  /\ Valid(n, iAccumulator) /\ Valid(n, b) =>
              /\ Valid(n, iAccumulator')
              /\ Num(n, iAccumulator') + n * Extra(op, iStatus')
                   = Num(n, iAccumulator) + Term(op, Num(n, b)) + Extra(op, iStatus)
         /\ n = 256 => (F_OVERFLOW \in iStatus' <=>
              Signed(iAccumulator) + Term(op, Signed(b)) + Extra(op, iStatus) \notin -128 .. 127)
         /\ F_NEGATIVE \in iStatus' <=> iAccumulator' >= 128
         /\ To(o + 2) /\ SameMode /\ UNCHANGED <<iXIndex, iStackPointer, aBytes>>
<1>. DEFINE a == iAccumulator
<1>1. a \in Byte /\ b \in Byte
  BY Registers, CellType
<1>2. CASE op = 101
  <2>. DEFINE r == addByteWithCarry(iStatus, a, b)
  <2>1. /\ iAccumulator' = r.iValue /\ iStatus' = r.iStatus
        /\ To(o + 2) /\ SameMode /\ UNCHANGED <<iXIndex, iStackPointer, aBytes>>
    BY <1>2, AluAt
  <2>2. F_NEGATIVE \in r.iStatus <=> r.iValue >= 128
    BY SignOfResult
  <2>3. CASE n = 256
    <3>1. /\ r.iValue + 256 * Carry(r.iStatus) = a + b + Carry(iStatus)
          /\ F_OVERFLOW \in r.iStatus
               <=> Signed(a) + Signed(b) + Carry(iStatus) \notin -128 .. 127
      BY <1>1, <2>3, AddBinary DEF InMode
    <3>. HIDE DEF r
    <3>. QED
      BY <1>2, <2>1, <2>2, <2>3, <3>1, Extras DEF Num, Valid, Term
  <2>4. CASE n = 100
    <3>1. Two(a) /\ Two(b) =>
            /\ Two(r.iValue)
            /\ Tens(r.iValue) + 100 * Carry(r.iStatus) = Tens(a) + Tens(b) + Carry(iStatus)
      BY <1>1, <2>4, AddDecimal DEF InMode
    <3>. HIDE DEF r
    <3>. QED
      BY <1>2, <2>1, <2>2, <2>4, <3>1, Extras DEF Num, Valid, Term
  <2>. QED
    BY <2>3, <2>4
<1>3. CASE op = 229
  <2>. DEFINE r == subByteWithCarry(iStatus, a, b)
  <2>1. /\ iAccumulator' = r.iValue /\ iStatus' = r.iStatus
        /\ To(o + 2) /\ SameMode /\ UNCHANGED <<iXIndex, iStackPointer, aBytes>>
    BY <1>3, AluAt
  <2>2. F_NEGATIVE \in r.iStatus <=> r.iValue >= 128
    BY SignOfResult
  <2>3. CASE n = 256
    <3>1. /\ r.iValue - 256 * (1 - Carry(r.iStatus)) = a - b - (1 - Carry(iStatus))
          /\ F_OVERFLOW \in r.iStatus
               <=> Signed(a) - Signed(b) - (1 - Carry(iStatus)) \notin -128 .. 127
      BY <1>1, <2>3, SubBinary DEF InMode
    <3>2. r.iValue \in Byte /\ Carry(r.iStatus) \in Int /\ Carry(iStatus) \in Int
      <4>1. IsResult(r)
        BY <1>1, Registers, SubType
      <4>. QED
        BY <4>1, Extras DEF IsResult
    <3>. HIDE DEF r
    <3>3. /\ r.iValue + 256 * (Carry(r.iStatus) - 1) = a + (0 - b) + (Carry(iStatus) - 1)
          /\ F_OVERFLOW \in r.iStatus
               <=> Signed(a) + (0 - Signed(b)) + (Carry(iStatus) - 1) \notin -128 .. 127
      BY <1>1, <3>1, <3>2, NumberTypes, BorrowIsExtra
    <3>. QED
      BY <1>3, <2>1, <2>2, <2>3, <3>3, Extras DEF Num, Valid, Term
  <2>4. CASE n = 100
    <3>1. Two(a) /\ Two(b) =>
            /\ Two(r.iValue)
            /\ Tens(r.iValue) - 100 * (1 - Carry(r.iStatus))
                 = Tens(a) - Tens(b) - (1 - Carry(iStatus))
      BY <1>1, <2>4, SubDecimal DEF InMode
    <3>2. r.iValue \in Byte /\ Carry(r.iStatus) \in Int /\ Carry(iStatus) \in Int
      <4>1. IsResult(r)
        BY <1>1, Registers, SubType
      <4>. QED
        BY <4>1, Extras DEF IsResult
    <3>. HIDE DEF r
    <3>3. Two(a) /\ Two(b) =>
            /\ Two(r.iValue)
            /\ Tens(r.iValue) + 100 * (Carry(r.iStatus) - 1)
                 = Tens(a) + (0 - Tens(b)) + (Carry(iStatus) - 1)
      BY <1>1, <3>1, <3>2, NumberTypes, BorrowIsExtra
    <3>. QED
      BY <1>3, <2>1, <2>2, <2>4, <3>3, Extras DEF Num, Valid, Term
  <2>. QED
    BY <2>3, <2>4
<1>. QED
  BY <1>2, <1>3

-----------------------------------------------------------------------------
(***************************************************************************)
(* One sum or difference.  w holds the operands' bytes: a word in w[1] and *)
(* w[2], and one in w[3] and w[4].                                         *)
(***************************************************************************)
Given == <<Cell(16), Cell(17), Cell(18), Cell(19)>>

Ready(n, w) == Valid(n, w[1]) /\ Valid(n, w[2]) /\ Valid(n, w[3]) /\ Valid(n, w[4])

Wide(l, h) == l + 256 * Signed(h)

\* x is the low byte of the result, and S the flags its computation left.
LowIs(n, op, w, x, S) ==
  /\ x \in Byte
  /\ Ready(n, w) => /\ Valid(n, x)
                    /\ Num(n, x) + n * Extra(op, S) = Num(n, w[1]) + Term(op, Num(n, w[3]))

\* The result, whose carry or borrow is e.
WordIs(n, op, w, lo, hi, e) ==
  Ready(n, w) =>
    /\ Valid(n, lo) /\ Valid(n, hi)
    /\ Num(n, lo) + n * Num(n, hi) + n * n * e
         = Num(n, w[1]) + n * Num(n, w[2]) + Term(op, Num(n, w[3]) + n * Num(n, w[4]))

\* The signed result has no representation in a word.
Overflows(op, w) == TooWide(Wide(w[1], w[2]) + Term(op, Wide(w[3], w[4])))

ResultIs(n, op, w, lo, hi, S) ==
  /\ lo \in Byte /\ hi \in Byte
  /\ WordIs(n, op, w, lo, hi, Extra(op, S))
  /\ n = 256 => /\ F_OVERFLOW \in S <=> Overflows(op, w)
                /\ F_NEGATIVE \in S <=> hi >= 128

\* What the addition of bytes does, from the flags S to the flags T.
ByteIs(n, op, a, b, x, S, T) ==
  /\ x \in Byte
  /\ Valid(n, a) /\ Valid(n, b) =>
       /\ Valid(n, x)
       /\ Num(n, x) + n * Extra(op, T) = Num(n, a) + Term(op, Num(n, b)) + Extra(op, S)
  /\ n = 256 => (F_OVERFLOW \in T <=>
       Signed(a) + Term(op, Signed(b)) + Extra(op, S) \notin -128 .. 127)
  /\ F_NEGATIVE \in T <=> x >= 128

LEMMA LowResult ==
  ASSUME NEW n \in {100, 256}, NEW op \in {101, 229}, NEW w, w[1] \in Byte, w[3] \in Byte,
         NEW S, NEW T, NEW x, ByteIs(n, op, w[1], w[3], x, S, T), Extra(op, S) = 0
  PROVE  LowIs(n, op, w, x, T)
<1>1. ASSUME Ready(n, w)
      PROVE  /\ Valid(n, x)
             /\ Num(n, x) + n * Extra(op, T) = Num(n, w[1]) + Term(op, Num(n, w[3]))
  <2>1. Valid(n, w[1]) /\ Valid(n, w[3])
    BY <1>1 DEF Ready
  <2>2. Num(n, w[1]) \in Int /\ Num(n, w[3]) \in Int
    BY <2>1, Nums
  <2>3. Term(op, Num(n, w[3])) \in Int
    BY <2>2 DEF Term
  <2>. QED
    BY <2>1, <2>2, <2>3 DEF ByteIs
<1>. QED
  BY <1>1 DEF LowIs, ByteIs

LEMMA WideRange ==
  ASSUME NEW x \in Int, 0 <= x, x < 256, NEW z \in Int
  PROVE  x + 256 * z < -32768 \/ x + 256 * z > 32767 <=> z \notin -128 .. 127
<1>1. CASE z >= 128
  <2>1. x + 256 * z >= 32768
    BY <1>1
  <2>. QED
    BY <1>1, <2>1
<1>2. CASE z <= -129
  <2>1. x + 256 * z <= -32769
    BY <1>2
  <2>. QED
    BY <1>2, <2>1
<1>3. CASE -128 <= z /\ z <= 127
  <2>1. -32768 <= x + 256 * z /\ x + 256 * z <= 32767
    BY <1>3
  <2>. QED
    BY <1>3, <2>1
<1>. QED
  BY <1>1, <1>2, <1>3

LEMMA HighResult ==
  ASSUME NEW n \in {100, 256}, NEW op \in {101, 229}, NEW w,
         w[1] \in Byte, w[2] \in Byte, w[3] \in Byte, w[4] \in Byte,
         NEW S, NEW T, NEW lo, NEW hi, LowIs(n, op, w, lo, S), ByteIs(n, op, w[2], w[4], hi, S, T)
  PROVE  ResultIs(n, op, w, lo, hi, T)
<1>0. PICK e \in Int, f \in Int : e = Extra(op, S) /\ f = Extra(op, T)
  BY Extras
<1>1. ASSUME Ready(n, w)
      PROVE  WordIs(n, op, w, lo, hi, Extra(op, T))
  <2>1. /\ Valid(n, w[1]) /\ Valid(n, w[2]) /\ Valid(n, w[3]) /\ Valid(n, w[4])
        /\ Valid(n, lo) /\ Valid(n, hi) /\ lo \in Byte /\ hi \in Byte
    BY <1>1 DEF Ready, LowIs, ByteIs
  <2>0. /\ Num(n, w[1]) \in Int /\ Num(n, w[2]) \in Int /\ Num(n, w[3]) \in Int
        /\ Num(n, w[4]) \in Int /\ Num(n, lo) \in Int /\ Num(n, hi) \in Int
    BY <2>1, Nums
  <2>2. PICK a \in Int, b \in Int, c \in Int, d \in Int, x \in Int, y \in Int :
          /\ a = Num(n, w[1]) /\ b = Num(n, w[2]) /\ c = Num(n, w[3]) /\ d = Num(n, w[4])
          /\ x = Num(n, lo) /\ y = Num(n, hi)
    BY <2>0
  <2>3. x + n * e = a + Term(op, c)
    BY <1>0, <1>1, <2>2 DEF LowIs
  <2>4. y + n * f = b + Term(op, d) + e
    BY <1>0, <2>1, <2>2 DEF ByteIs
  <2>5. x + n * y + n * n * f = a + n * b + Term(op, c + n * d)
    <3>1. CASE n = 100
      BY <2>3, <2>4, <3>1 DEF Term
    <3>2. CASE n = 256
      BY <2>3, <2>4, <3>2 DEF Term
    <3>. QED
      BY <3>1, <3>2
  <2>. QED
    BY <1>0, <2>1, <2>2, <2>5 DEF WordIs
<1>2. ASSUME n = 256
      PROVE  F_OVERFLOW \in T <=> Overflows(op, w)
  <2>1. Ready(n, w)
    BY <1>2 DEF Ready, Valid
  <2>2. PICK a \in Byte, c \in Byte, x \in Byte, b \in Int, d \in Int :
          a = w[1] /\ c = w[3] /\ x = lo /\ b = Signed(w[2]) /\ d = Signed(w[4])
    BY NumberTypes DEF LowIs
  <2>3. x + 256 * e = a + Term(op, c)
    BY <1>0, <1>2, <2>1, <2>2 DEF LowIs, Num
  <2>4. F_OVERFLOW \in T <=> b + Term(op, d) + e \notin -128 .. 127
    BY <1>0, <1>2, <2>2 DEF ByteIs
  <2>5. PICK z \in Int : z = b + Term(op, d) + e
    BY DEF Term
  <2>6. a + 256 * b + Term(op, c + 256 * d) = x + 256 * z
    BY <2>3, <2>5 DEF Term, Byte
  <2>7. x + 256 * z < -32768 \/ x + 256 * z > 32767 <=> z \notin -128 .. 127
    <3>1. x \in Int /\ 0 <= x /\ x < 256
      BY DEF Byte
    <3>. QED
      BY <3>1, WideRange
  <2>8. Wide(w[1], w[2]) = a + 256 * b /\ Wide(w[3], w[4]) = c + 256 * d
    BY <2>2 DEF Wide
  <2>. QED
    BY <2>4, <2>5, <2>6, <2>7, <2>8 DEF Overflows, TooWide
<1>3. WordIs(n, op, w, lo, hi, Extra(op, T))
  BY <1>1 DEF WordIs
<1>. QED
  BY <1>2, <1>3 DEF ResultIs, LowIs, ByteIs

\* The flags on the stack, in the accumulator and in memory.
LEMMA FlagsSaved ==
  ASSUME Inv
  PROVE  \A n, op, w, lo, hi : ResultIs(n, op, w, lo, hi, iStatus)
                                 => ResultIs(n, op, w, lo, hi, Bits(PushedStatus))
<1>1. iStatus \cup {F_BREAK, F_UNUSED} \in SUBSET Flag
  BY RealFlags, Registers DEF Flag
<1>2. Bits(PushedStatus) = iStatus \cup {F_BREAK, F_UNUSED}
  BY <1>1, BitsOfByte DEF PushedStatus
<1>3. /\ F_CARRY \in Bits(PushedStatus) <=> F_CARRY \in iStatus
      /\ F_OVERFLOW \in Bits(PushedStatus) <=> F_OVERFLOW \in iStatus
      /\ F_NEGATIVE \in Bits(PushedStatus) <=> F_NEGATIVE \in iStatus
  BY <1>2 DEF F_CARRY, F_OVERFLOW, F_NEGATIVE, F_BREAK, F_UNUSED
<1>4. \A op : Extra(op, Bits(PushedStatus)) = Extra(op, iStatus)
  BY <1>3 DEF Extra, Carry
<1>5. ASSUME NEW S, NEW T, F_OVERFLOW \in T <=> F_OVERFLOW \in S,
             F_NEGATIVE \in T <=> F_NEGATIVE \in S,
             NEW op, Extra(op, T) = Extra(op, S),
             NEW n, NEW w, NEW lo, NEW hi, ResultIs(n, op, w, lo, hi, S)
      PROVE  ResultIs(n, op, w, lo, hi, T)
  BY <1>5 DEF ResultIs
<1>. QED
  BY <1>3, <1>4, <1>5

-----------------------------------------------------------------------------
(***************************************************************************)
(* The block of a sum or difference, instruction by instruction.           *)
(***************************************************************************)
InBlock(b, n, op, r) ==
  \/ AtCode(b)
  \/ AtCode(b + 1) /\ Extra(op, iStatus) = 0
  \/ AtCode(b + 3) /\ Extra(op, iStatus) = 0 /\ iAccumulator = Cell(16)
  \/ AtCode(b + 5) /\ LowIs(n, op, Given, iAccumulator, iStatus)
  \/ AtCode(b + 7) /\ LowIs(n, op, Given, Cell(r), iStatus)
  \/ AtCode(b + 9) /\ LowIs(n, op, Given, Cell(r), iStatus) /\ iAccumulator = Cell(17)
  \/ AtCode(b + 11) /\ ResultIs(n, op, Given, Cell(r), iAccumulator, iStatus)
  \/ AtCode(b + 13) /\ ResultIs(n, op, Given, Cell(r), Cell(r + 1), iStatus)
  \/ AtCode(b + 14) /\ ResultIs(n, op, Given, Cell(r), Cell(r + 1), Bits(pull(1)))
  \/ AtCode(b + 15) /\ ResultIs(n, op, Given, Cell(r), Cell(r + 1), Bits(iAccumulator))

\* The result is in memory, with its flags.
Done(n, op, r) == ResultIs(n, op, Given, Cell(r), Cell(r + 1), Bits(Cell(r + 2)))

\* A step that leaves the cells below k in page zero as they are.
KeptBelow(k) == \A c \in 0 .. 255 : c < k => Cell(c)' = Cell(c)

LEMMA BelowKept ==
  ASSUME NEW r \in Int, 20 <= r, r < 40
  PROVE  /\ UNCHANGED aBytes => Kept /\ Given' = Given /\ KeptBelow(r) /\ Cell(r)' = Cell(r)
                                /\ Cell(r + 1)' = Cell(r + 1)
         /\ \A v : Stored(r, v) => Kept /\ Given' = Given /\ KeptBelow(r) /\ Cell(r)' = v
         /\ \A v : Stored(r + 1, v) => Kept /\ Given' = Given /\ KeptBelow(r) /\ Cell(r)' = Cell(r)
                                       /\ Cell(r + 1)' = v
         /\ \A v : Stored(r + 2, v) => Kept /\ Given' = Given /\ KeptBelow(r) /\ Cell(r)' = Cell(r)
                                       /\ Cell(r + 1)' = Cell(r + 1) /\ Cell(r + 2)' = v
<1>2. ASSUME KeptBelow(r) PROVE Given' = Given
  <2>1. \A c \in {16, 17, 18, 19} : c \in 0 .. 255 /\ c < r
    OBVIOUS
  <2>2. \A c \in {16, 17, 18, 19} : Cell(c)' = Cell(c)
    BY <1>2, <2>1 DEF KeptBelow
  <2>. QED
    BY <2>2 DEF Given
<1>3. UNCHANGED aBytes => /\ Kept /\ KeptBelow(r) /\ Cell(r)' = Cell(r)
                          /\ Cell(r + 1)' = Cell(r + 1)
  BY SameCells DEF KeptBelow
<1>4. ASSUME NEW s \in Int, r <= s, s < 50, NEW v, Stored(s, v)
      PROVE  Kept /\ KeptBelow(r) /\ Cell(s)' = v
             /\ \A c \in 0 .. 255 : c # s => Cell(c)' = Cell(c)
  <2>1. s \in 1 .. 255
    BY <1>4
  <2>2. Kept /\ Cell(s)' = v /\ \A c \in 0 .. 255 : c # s => Cell(c)' = Cell(c)
    BY <1>4, <2>1, SameCells
  <2>3. \A c \in 0 .. 255 : c < r => c # s
    BY <1>4
  <2>. QED
    BY <2>2, <2>3 DEF KeptBelow
<1>5. PICK s \in Int, t \in Int :
        s = r + 1 /\ t = r + 2 /\ s \in 0 .. 255 /\ r \in 0 .. 255 /\ t \in 0 .. 255
  OBVIOUS
<1>6. ASSUME NEW v, Stored(r, v)
      PROVE  Kept /\ Given' = Given /\ KeptBelow(r) /\ Cell(r)' = v
  BY <1>2, <1>4, <1>6
<1>7. ASSUME NEW v, Stored(s, v)
      PROVE  Kept /\ Given' = Given /\ KeptBelow(r) /\ Cell(r)' = Cell(r) /\ Cell(s)' = v
  BY <1>2, <1>4, <1>5, <1>7
<1>8. ASSUME NEW v, Stored(t, v)
      PROVE  /\ Kept /\ Given' = Given /\ KeptBelow(r) /\ Cell(r)' = Cell(r)
             /\ Cell(s)' = Cell(s) /\ Cell(t)' = v
  BY <1>2, <1>4, <1>5, <1>8
<1>. QED
  BY <1>2, <1>3, <1>5, <1>6, <1>7, <1>8

\* What is pushed is pulled.
LEMMA PushedPulled ==
  ASSUME Inv, NEW v, Stored(STACK_BASE + iStackPointer, v),
         iStackPointer' = (iStackPointer - 1) % 256
  PROVE  /\ pull(1)' = v /\ Kept /\ Given' = Given
         /\ \A c \in 0 .. 255 : Cell(c)' = Cell(c)
<1>1. PICK s \in Int : s = iStackPointer /\ 0 <= s /\ s < 256
  BY Registers DEF Byte
<1>2. PICK c \in Int : c = STACK_BASE + s /\ 256 <= c /\ c < 512
  BY <1>1 DEF STACK_BASE
<1>3. Stored(c, v)
  BY <1>1, <1>2
<1>4. c \in 1 .. 511 /\ c \in 0 .. 511
  BY <1>2
<1>5. Kept /\ c \in Address
  <2>1. c \in Address
    BY <1>4, LowCells
  <2>. QED
    BY <1>3, <1>4, <2>1, KeptCells
<1>6. \A a \in 0 .. 255 : Cell(a)' = Cell(a)
  BY <1>2, <1>3, PageZero DEF Stored
<1>7. pull(1)' = v
  <2>1. (iStackPointer' + 1) % 256 = s
    <3>1. (s - 1) % 256 = IF s = 0 THEN 255 ELSE s - 1
      BY <1>1
    <3>. QED
      BY <1>1, <3>1
  <2>2. Cell(c)' = v
    BY <1>3, <1>5 DEF Stored
  <2>. QED
    BY <1>2, <2>1, <2>2 DEF pull, Cell
<1>. QED
  BY <1>5, <1>6, <1>7 DEF Given

LEMMA OperationIs ==
  ASSUME Inv, Instruction, NEW o \in Int, 0 <= o, o < 128, AtCode(o),
         NEW n \in {100, 256}, InMode(n), NEW op \in {101, 229}, Code(o) = op,
         NEW b, b = Cell(Code(o + 1))
  PROVE  /\ ByteIs(n, op, iAccumulator, b, iAccumulator', iStatus, iStatus')
         /\ To(o + 2) /\ SameMode /\ UNCHANGED <<iXIndex, iStackPointer, aBytes>>
<1>1. iAccumulator' \in Byte
  BY InstructionStep DEF Inv, MachineOK
<1>2. /\ Valid(n, iAccumulator) /\ Valid(n, b) =>
           /\ Valid(n, iAccumulator')
           /\ Num(n, iAccumulator') + n * Extra(op, iStatus')
                = Num(n, iAccumulator) + Term(op, Num(n, b)) + Extra(op, iStatus)
      /\ n = 256 => (F_OVERFLOW \in iStatus' <=>
           Signed(iAccumulator) + Term(op, Signed(b)) + Extra(op, iStatus) \notin -128 .. 127)
      /\ F_NEGATIVE \in iStatus' <=> iAccumulator' >= 128
  BY OperationAt
<1>3. ByteIs(n, op, iAccumulator, b, iAccumulator', iStatus, iStatus')
  BY <1>1, <1>2 DEF ByteIs
<1>. QED
  BY <1>3, OperationAt

LEMMA LowKept ==
  ASSUME NEW S, NEW T, F_CARRY \in T <=> F_CARRY \in S
  PROVE  \A n, op, w, x : /\ Extra(op, T) = Extra(op, S)
                          /\ LowIs(n, op, w, x, S) => LowIs(n, op, w, x, T)
<1>1. Carry(T) = Carry(S)
  BY DEF Carry
<1>2. \A op : Extra(op, T) = Extra(op, S)
  BY <1>1 DEF Extra
<1>. QED
  BY <1>2 DEF LowIs

LEMMA GivenBytes ==
  ASSUME Inv
  PROVE  /\ Given[1] = Cell(16) /\ Given[2] = Cell(17) /\ Given[3] = Cell(18) /\ Given[4] = Cell(19)
         /\ Given[1] \in Byte /\ Given[2] \in Byte /\ Given[3] \in Byte /\ Given[4] \in Byte
  BY CellType DEF Given

\* The flag instruction that prepares a sum or a difference.
Prepares(prepare, op) == (prepare = 24 /\ op = 101) \/ (prepare = 56 /\ op = 229)

\* A step of a block leads to the next of its instructions, or to its end.
BlockStep(b, n, op, r) ==
  /\ Kept /\ SameMode /\ KeptBelow(r)
  /\ InBlock(b, n, op, r)' \/ (To(b + 17) /\ Done(n, op, r)')

LEMMA BlockNext ==
  ASSUME Inv, Instruction, NEW n \in {100, 256}, InMode(n),
         NEW op \in {101, 229}, NEW prepare, Prepares(prepare, op),
         NEW b \in Int, 1 <= b, b <= 53, NEW r \in Int, 20 <= r, r < 40,
         Block(b, prepare, op, r), InBlock(b, n, op, r)
  PROVE  BlockStep(b, n, op, r)
<1>. DEFINE w == Given
<1>. USE BelowKept
<1>1. CASE AtCode(b)
  <2>1. (Code(b) = 24 /\ op = 101) \/ (Code(b) = 56 /\ op = 229)
    BY DEF Block, Prepares
  <2>2. /\ To(b + 1) /\ SameMode /\ UNCHANGED aBytes
        /\ Code(b) = 24 => F_CARRY \notin iStatus'
        /\ Code(b) = 56 => F_CARRY \in iStatus'
    BY <1>1, <2>1, SetsFlagAt
  <2>3. Extra(op, iStatus') = 0
    BY <2>1, <2>2 DEF Extra, Carry
  <2>4. (AtCode(b + 1) /\ Extra(op, iStatus) = 0)'
    BY <2>2, <2>3 DEF To, AtCode
  <2>9. InBlock(b, n, op, r)'
    BY <2>4, Zenon DEF InBlock
  <2>. QED
    BY <2>2, <2>9 DEF BlockStep
<1>2. CASE AtCode(b + 1) /\ Extra(op, iStatus) = 0
  <2>0. PICK o \in Int : o = b + 1 /\ o + 1 = b + 2 /\ o + 2 = b + 3 /\ 0 <= o /\ o < 128
    OBVIOUS
  <2>1. Code(o) = 165 /\ Code(o + 1) = 16 /\ AtCode(o)
    BY <1>2, <2>0 DEF Block
  <2>2. To(o + 2) /\ iAccumulator' = Cell(16) /\ SameCarry /\ SameMode /\ UNCHANGED aBytes
    BY <2>0, <2>1, LoadsAt
  <2>3. Cell(16)' = Cell(16)
    BY <2>2, SameCells
  <2>4. Extra(op, iStatus') = 0
    BY <1>2, <2>2, LowKept DEF SameCarry
  <2>5. (AtCode(b + 3) /\ Extra(op, iStatus) = 0 /\ iAccumulator = Cell(16))'
    BY <2>0, <2>2, <2>3, <2>4 DEF To, AtCode
  <2>9. InBlock(b, n, op, r)'
    BY <2>5, Zenon DEF InBlock
  <2>. QED
    BY <2>2, <2>9 DEF BlockStep
<1>3. CASE AtCode(b + 3) /\ Extra(op, iStatus) = 0 /\ iAccumulator = Cell(16)
  <2>0. PICK o \in Int : o = b + 3 /\ o + 1 = b + 4 /\ o + 2 = b + 5 /\ 0 <= o /\ o < 128
    OBVIOUS
  <2>1. Code(o) = op /\ Code(o + 1) = 18 /\ AtCode(o)
    BY <1>3, <2>0 DEF Block
  <2>2. /\ ByteIs(n, op, iAccumulator, Cell(18), iAccumulator', iStatus, iStatus')
        /\ To(o + 2) /\ SameMode /\ UNCHANGED aBytes
    BY <2>0, <2>1, OperationIs
  <2>3. LowIs(n, op, w, iAccumulator', iStatus')
    BY <1>3, <2>2, GivenBytes, LowResult
  <2>4. (AtCode(b + 5) /\ LowIs(n, op, Given, iAccumulator, iStatus))'
    BY <2>0, <2>2, <2>3 DEF To, AtCode
  <2>9. InBlock(b, n, op, r)'
    BY <2>4, Zenon DEF InBlock
  <2>. QED
    BY <2>2, <2>9 DEF BlockStep
<1>4. CASE AtCode(b + 5) /\ LowIs(n, op, Given, iAccumulator, iStatus)
  <2>0. PICK o \in Int : o = b + 5 /\ o + 1 = b + 6 /\ o + 2 = b + 7 /\ 0 <= o /\ o < 128
    OBVIOUS
  <2>1. Code(o) = 133 /\ Code(o + 1) = r /\ AtCode(o)
    BY <1>4, <2>0 DEF Block
  <2>2. Stored(r, iAccumulator) /\ To(o + 2) /\ UNCHANGED iStatus
    BY <2>0, <2>1, StoresAt
  <2>3. (AtCode(b + 7) /\ LowIs(n, op, Given, Cell(r), iStatus))'
    BY <1>4, <2>0, <2>2 DEF To, AtCode
  <2>9. InBlock(b, n, op, r)'
    BY <2>3, Zenon DEF InBlock
  <2>. QED
    BY <2>2, <2>9 DEF BlockStep, SameMode
<1>5. CASE AtCode(b + 7) /\ LowIs(n, op, Given, Cell(r), iStatus)
  <2>0. PICK o \in Int : o = b + 7 /\ o + 1 = b + 8 /\ o + 2 = b + 9 /\ 0 <= o /\ o < 128
    OBVIOUS
  <2>1. Code(o) = 165 /\ Code(o + 1) = 17 /\ AtCode(o)
    BY <1>5, <2>0 DEF Block
  <2>2. To(o + 2) /\ iAccumulator' = Cell(17) /\ SameCarry /\ SameMode /\ UNCHANGED aBytes
    BY <2>0, <2>1, LoadsAt
  <2>3. Cell(17)' = Cell(17)
    BY <2>2, SameCells
  <2>5. F_CARRY \in iStatus' <=> F_CARRY \in iStatus
    BY <2>2 DEF SameCarry
  <2>6. LowIs(n, op, Given, Cell(r), iStatus')
    BY <1>5, <2>5, LowKept
  <2>4. (AtCode(b + 9) /\ LowIs(n, op, Given, Cell(r), iStatus) /\ iAccumulator = Cell(17))'
    BY <2>0, <2>2, <2>3, <2>6 DEF To, AtCode
  <2>9. InBlock(b, n, op, r)'
    BY <2>4, Zenon DEF InBlock
  <2>. QED
    BY <2>2, <2>9 DEF BlockStep
<1>6. CASE AtCode(b + 9) /\ LowIs(n, op, Given, Cell(r), iStatus) /\ iAccumulator = Cell(17)
  <2>0. PICK o \in Int : o = b + 9 /\ o + 1 = b + 10 /\ o + 2 = b + 11 /\ 0 <= o /\ o < 128
    OBVIOUS
  <2>1. Code(o) = op /\ Code(o + 1) = 19 /\ AtCode(o)
    BY <1>6, <2>0 DEF Block
  <2>2. /\ ByteIs(n, op, iAccumulator, Cell(19), iAccumulator', iStatus, iStatus')
        /\ To(o + 2) /\ SameMode /\ UNCHANGED aBytes
    BY <2>0, <2>1, OperationIs
  <2>3. ResultIs(n, op, w, Cell(r), iAccumulator', iStatus')
    BY <1>6, <2>2, GivenBytes, HighResult
  <2>4. (AtCode(b + 11) /\ ResultIs(n, op, Given, Cell(r), iAccumulator, iStatus))'
    BY <2>0, <2>2, <2>3 DEF To, AtCode
  <2>9. InBlock(b, n, op, r)'
    BY <2>4, Zenon DEF InBlock
  <2>. QED
    BY <2>2, <2>9 DEF BlockStep
<1>7. CASE AtCode(b + 11) /\ ResultIs(n, op, Given, Cell(r), iAccumulator, iStatus)
  <2>0. PICK o \in Int : o = b + 11 /\ o + 1 = b + 12 /\ o + 2 = b + 13 /\ 0 <= o /\ o < 128
    OBVIOUS
  <2>1. Code(o) = 133 /\ Code(o + 1) = r + 1 /\ AtCode(o)
    BY <1>7, <2>0 DEF Block
  <2>2. Stored(r + 1, iAccumulator) /\ To(o + 2) /\ UNCHANGED iStatus
    BY <2>0, <2>1, StoresAt
  <2>3. (AtCode(b + 13) /\ ResultIs(n, op, Given, Cell(r), Cell(r + 1), iStatus))'
    BY <1>7, <2>0, <2>2 DEF To, AtCode
  <2>9. InBlock(b, n, op, r)'
    BY <2>3, Zenon DEF InBlock
  <2>. QED
    BY <2>2, <2>9 DEF BlockStep, SameMode
<1>8. CASE AtCode(b + 13) /\ ResultIs(n, op, Given, Cell(r), Cell(r + 1), iStatus)
  <2>0. PICK o \in Int : o = b + 13 /\ o + 1 = b + 14 /\ 0 <= o /\ o < 128
    OBVIOUS
  <2>1. Code(o) = 8 /\ AtCode(o)
    BY <1>8, <2>0 DEF Block
  <2>2. /\ Stored(STACK_BASE + iStackPointer, PushedStatus)
        /\ iStackPointer' = (iStackPointer - 1) % 256
        /\ To(o + 1) /\ UNCHANGED iStatus
    BY <2>0, <2>1, StackAt
  <2>3. /\ pull(1)' = PushedStatus /\ Kept /\ Given' = Given
        /\ \A c \in 0 .. 255 : Cell(c)' = Cell(c)
    BY <2>2, PushedPulled
  <2>4. KeptBelow(r) /\ Cell(r)' = Cell(r) /\ Cell(r + 1)' = Cell(r + 1)
    BY <2>3 DEF KeptBelow
  <2>5. ResultIs(n, op, Given, Cell(r), Cell(r + 1), Bits(PushedStatus))
    BY <1>8, FlagsSaved
  <2>6. (AtCode(b + 14) /\ ResultIs(n, op, Given, Cell(r), Cell(r + 1), Bits(pull(1))))'
    BY <2>0, <2>2, <2>3, <2>4, <2>5 DEF To, AtCode
  <2>9. InBlock(b, n, op, r)'
    BY <2>6, Zenon DEF InBlock
  <2>. QED
    BY <2>2, <2>3, <2>4, <2>9 DEF BlockStep, SameMode
<1>9. CASE AtCode(b + 14) /\ ResultIs(n, op, Given, Cell(r), Cell(r + 1), Bits(pull(1)))
  <2>0. PICK o \in Int : o = b + 14 /\ o + 1 = b + 15 /\ 0 <= o /\ o < 128
    OBVIOUS
  <2>1. Code(o) = 104 /\ AtCode(o)
    BY <1>9, <2>0 DEF Block
  <2>2. iAccumulator' = pull(1) /\ To(o + 1) /\ SameMode /\ UNCHANGED aBytes
    BY <2>0, <2>1, StackAt DEF Cell, pull
  <2>3. (AtCode(b + 15) /\ ResultIs(n, op, Given, Cell(r), Cell(r + 1), Bits(iAccumulator)))'
    BY <1>9, <2>0, <2>2 DEF To, AtCode
  <2>9. InBlock(b, n, op, r)'
    BY <2>3, Zenon DEF InBlock
  <2>. QED
    BY <2>2, <2>9 DEF BlockStep
<1>10. CASE AtCode(b + 15) /\ ResultIs(n, op, Given, Cell(r), Cell(r + 1), Bits(iAccumulator))
  <2>0. PICK o \in Int : o = b + 15 /\ o + 1 = b + 16 /\ o + 2 = b + 17 /\ 0 <= o /\ o < 128
    OBVIOUS
  <2>1. Code(o) = 133 /\ Code(o + 1) = r + 2 /\ AtCode(o)
    BY <1>10, <2>0 DEF Block
  <2>2. Stored(r + 2, iAccumulator) /\ To(o + 2) /\ UNCHANGED iStatus
    BY <2>0, <2>1, StoresAt
  <2>3. Done(n, op, r)'
    BY <1>10, <2>2 DEF Done
  <2>. QED
    BY <2>0, <2>2, <2>3 DEF BlockStep, SameMode
<1>. QED
  BY <1>1, <1>2, <1>3, <1>4, <1>5, <1>6, <1>7, <1>8, <1>9, <1>10 DEF InBlock

-----------------------------------------------------------------------------
(***************************************************************************)
(* The whole program: two blocks in each mode.                             *)
(***************************************************************************)
FirstDone  == Done(256, 101, 20)
BinaryDone == FirstDone /\ Done(256, 229, 24)
ThirdDone  == BinaryDone /\ Done(100, 101, 28)
AllDone    == ThirdDone /\ Done(100, 229, 32)

WordsAt ==
  \/ AtCode(0)
  \/ InMode(256) /\ InBlock(1, 256, 101, 20)
  \/ InMode(256) /\ FirstDone /\ InBlock(18, 256, 229, 24)
  \/ AtCode(35) /\ BinaryDone
  \/ InMode(100) /\ BinaryDone /\ InBlock(36, 100, 101, 28)
  \/ InMode(100) /\ ThirdDone /\ InBlock(53, 100, 229, 32)
  \/ AtCode(70) /\ AllDone

LEMMA DoneKept ==
  ASSUME NEW k \in {24, 28, 32, 40}, KeptBelow(k)
  PROVE  /\ k >= 24 => (FirstDone' <=> FirstDone)
         /\ k >= 28 => (BinaryDone' <=> BinaryDone)
         /\ k >= 32 => (ThirdDone' <=> ThirdDone)
<1>1. ASSUME NEW c \in 0 .. 255, c < k PROVE Cell(c)' = Cell(c)
  BY <1>1 DEF KeptBelow
<1>2. Given' = Given
  <2>1. Cell(16)' = Cell(16) /\ Cell(17)' = Cell(17) /\ Cell(18)' = Cell(18) /\ Cell(19)' = Cell(19)
    BY <1>1
  <2>. QED
    BY <2>1 DEF Given
<1>3. ASSUME NEW r \in {20, 24, 28}, r + 4 <= k
      PROVE  \A n, op : Done(n, op, r)' <=> Done(n, op, r)
  <2>1. Cell(r)' = Cell(r) /\ Cell(r + 1)' = Cell(r + 1) /\ Cell(r + 2)' = Cell(r + 2)
    <3>1. /\ r \in 0 .. 255 /\ r < k /\ r + 1 \in 0 .. 255 /\ r + 1 < k
          /\ r + 2 \in 0 .. 255 /\ r + 2 < k
      BY <1>3
    <3>. QED
      BY <1>1, <3>1
  <2>. QED
    BY <1>2, <2>1 DEF Done
<1>4. k >= 24 => (FirstDone' <=> FirstDone)
  BY <1>3 DEF FirstDone
<1>5. k >= 28 => (BinaryDone' <=> BinaryDone)
  BY <1>3, <1>4 DEF BinaryDone
<1>6. k >= 32 => (ThirdDone' <=> ThirdDone)
  BY <1>3, <1>5 DEF ThirdDone
<1>. QED
  BY <1>4, <1>5, <1>6

LEMMA ModeKept ==
  ASSUME SameMode
  PROVE  \A n : InMode(n)' <=> InMode(n)
  BY DEF SameMode, InMode

LEMMA WordsNext ==
  ASSUME Inv, Instruction, Holds(aBytes, WordProgram), WordsAt
  PROVE  WordsAt' /\ Kept
<1>. USE WordCode
<1>1. CASE AtCode(0)
  <2>1. To(1) /\ F_DECIMAL \notin iStatus' /\ UNCHANGED aBytes
    BY <1>1, SetsFlagAt
  <2>2. InMode(256)'
    BY <2>1 DEF InMode
  <2>3. InBlock(1, 256, 101, 20)'
    BY <2>1, Zenon DEF InBlock, To, AtCode
  <2>. QED
    BY <2>1, <2>2, <2>3, SameCells DEF WordsAt
<1>2. CASE InMode(256) /\ InBlock(1, 256, 101, 20)
  <2>1. BlockStep(1, 256, 101, 20)
    BY <1>2, BlockNext DEF Prepares
  <2>2. InMode(256)' /\ Kept
    BY <1>2, <2>1, ModeKept DEF BlockStep
  <2>3. InBlock(1, 256, 101, 20)' \/ (To(18) /\ Done(256, 101, 20)')
    BY <2>1 DEF BlockStep
  <2>4. To(18) => InBlock(18, 256, 229, 24)'
    BY Zenon DEF InBlock, To, AtCode
  <2>. QED
    BY <2>2, <2>3, <2>4 DEF WordsAt, FirstDone
<1>3. CASE InMode(256) /\ FirstDone /\ InBlock(18, 256, 229, 24)
  <2>1. BlockStep(18, 256, 229, 24)
    BY <1>3, BlockNext DEF Prepares
  <2>2. InMode(256)' /\ Kept
    BY <1>3, <2>1, ModeKept DEF BlockStep
  <2>3. InBlock(18, 256, 229, 24)' \/ (To(35) /\ Done(256, 229, 24)')
    BY <2>1 DEF BlockStep
  <2>4. FirstDone'
    BY <1>3, <2>1, DoneKept DEF BlockStep
  <2>5. To(35) => AtCode(35)'
    BY DEF To, AtCode
  <2>. QED
    BY <2>2, <2>3, <2>4, <2>5 DEF WordsAt, BinaryDone
<1>4. CASE AtCode(35) /\ BinaryDone
  <2>1. To(36) /\ F_DECIMAL \in iStatus' /\ UNCHANGED aBytes
    BY <1>4, SetsFlagAt
  <2>2. InMode(100)'
    BY <2>1 DEF InMode
  <2>3. InBlock(36, 100, 101, 28)'
    BY <2>1, Zenon DEF InBlock, To, AtCode
  <2>4. Kept /\ KeptBelow(40)
    BY <2>1, SameCells DEF KeptBelow
  <2>5. BinaryDone'
    BY <1>4, <2>4, DoneKept
  <2>. QED
    BY <2>2, <2>3, <2>4, <2>5 DEF WordsAt
<1>5. CASE InMode(100) /\ BinaryDone /\ InBlock(36, 100, 101, 28)
  <2>1. BlockStep(36, 100, 101, 28)
    BY <1>5, BlockNext DEF Prepares
  <2>2. InMode(100)' /\ Kept
    BY <1>5, <2>1, ModeKept DEF BlockStep
  <2>3. InBlock(36, 100, 101, 28)' \/ (To(53) /\ Done(100, 101, 28)')
    BY <2>1 DEF BlockStep
  <2>4. BinaryDone'
    BY <1>5, <2>1, DoneKept DEF BlockStep
  <2>5. To(53) => InBlock(53, 100, 229, 32)'
    BY Zenon DEF InBlock, To, AtCode
  <2>. QED
    BY <2>2, <2>3, <2>4, <2>5 DEF WordsAt, ThirdDone
<1>6. CASE InMode(100) /\ ThirdDone /\ InBlock(53, 100, 229, 32)
  <2>1. BlockStep(53, 100, 229, 32)
    BY <1>6, BlockNext DEF Prepares
  <2>2. InMode(100)' /\ Kept
    BY <1>6, <2>1, ModeKept DEF BlockStep
  <2>3. InBlock(53, 100, 229, 32)' \/ (To(70) /\ Done(100, 229, 32)')
    BY <2>1 DEF BlockStep
  <2>4. ThirdDone'
    BY <1>6, <2>1, DoneKept DEF BlockStep
  <2>5. To(70) => AtCode(70)'
    BY DEF To, AtCode
  <2>. QED
    BY <2>2, <2>3, <2>4, <2>5 DEF WordsAt, AllDone
<1>7. CASE AtCode(70)
  <2>1. opcode = 2
    BY <1>7, Here
  <2>. QED
    BY <2>1, IllegalEnds
<1>. QED
  BY <1>1, <1>2, <1>3, <1>4, <1>5, <1>6, <1>7 DEF WordsAt

-----------------------------------------------------------------------------
(***************************************************************************)
(* What the results say of the words.                                      *)
(***************************************************************************)
IsWord(v, l, h) == v \in Int /\ v = l + 256 * h

LEMMA NumberIs ==
  ASSUME Inv, NEW c \in Int, NEW d \in Int, d = c + 1
  PROVE  IsWord(Number(c), Cell(c), Cell(d))
<1>1. Number(c) = Cell(c) + 256 * Cell(d)
  BY DEF Number, readWord, Cell
<1>2. Cell(c) \in Int /\ Cell(d) \in Int
  BY CellType DEF Byte
<1>. QED
  BY <1>1, <1>2 DEF IsWord

LEMMA SignedWordIs ==
  ASSUME NEW l \in Byte, NEW h \in Byte
  PROVE  SignedWord(l + 256 * h) = Wide(l, h)
  BY DEF SignedWord, Wide, Signed, Byte

LEMMA WordRange ==
  ASSUME NEW l \in Byte, NEW h \in Byte, NEW m, m = l + 256 * h
  PROVE  0 <= m /\ m < 65536 /\ (m >= 32768 <=> h >= 128)
  BY DEF Byte

\* Binary words.
BinaryFacts(op, v, u, m, S) ==
  /\ m = (v + Term(op, u)) % 65536
  /\ op = 101 => (F_CARRY \in S <=> v + u > 65535)
  /\ op = 229 => (F_CARRY \in S <=> v >= u)
  /\ F_OVERFLOW \in S <=> TooWide(SignedWord(v) + Term(op, SignedWord(u)))
  /\ F_NEGATIVE \in S <=> m >= 32768

LEMMA BinaryResult ==
  ASSUME NEW op \in {101, 229}, NEW S, NEW w, NEW lo \in Byte, NEW hi \in Byte,
         w[1] \in Byte, w[2] \in Byte, w[3] \in Byte, w[4] \in Byte,
         ResultIs(256, op, w, lo, hi, S),
         NEW v, IsWord(v, w[1], w[2]), NEW u, IsWord(u, w[3], w[4]), NEW m, IsWord(m, lo, hi)
  PROVE  BinaryFacts(op, v, u, m, S)
<1>. USE DEF IsWord
<1>1. WordIs(256, op, w, lo, hi, Extra(op, S))
  BY DEF ResultIs
<1>2. PICK a \in Byte, b \in Byte, c \in Byte, d \in Byte, e \in Int :
        a = w[1] /\ b = w[2] /\ c = w[3] /\ d = w[4] /\ e = Extra(op, S)
  BY Extras
<1>3. Ready(256, w)
  BY DEF Ready, Valid
<1>4. \A x : Num(256, x) = x
  BY DEF Num
<1>5. lo + 256 * hi + 65536 * e = a + 256 * b + Term(op, c + 256 * d)
  BY <1>1, <1>2, <1>3, <1>4 DEF WordIs
<1>6. m + 65536 * e = v + Term(op, u)
  BY <1>2, <1>5 DEF Byte
<1>7. /\ 0 <= m /\ m < 65536 /\ 0 <= v /\ v < 65536 /\ 0 <= u /\ u < 65536
      /\ m >= 32768 <=> hi >= 128
  BY WordRange
<1>8. PICK t \in Int : t = v + Term(op, u)
  BY DEF Term
<1>9. m = t % 65536
  BY <1>6, <1>7, <1>8
<1>10. /\ op = 101 => (F_CARRY \in S <=> e = 1) /\ e \in {0, 1}
       /\ op = 229 => (F_CARRY \in S <=> e = 0) /\ e \in {-1, 0}
  BY <1>2 DEF Extra, Carry
<1>11. op = 101 => (F_CARRY \in S <=> v + u > 65535)
  BY <1>6, <1>7, <1>10 DEF Term
<1>12. op = 229 => (F_CARRY \in S <=> v >= u)
  BY <1>6, <1>7, <1>10 DEF Term
<1>13. SignedWord(v) = Wide(w[1], w[2]) /\ SignedWord(u) = Wide(w[3], w[4])
  BY SignedWordIs
<1>14. F_OVERFLOW \in S <=> Overflows(op, w)
  BY DEF ResultIs
<1>15. F_NEGATIVE \in S <=> hi >= 128
  BY DEF ResultIs
<1>. QED
  BY <1>7, <1>8, <1>9, <1>11, <1>12, <1>13, <1>14, <1>15 DEF Overflows, BinaryFacts

\* Words of four digits.
LEMMA DecimalIs ==
  ASSUME NEW l \in Byte, NEW h \in Byte
  PROVE  /\ IsDecimal(l + 256 * h) <=> Two(l) /\ Two(h)
         /\ Decimal(l + 256 * h) = Tens(l) + 100 * Tens(h)
<1>. DEFINE n == l + 256 * h
<1>1. n % 16 = l % 16 /\ (n \div 16) % 16 = l \div 16
  BY DEF Byte
<1>2. (n \div 256) % 16 = h % 16 /\ n \div 4096 = h \div 16
  BY DEF Byte
<1>3. Digits(n) = <<l % 16, l \div 16, h % 16, h \div 16>>
  BY <1>1, <1>2 DEF Digits
<1>. HIDE DEF n
<1>4. IsDecimal(n) <=> l % 16 <= 9 /\ l \div 16 <= 9 /\ h % 16 <= 9 /\ h \div 16 <= 9
  BY <1>3 DEF IsDecimal
<1>5. Decimal(n) = (l % 16) + 10 * (l \div 16) + 100 * (h % 16) + 1000 * (h \div 16)
  BY <1>3 DEF Decimal
<1>. QED
  BY <1>4, <1>5 DEF Two, Tens, Byte, n

LEMMA DecimalResult ==
  ASSUME NEW op \in {101, 229}, NEW S, NEW w, NEW lo \in Byte, NEW hi \in Byte,
         w[1] \in Byte, w[2] \in Byte, w[3] \in Byte, w[4] \in Byte,
         ResultIs(100, op, w, lo, hi, S),
         NEW v, IsWord(v, w[1], w[2]), NEW u, IsWord(u, w[3], w[4]), NEW m, IsWord(m, lo, hi),
         IsDecimal(v), IsDecimal(u)
  PROVE  /\ IsDecimal(m) /\ Decimal(m) = (Decimal(v) + Term(op, Decimal(u))) % 10000
         /\ op = 101 => (F_CARRY \in S <=> Decimal(v) + Decimal(u) > 9999)
         /\ op = 229 => (F_CARRY \in S <=> Decimal(v) >= Decimal(u))
<1>. USE DEF IsWord
<1>1. WordIs(100, op, w, lo, hi, Extra(op, S))
  BY DEF ResultIs
<1>2. Two(w[1]) /\ Two(w[2]) /\ Two(w[3]) /\ Two(w[4])
  BY DecimalIs
<1>3. Ready(100, w)
  BY <1>2 DEF Ready, Valid
<1>4. \A x : Num(100, x) = Tens(x)
  BY DEF Num
<1>5. Two(lo) /\ Two(hi)
  BY <1>1, <1>3 DEF WordIs, Valid
<1>6. ASSUME NEW x \in Byte, Two(x) PROVE Tens(x) \in Int /\ 0 <= Tens(x) /\ Tens(x) < 100
  BY <1>4, <1>6, Nums DEF Valid
<1>0. /\ Tens(w[1]) \in Int /\ Tens(w[2]) \in Int /\ Tens(w[3]) \in Int /\ Tens(w[4]) \in Int
      /\ Tens(lo) \in Int /\ Tens(hi) \in Int /\ Extra(op, S) \in Int
  BY NumberTypes, Extras
<1>7. PICK a \in Int, b \in Int, c \in Int, d \in Int, x \in Int, y \in Int, e \in Int :
        /\ a = Tens(w[1]) /\ b = Tens(w[2]) /\ c = Tens(w[3]) /\ d = Tens(w[4])
        /\ x = Tens(lo) /\ y = Tens(hi) /\ e = Extra(op, S)
  BY <1>0
<1>8. /\ 0 <= a /\ a < 100 /\ 0 <= b /\ b < 100 /\ 0 <= c /\ c < 100 /\ 0 <= d /\ d < 100
      /\ 0 <= x /\ x < 100 /\ 0 <= y /\ y < 100
  BY <1>2, <1>5, <1>6, <1>7
<1>9. x + 100 * y + 10000 * e = a + 100 * b + Term(op, c + 100 * d)
  BY <1>1, <1>3, <1>4, <1>7 DEF WordIs
<1>10. PICK i \in Int, j \in Int, k \in Int : i = a + 100 * b /\ j = c + 100 * d /\ k = x + 100 * y
  OBVIOUS
<1>11. Decimal(v) = i /\ Decimal(u) = j /\ Decimal(m) = k /\ IsDecimal(m)
  BY <1>5, <1>7, <1>10, DecimalIs
<1>12. k + 10000 * e = i + Term(op, j)
  BY <1>9, <1>10
<1>13. 0 <= i /\ i < 10000 /\ 0 <= j /\ j < 10000 /\ 0 <= k /\ k < 10000
  BY <1>8, <1>10
<1>14. PICK t \in Int : t = i + Term(op, j)
  BY DEF Term
<1>15. k = t % 10000
  BY <1>12, <1>13, <1>14
<1>16. /\ op = 101 => (F_CARRY \in S <=> e = 1) /\ e \in {0, 1}
       /\ op = 229 => (F_CARRY \in S <=> e = 0) /\ e \in {-1, 0}
  BY <1>7 DEF Extra, Carry
<1>17. op = 101 => (F_CARRY \in S <=> i + j > 9999)
  BY <1>12, <1>13, <1>16 DEF Term
<1>18. op = 229 => (F_CARRY \in S <=> i >= j)
  BY <1>12, <1>13, <1>16 DEF Term
<1>. QED
  BY <1>11, <1>14, <1>15, <1>17, <1>18

-----------------------------------------------------------------------------
(***************************************************************************)
(* The invariant: memory holds one of the programs, and the processor is   *)
(* at the illegal byte at 0, where it is constructed, or in the program    *)
(* with what the program has found out.                                    *)
(***************************************************************************)
AtZero == iProgramCounter = 0

Ordering == /\ Holds(aBytes, OrderProgram) /\ F_DECIMAL \notin iStatus
            /\ AtZero \/ OrderAt

Multiplying ==
  /\ Holds(aBytes, ProductProgram) /\ F_DECIMAL \notin iStatus
  /\ Cell(18) = Cell(19)
  /\ runs = 0 => ~running /\ Cell(16) = Cell(17)
  /\ running => AtZero \/ ProductAt
  /\ AtZero \/ AtCode(0) \/ ProductAt

Summing == Holds(aBytes, WordProgram) /\ (AtZero \/ WordsAt)

ProgramInv == Inv /\ HostOK /\ Cell(0) = 2 /\ (Ordering \/ Multiplying \/ Summing)

LEMMA InitProgram == Init => ProgramInv
<1>. SUFFICES ASSUME Init PROVE ProgramInv
  OBVIOUS
<1>1. Inv /\ HostOK /\ AtZero /\ aBytes \in Images /\ ~running
  BY InitInv, InitHost DEF Init, AtZero
<1>2. F_DECIMAL \notin iStatus
  BY DEF Init, F_DECIMAL, F_ZERO
<1>3. Cell(0) = 2
  BY <1>1, ArithmeticAssumption DEF Cell
<1>4. CASE Holds(aBytes, WordProgram)
  BY <1>1, <1>3, <1>4 DEF ProgramInv, Summing
<1>5. CASE Holds(aBytes, OrderProgram)
  BY <1>1, <1>2, <1>3, <1>5 DEF ProgramInv, Ordering
<1>6. CASE Holds(aBytes, ProductProgram) /\ Cell(16) = Cell(17) /\ Cell(18) = Cell(19)
  BY <1>1, <1>2, <1>3, <1>6 DEF ProgramInv, Multiplying
<1>. QED
  BY <1>1, <1>4, <1>5, <1>6, ArithmeticAssumption DEF Cell

LEMMA ProgramLengths ==
  Len(OrderProgram) = 28 /\ Len(ProductProgram) = 20 /\ Len(WordProgram) = 71
  BY DEF OrderProgram, ProductProgram, WordProgram, Words

LEMMA InstructionProgram ==
  ASSUME ProgramInv, Instruction
  PROVE  ProgramInv'
<1>1. Inv /\ Inv' /\ HostOK' /\ running /\ UNCHANGED host
  <2>1. [Next]_vars
    BY DEF Next
  <2>. QED
    BY <2>1, InvStep, HostStep, InstructionStaysIn DEF ProgramInv
<1>2. ~ AtZero
  BY IllegalEnds DEF ProgramInv, AtZero, opcode, Cell
<1>3. CASE Ordering
  <2>1. OrderAt' /\ Kept /\ SameMode
    BY <1>1, <1>2, <1>3, OrderNext DEF Ordering
  <2>2. Holds(aBytes', OrderProgram) /\ Cell(0)' = Cell(0)
    BY <1>3, <2>1, ProgramKept, ProgramLengths DEF Ordering
  <2>3. Ordering'
    BY <1>3, <2>1, <2>2 DEF Ordering, SameMode
  <2>. QED
    BY <1>1, <2>2, <2>3 DEF ProgramInv
<1>4. CASE Multiplying
  <2>1. ProductAt' /\ Kept /\ SameMode /\ SameFactors
    BY <1>1, <1>2, <1>4, ProductNext DEF Multiplying
  <2>2. Holds(aBytes', ProductProgram) /\ Cell(0)' = Cell(0)
    BY <1>4, <2>1, ProgramKept, ProgramLengths DEF Multiplying
  <2>3. runs # 0 /\ runs' = runs
    BY <1>1, <1>4 DEF Multiplying, host
  <2>4. Multiplying'
    BY <1>4, <2>1, <2>2, <2>3 DEF Multiplying, SameMode, SameFactors
  <2>. QED
    BY <1>1, <2>2, <2>4 DEF ProgramInv
<1>5. CASE Summing
  <2>1. WordsAt' /\ Kept
    BY <1>1, <1>2, <1>5, WordsNext DEF Summing
  <2>2. Holds(aBytes', WordProgram) /\ Cell(0)' = Cell(0)
    BY <1>5, <2>1, ProgramKept, ProgramLengths DEF Summing
  <2>3. Summing'
    BY <2>1, <2>2 DEF Summing
  <2>. QED
    BY <1>1, <2>2, <2>3 DEF ProgramInv
<1>. QED
  BY <1>3, <1>4, <1>5 DEF ProgramInv

\* What the host does leaves registers and memory as they are.
LEMMA SameProgram ==
  ASSUME ProgramInv, UNCHANGED <<registers, aBytes>>
  PROVE  /\ Cell(0)' = 2
         /\ \A program : Holds(aBytes', program) <=> Holds(aBytes, program)
         /\ \A c : Cell(c)' = Cell(c)
         /\ UNCHANGED <<iAccumulator, iStatus, iXIndex, iStackPointer>>
  BY DEF ProgramInv, Cell, registers

LEMMA StartProgram ==
  ASSUME ProgramInv, NEW iAddress \in EntryPoints, setProgramCounter(iAddress)
  PROVE  ProgramInv'
<1>1. Inv' /\ HostOK' /\ AtCode(0)' /\ UNCHANGED <<registers, aBytes, host>> /\ ~running
  <2>1. [Next]_vars
    BY DEF Next
  <2>2. iProgramCounter' = Start + 0
    BY ArithmeticAssumption DEF setProgramCounter, Start
  <2>. QED
    BY <2>1, <2>2, InvStep, HostStep DEF setProgramCounter, AtCode, ProgramInv
<1>2. Ordering => Ordering'
  BY <1>1, SameProgram DEF Ordering, OrderAt
<1>3. Multiplying => Multiplying'
  BY <1>1, SameProgram DEF Multiplying, host
<1>4. Summing => Summing'
  BY <1>1, SameProgram DEF Summing, WordsAt
<1>. QED
  BY <1>1, <1>2, <1>3, <1>4, SameProgram DEF ProgramInv

\* Steps that leave the program counter as it is as well.
LEMMA SameRun ==
  ASSUME UNCHANGED <<iProgramCounter, registers, aBytes>>
  PROVE  /\ AtZero' <=> AtZero
         /\ AtCode(0)' <=> AtCode(0)
         /\ OrderAt' <=> OrderAt
         /\ ProductAt' <=> ProductAt
         /\ WordsAt' <=> WordsAt
<1>1. UNCHANGED <<iProgramCounter, iAccumulator, iStatus, iXIndex, iStackPointer, aBytes>>
  BY DEF registers
<1>2. /\ \A o : AtCode(o)' <=> AtCode(o)
      /\ \A c : Cell(c)' = Cell(c)
      /\ C' = C /\ pull(1)' = pull(1)
  BY <1>1 DEF AtCode, Cell, C, pull
<1>3. OrderAt' <=> OrderAt
  <2>1. (SignedLess' <=> SignedLess) /\ (ByteLess' <=> ByteLess) /\ (SignedTold' <=> SignedTold)
    BY <1>2, SameOperands
  <2>. QED
    BY <1>1, <1>2, <2>1 DEF OrderAt
<1>4. ProductAt' <=> ProductAt
  <2>1. Operand' = Operand
    BY <1>2 DEF Operand
  <2>2. /\ \A p, q, l, t, c : Partial(p, q, l, t, c)' <=> Partial(p, q, l, t, c)
        /\ \A p, q, l, t, c : Added(p, q, l, t, c)' <=> Added(p, q, l, t, c)
    BY <1>1, <1>2, <2>1 DEF Partial, Added, Halves
  <2>3. \A x, p, q, l, t : RoundAt(x, p, q, l, t)' <=> RoundAt(x, p, q, l, t)
    BY <1>1, <1>2, <2>1 DEF RoundAt, Partial, Added, Halves
  <2>4. InRounds' <=> InRounds
    BY <2>3 DEF InRounds
  <2>. QED
    BY <1>1, <1>2, <2>1, <2>4 DEF ProductAt
<1>5. WordsAt' <=> WordsAt
  <2>1. Given' = Given
    BY <1>2 DEF Given
  <2>2. \A n, op, r : Done(n, op, r)' <=> Done(n, op, r)
    BY <1>2, <2>1 DEF Done
  <2>3. \A b, n, op, r : InBlock(b, n, op, r)' <=> InBlock(b, n, op, r)
    BY <1>1, <1>2, <2>1 DEF InBlock
  <2>4. \A n : InMode(n)' <=> InMode(n)
    BY <1>1 DEF InMode
  <2>. QED
    BY <1>2, <2>2, <2>3, <2>4 DEF WordsAt, FirstDone, BinaryDone, ThirdDone, AllDone
<1>. QED
  BY <1>1, <1>2, <1>3, <1>4, <1>5 DEF AtZero

LEMMA RunProgram ==
  ASSUME ProgramInv, run
  PROVE  ProgramInv'
<1>1. Inv' /\ HostOK' /\ UNCHANGED <<iProgramCounter, registers, aBytes>>
  <2>1. [Next]_vars
    BY DEF Next
  <2>. QED
    BY <2>1, InvStep, HostStep DEF run, ProgramInv
<1>2. runs = 0 /\ runs' # 0
  BY ArithmeticAssumption, CpuAssumption DEF run, ProgramInv, HostOK
<1>3. (AtZero' <=> AtZero) /\ (AtCode(0)' <=> AtCode(0)) /\ (OrderAt' <=> OrderAt)
      /\ (ProductAt' <=> ProductAt) /\ (WordsAt' <=> WordsAt)
  BY <1>1, SameRun
<1>4. AtCode(0) /\ Cell(16) = Cell(17) => ProductAt
  BY DEF ProductAt
<1>5. Ordering => Ordering'
  BY <1>1, <1>3, SameProgram DEF Ordering
<1>6. Multiplying => Multiplying'
  BY <1>1, <1>2, <1>3, <1>4, SameProgram DEF Multiplying
<1>7. Summing => Summing'
  BY <1>1, <1>3, SameProgram DEF Summing
<1>. QED
  BY <1>1, <1>5, <1>6, <1>7, SameProgram DEF ProgramInv

\* The end of a run, or no step at all.
LEMMA RestProgram ==
  ASSUME ProgramInv, Exit \/ UNCHANGED vars
  PROVE  ProgramInv'
<1>1. Inv' /\ HostOK' /\ UNCHANGED <<iProgramCounter, registers, aBytes, runs>>
      /\ (running' => running)
  <2>1. [Next]_vars
    BY DEF Next
  <2>2. UNCHANGED <<iProgramCounter, registers, aBytes, runs>> /\ (running' => running)
    BY DEF Exit, JumpToSelf, illegal, return, vars, host
  <2>. QED
    BY <2>1, <2>2, InvStep, HostStep DEF ProgramInv
<1>3. (AtZero' <=> AtZero) /\ (AtCode(0)' <=> AtCode(0)) /\ (OrderAt' <=> OrderAt)
      /\ (ProductAt' <=> ProductAt) /\ (WordsAt' <=> WordsAt)
  BY <1>1, SameRun
<1>5. Ordering => Ordering'
  BY <1>1, <1>3, SameProgram DEF Ordering
<1>6. Multiplying => Multiplying'
  BY <1>1, <1>3, SameProgram DEF Multiplying
<1>7. Summing => Summing'
  BY <1>1, <1>3, SameProgram DEF Summing
<1>. QED
  BY <1>1, <1>5, <1>6, <1>7, SameProgram DEF ProgramInv

\* Every run of one of the programs stays in it: memory holds the program, the
\* processor is at one of its instructions, and registers, flags and cells hold
\* what the instructions before it were to find out.
THEOREM ProgramsHold == Spec => []ProgramInv
<1>1. ProgramInv /\ [Next]_vars => ProgramInv'
  BY InstructionProgram, StartProgram, RunProgram, RestProgram DEF Next
<1>. QED
  BY <1>1, InitProgram, PTL DEF Spec

-----------------------------------------------------------------------------
(***************************************************************************)
(* The results.  Memory holds a program to the end, so that it ends as     *)
(* that program and no other.                                              *)
(***************************************************************************)
LEMMA FirstBytes ==
  /\ Holds(aBytes, OrderProgram) => Code(0) = 165
  /\ Holds(aBytes, ProductProgram) => Code(0) = 162
  /\ Holds(aBytes, WordProgram) => Code(0) = 216
  BY OrderCode, ProductCode, WordCode

LEMMA EndsIn ==
  ASSUME NEW program, NEW n \in 1 .. 100, Len(program) = n, Ends(program)
  PROVE  iProgramCounter = Start + n - 1 /\ aBytes[Start] = program[1]
<1>1. DOMAIN At(Start, program) = Start .. Start + n - 1
  BY DEF At
<1>2. Start \in Start .. Start + n - 1
  BY DEF Start
<1>3. At(Start, program)[Start] = program[1]
  BY <1>2 DEF At, Start
<1>4. At(Start, program)[Start] = aBytes[Start]
  BY <1>1, <1>2 DEF Ends
<1>. QED
  BY <1>3, <1>4 DEF Ends

LEMMA HeldByte ==
  ASSUME Code(0) # 0
  PROVE  aBytes[Start] = Code(0)
<1>1. (Start + 0) % MEM_SIZE = Start
  BY DEF Start, MEM_SIZE
<1>. QED
  BY <1>1 DEF Code, readByte

LEMMA EndsAs ==
  /\ Ends(OrderProgram) => Code(0) # 162 /\ Code(0) # 216 /\ AtCode(27)
  /\ Ends(ProductProgram) => Code(0) # 165 /\ Code(0) # 216 /\ AtCode(19)
  /\ Ends(WordProgram) => Code(0) # 165 /\ Code(0) # 162 /\ AtCode(70)
<1>1. OrderProgram[1] = 165 /\ ProductProgram[1] = 162 /\ WordProgram[1] = 216
  BY DEF OrderProgram, ProductProgram, WordProgram, Words
<1>2. \A b \in {162, 165, 216} : Code(0) = b => aBytes[Start] = b
  BY HeldByte
<1>3. Ends(OrderProgram) => Code(0) # 162 /\ Code(0) # 216 /\ AtCode(27)
  BY <1>1, <1>2, EndsIn, ProgramLengths DEF AtCode, Start
<1>4. Ends(ProductProgram) => Code(0) # 165 /\ Code(0) # 216 /\ AtCode(19)
  BY <1>1, <1>2, EndsIn, ProgramLengths DEF AtCode, Start
<1>5. Ends(WordProgram) => Code(0) # 165 /\ Code(0) # 162 /\ AtCode(70)
  BY <1>1, <1>2, EndsIn, ProgramLengths DEF AtCode, Start
<1>. QED
  BY <1>3, <1>4, <1>5

LEMMA OrderEnds ==
  ASSUME ProgramInv, Ends(OrderProgram)
  PROVE  SignedTold /\ (Cell(21) = 1 <=> ByteLess)
<1>1. Ordering /\ AtCode(27)
  BY EndsAs, FirstBytes DEF ProgramInv, Multiplying, Summing
<1>2. ~ AtZero /\ \A o \in 0 .. 26 : ~ AtCode(o)
  BY <1>1 DEF AtZero, AtCode, Start
<1>. QED
  BY <1>1, <1>2 DEF Ordering, OrderAt

LEMMA ProductEnds ==
  ASSUME ProgramInv, Ends(ProductProgram)
  PROVE  Cell(16) + 256 * Cell(20) = Operand /\ Cell(18) = Cell(19)
<1>1. Multiplying /\ AtCode(19)
  BY EndsAs, FirstBytes DEF ProgramInv, Ordering, Summing
<1>2. ~ AtZero /\ \A o \in 0 .. 18 : ~ AtCode(o)
  BY <1>1 DEF AtZero, AtCode, Start
<1>3. ~ InRounds
  BY <1>2 DEF InRounds, RoundAt
<1>. QED
  BY <1>1, <1>2, <1>3 DEF Multiplying, ProductAt

LEMMA WordsEnd ==
  ASSUME ProgramInv, Ends(WordProgram)
  PROVE  AllDone
<1>1. Summing /\ AtCode(70)
  BY EndsAs, FirstBytes DEF ProgramInv, Ordering, Multiplying
<1>2. ~ AtZero /\ \A o \in 0 .. 69 : ~ AtCode(o)
  BY <1>1 DEF AtZero, AtCode, Start
<1>3. \A b \in {1, 18, 36, 53} : \A n, op, r : ~ InBlock(b, n, op, r)
  BY <1>2 DEF InBlock
<1>. QED
  BY <1>1, <1>2, <1>3 DEF Summing, WordsAt

\* The program that orders two bytes tells the order of the signed and of the
\* unsigned bytes, whatever they are: V and N after SBC, and C after CMP.
THEOREM OrderHolds == Spec => []Order
<1>1. ProgramInv => Order
  BY OrderEnds DEF Order, SignedTold, SignedLess, ByteLess
<1>. QED
  BY <1>1, ProgramsHold, PTL

\* The program that multiplies leaves the product of any two bytes: additions,
\* rotations and branches hand the carry on through its eight rounds.
THEOREM ProductHolds == Spec => []Product
<1>1. ProgramInv => Product
  BY ProductEnds DEF Product, Operand
<1>. QED
  BY <1>1, ProgramsHold, PTL

LEMMA GivenNumbers ==
  ASSUME Inv
  PROVE  /\ IsWord(Number(16), Given[1], Given[2]) /\ IsWord(Number(18), Given[3], Given[4])
         /\ Number(16) \in Int /\ Number(18) \in Int
         /\ SignedWord(Number(16)) \in Int /\ SignedWord(Number(18)) \in Int
<1>1. IsWord(Number(16), Cell(16), Cell(17))
  BY NumberIs
<1>2. IsWord(Number(18), Cell(18), Cell(19))
  BY NumberIs
<1>. QED
  BY <1>1, <1>2, GivenBytes DEF SignedWord, IsWord

LEMMA BinaryAt ==
  ASSUME Inv, NEW op \in {101, 229}, NEW r \in Int, NEW f, f = r + 2, Done(256, op, r),
         NEW v, v = Number(16), NEW u, u = Number(18), NEW S, S = FlagsAt(f)
  PROVE  BinaryFacts(op, v, u, Number(r), S)
<1>0. PICK d \in Int : d = r + 1
  OBVIOUS
<1>1. ResultIs(256, op, Given, Cell(r), Cell(d), S)
  BY <1>0 DEF Done, FlagsAt
<1>2. IsWord(Number(r), Cell(r), Cell(d))
  BY <1>0, NumberIs
<1>3. Cell(r) \in Byte /\ Cell(d) \in Byte
  BY CellType
<1>4. IsWord(v, Given[1], Given[2]) /\ IsWord(u, Given[3], Given[4])
  BY GivenNumbers
<1>. QED
  BY <1>1, <1>2, <1>3, <1>4, GivenBytes, BinaryResult

LEMMA DecimalAt ==
  ASSUME Inv, NEW op \in {101, 229}, NEW r \in Int, NEW f, f = r + 2, Done(100, op, r),
         NEW v, v = Number(16), NEW u, u = Number(18), NEW S, S = FlagsAt(f),
         IsDecimal(v), IsDecimal(u)
  PROVE  /\ IsDecimal(Number(r)) /\ Decimal(Number(r)) = (Decimal(v) + Term(op, Decimal(u))) % 10000
         /\ op = 101 => (F_CARRY \in S <=> Decimal(v) + Decimal(u) > 9999)
         /\ op = 229 => (F_CARRY \in S <=> Decimal(v) >= Decimal(u))
<1>0. PICK d \in Int : d = r + 1
  OBVIOUS
<1>1. ResultIs(100, op, Given, Cell(r), Cell(d), S)
  BY <1>0 DEF Done, FlagsAt
<1>2. IsWord(Number(r), Cell(r), Cell(d))
  BY <1>0, NumberIs
<1>3. Cell(r) \in Byte /\ Cell(d) \in Byte
  BY CellType
<1>4. IsWord(v, Given[1], Given[2]) /\ IsWord(u, Given[3], Given[4])
  BY GivenNumbers
<1>. QED
  BY <1>1, <1>2, <1>3, <1>4, GivenBytes, DecimalResult

\* To subtract is to add the negative number.
LEMMA Terms ==
  \A u, v \in Int : v + Term(101, u) = v + u /\ v + Term(229, u) = v - u
  BY DEF Term

\* The sum and the difference of any two words in binary, with their flags.
THEOREM BinaryWordsHold == Spec => []BinaryWords
<1>1. ASSUME ProgramInv, Ends(WordProgram)
      PROVE  BinaryWords
  <2>1. Done(256, 101, 20) /\ Done(256, 229, 24) /\ Inv
    BY <1>1, WordsEnd DEF AllDone, ThirdDone, BinaryDone, FirstDone, ProgramInv
  <2>2. PICK v \in Int, w \in Int, i \in Int, j \in Int :
          v = Number(16) /\ w = Number(18) /\ i = SignedWord(v) /\ j = SignedWord(w)
    BY <2>1, GivenNumbers
  <2>3. PICK S : S = FlagsAt(22)
    OBVIOUS
  <2>4. PICK T : T = FlagsAt(26)
    OBVIOUS
  <2>5. /\ Number(20) = (v + Term(101, w)) % 65536
        /\ F_CARRY \in S <=> v + w > 65535
        /\ F_OVERFLOW \in S <=> TooWide(i + Term(101, j))
        /\ F_NEGATIVE \in S <=> Number(20) >= 32768
    <3>1. BinaryFacts(101, v, w, Number(20), S)
      BY <2>1, <2>2, <2>3, BinaryAt
    <3>. QED
      BY <2>2, <3>1 DEF BinaryFacts
  <2>6. /\ Number(24) = (v + Term(229, w)) % 65536
        /\ F_CARRY \in T <=> v >= w
        /\ F_OVERFLOW \in T <=> TooWide(i + Term(229, j))
        /\ F_NEGATIVE \in T <=> Number(24) >= 32768
    <3>1. BinaryFacts(229, v, w, Number(24), T)
      BY <2>1, <2>2, <2>4, BinaryAt
    <3>. QED
      BY <2>2, <3>1 DEF BinaryFacts
  <2>7. /\ v + Term(101, w) = v + w /\ i + Term(101, j) = i + j
        /\ v + Term(229, w) = v - w /\ i + Term(229, j) = i - j
    BY Terms
  <2>. QED
    BY <2>2, <2>3, <2>4, <2>5, <2>6, <2>7 DEF BinaryWords
<1>2. ProgramInv => BinaryWords
  BY <1>1 DEF BinaryWords
<1>. QED
  BY <1>2, ProgramsHold, PTL

\* The decimal sum and difference of any two words of four digits.
THEOREM DecimalWordsHold == Spec => []DecimalWords
<1>1. ASSUME ProgramInv, Ends(WordProgram), IsDecimal(Number(16)), IsDecimal(Number(18))
      PROVE  DecimalWords
  <2>1. Done(100, 101, 28) /\ Done(100, 229, 32) /\ Inv
    BY <1>1, WordsEnd DEF AllDone, ThirdDone, ProgramInv
  <2>2. PICK v \in Int, w \in Int, i \in Int, j \in Int :
          v = Number(16) /\ w = Number(18) /\ i = Decimal(v) /\ j = Decimal(w)
    BY <2>1, GivenNumbers DEF Decimal, Digits
  <2>3. PICK S : S = FlagsAt(30)
    OBVIOUS
  <2>4. PICK T : T = FlagsAt(34)
    OBVIOUS
  <2>5. /\ IsDecimal(Number(28)) /\ Decimal(Number(28)) = (i + Term(101, j)) % 10000
        /\ F_CARRY \in S <=> i + j > 9999
    BY <1>1, <2>1, <2>2, <2>3, DecimalAt
  <2>6. /\ IsDecimal(Number(32)) /\ Decimal(Number(32)) = (i + Term(229, j)) % 10000
        /\ F_CARRY \in T <=> i >= j
    BY <1>1, <2>1, <2>2, <2>4, DecimalAt
  <2>7. i + Term(101, j) = i + j /\ i + Term(229, j) = i - j
    BY Terms
  <2>. QED
    BY <2>2, <2>3, <2>4, <2>5, <2>6, <2>7 DEF DecimalWords
<1>2. ProgramInv => DecimalWords
  BY <1>1 DEF DecimalWords
<1>. QED
  BY <1>2, ProgramsHold, PTL
=============================================================================
