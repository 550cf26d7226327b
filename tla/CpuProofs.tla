------------------------------ MODULE CpuProofs ------------------------------
(***************************************************************************)
(* The registers keep their widths and the status register stays free of   *)
(* the break and unused flags, for every image, every entry point and any  *)
(* number of runs.                                                         *)
(***************************************************************************)
EXTENDS Cpu, JumpTable, TLAPS

-----------------------------------------------------------------------------
(***************************************************************************)
(* Opcodes.  The table of the threaded dispatch is an inverse of Opcode:   *)
(* it leads from the byte of every instruction to that instruction, and so *)
(* no two instructions have one byte.                                      *)
(***************************************************************************)
LEMMA OpcodeNames == DOMAIN Opcode =
  {"ADC", "AND", "ASL", "BCC", "BCS", "BEQ", "BIT", "BMI", "BNE", "BPL", "BRK", "BVC",
   "BVS", "CLC", "CLD", "CLI", "CLV", "CMP", "CPX", "CPY", "DEC", "DEX", "DEY", "EOR",
   "INC", "INX", "INY", "JMP", "JSR", "LDA", "LDX", "LDY", "LSR", "NOP", "ORA", "PHA",
   "PHP", "PLA", "PLP", "ROL", "ROR", "RTI", "RTS", "SBC", "SEC", "SED", "SEI", "STA",
   "STX", "STY", "TAX", "TAY", "TSX", "TXA", "TXS", "TYA"}
  BY DEF Opcode

LEMMA LoadLabels ==
  /\ label(169) = <<"LDA", "IM">> /\ label(165) = <<"LDA", "ZP">> /\ label(181) = <<"LDA", "ZPX">>
  /\ label(173) = <<"LDA", "AB">> /\ label(189) = <<"LDA", "ABX">> /\ label(185) = <<"LDA", "ABY">>
  /\ label(161) = <<"LDA", "IX">> /\ label(177) = <<"LDA", "IY">> /\ label(162) = <<"LDX", "IM">>
  /\ label(166) = <<"LDX", "ZP">> /\ label(182) = <<"LDX", "ZPY">> /\ label(174) = <<"LDX", "AB">>
  /\ label(190) = <<"LDX", "ABY">> /\ label(160) = <<"LDY", "IM">> /\ label(164) = <<"LDY", "ZP">>
  /\ label(180) = <<"LDY", "ZPX">> /\ label(172) = <<"LDY", "AB">> /\ label(188) = <<"LDY", "ABX">>
  /\ label(170) = <<"TAX", "IMP">> /\ label(168) = <<"TAY", "IMP">> /\ label(186) = <<"TSX", "IMP">>
  BY DEF label, aJumpTable

LEMMA StoreLabels ==
  /\ label(133) = <<"STA", "ZP">> /\ label(149) = <<"STA", "ZPX">> /\ label(141) = <<"STA", "AB">>
  /\ label(157) = <<"STA", "ABX">> /\ label(153) = <<"STA", "ABY">> /\ label(129) = <<"STA", "IX">>
  /\ label(145) = <<"STA", "IY">> /\ label(134) = <<"STX", "ZP">> /\ label(150) = <<"STX", "ZPY">>
  /\ label(142) = <<"STX", "AB">> /\ label(132) = <<"STY", "ZP">> /\ label(148) = <<"STY", "ZPX">>
  /\ label(140) = <<"STY", "AB">> /\ label(138) = <<"TXA", "IMP">> /\ label(152) = <<"TYA", "IMP">>
  /\ label(154) = <<"TXS", "IMP">>
  BY DEF label, aJumpTable

LEMMA SumLabels ==
  /\ label(105) = <<"ADC", "IM">> /\ label(101) = <<"ADC", "ZP">> /\ label(117) = <<"ADC", "ZPX">>
  /\ label(109) = <<"ADC", "AB">> /\ label(125) = <<"ADC", "ABX">> /\ label(121) = <<"ADC", "ABY">>
  /\ label(97) = <<"ADC", "IX">> /\ label(113) = <<"ADC", "IY">> /\ label(233) = <<"SBC", "IM">>
  /\ label(229) = <<"SBC", "ZP">> /\ label(245) = <<"SBC", "ZPX">> /\ label(237) = <<"SBC", "AB">>
  /\ label(253) = <<"SBC", "ABX">> /\ label(249) = <<"SBC", "ABY">> /\ label(225) = <<"SBC", "IX">>
  /\ label(241) = <<"SBC", "IY">> /\ label(201) = <<"CMP", "IM">> /\ label(197) = <<"CMP", "ZP">>
  /\ label(213) = <<"CMP", "ZPX">> /\ label(205) = <<"CMP", "AB">> /\ label(221) = <<"CMP", "ABX">>
  /\ label(217) = <<"CMP", "ABY">> /\ label(193) = <<"CMP", "IX">> /\ label(209) = <<"CMP", "IY">>
  BY DEF label, aJumpTable

LEMMA LogicLabels ==
  /\ label(41) = <<"AND", "IM">> /\ label(37) = <<"AND", "ZP">> /\ label(53) = <<"AND", "ZPX">>
  /\ label(45) = <<"AND", "AB">> /\ label(61) = <<"AND", "ABX">> /\ label(57) = <<"AND", "ABY">>
  /\ label(33) = <<"AND", "IX">> /\ label(49) = <<"AND", "IY">> /\ label(9) = <<"ORA", "IM">>
  /\ label(5) = <<"ORA", "ZP">> /\ label(21) = <<"ORA", "ZPX">> /\ label(13) = <<"ORA", "AB">>
  /\ label(29) = <<"ORA", "ABX">> /\ label(25) = <<"ORA", "ABY">> /\ label(1) = <<"ORA", "IX">>
  /\ label(17) = <<"ORA", "IY">> /\ label(73) = <<"EOR", "IM">> /\ label(69) = <<"EOR", "ZP">>
  /\ label(85) = <<"EOR", "ZPX">> /\ label(77) = <<"EOR", "AB">> /\ label(93) = <<"EOR", "ABX">>
  /\ label(89) = <<"EOR", "ABY">> /\ label(65) = <<"EOR", "IX">> /\ label(81) = <<"EOR", "IY">>
  BY DEF label, aJumpTable

LEMMA CompareLabels ==
  /\ label(224) = <<"CPX", "IM">> /\ label(228) = <<"CPX", "ZP">> /\ label(236) = <<"CPX", "AB">>
  /\ label(192) = <<"CPY", "IM">> /\ label(196) = <<"CPY", "ZP">> /\ label(204) = <<"CPY", "AB">>
  /\ label(36) = <<"BIT", "ZP">> /\ label(44) = <<"BIT", "AB">> /\ label(198) = <<"DEC", "ZP">>
  /\ label(214) = <<"DEC", "ZPX">> /\ label(206) = <<"DEC", "AB">> /\ label(222) = <<"DEC", "ABX">>
  /\ label(230) = <<"INC", "ZP">> /\ label(246) = <<"INC", "ZPX">> /\ label(238) = <<"INC", "AB">>
  /\ label(254) = <<"INC", "ABX">> /\ label(202) = <<"DEX", "IMP">> /\ label(136) = <<"DEY", "IMP">>
  /\ label(232) = <<"INX", "IMP">> /\ label(200) = <<"INY", "IMP">>
  BY DEF label, aJumpTable

LEMMA ShiftLabels ==
  /\ label(10) = <<"ASL", "A">> /\ label(6) = <<"ASL", "ZP">> /\ label(22) = <<"ASL", "ZPX">>
  /\ label(14) = <<"ASL", "AB">> /\ label(30) = <<"ASL", "ABX">> /\ label(74) = <<"LSR", "A">>
  /\ label(70) = <<"LSR", "ZP">> /\ label(86) = <<"LSR", "ZPX">> /\ label(78) = <<"LSR", "AB">>
  /\ label(94) = <<"LSR", "ABX">> /\ label(42) = <<"ROL", "A">> /\ label(38) = <<"ROL", "ZP">>
  /\ label(54) = <<"ROL", "ZPX">> /\ label(46) = <<"ROL", "AB">> /\ label(62) = <<"ROL", "ABX">>
  /\ label(106) = <<"ROR", "A">> /\ label(102) = <<"ROR", "ZP">> /\ label(118) = <<"ROR", "ZPX">>
  /\ label(110) = <<"ROR", "AB">> /\ label(126) = <<"ROR", "ABX">>
  BY DEF label, aJumpTable

LEMMA FlowLabels ==
  /\ label(24) = <<"CLC", "IMP">> /\ label(216) = <<"CLD", "IMP">> /\ label(88) = <<"CLI", "IMP">>
  /\ label(184) = <<"CLV", "IMP">> /\ label(56) = <<"SEC", "IMP">> /\ label(248) = <<"SED", "IMP">>
  /\ label(120) = <<"SEI", "IMP">> /\ label(234) = <<"NOP", "IMP">> /\ label(144) = <<"BCC", "REL">>
  /\ label(176) = <<"BCS", "REL">> /\ label(240) = <<"BEQ", "REL">> /\ label(208) = <<"BNE", "REL">>
  /\ label(48) = <<"BMI", "REL">> /\ label(16) = <<"BPL", "REL">> /\ label(80) = <<"BVC", "REL">>
  /\ label(112) = <<"BVS", "REL">>
  BY DEF label, aJumpTable

LEMMA JumpLabels ==
  /\ label(72) = <<"PHA", "IMP">> /\ label(8) = <<"PHP", "IMP">> /\ label(104) = <<"PLA", "IMP">>
  /\ label(40) = <<"PLP", "IMP">> /\ label(76) = <<"JMP", "AB">> /\ label(108) = <<"JMP", "IND">>
  /\ label(32) = <<"JSR", "AB">> /\ label(96) = <<"RTS", "IMP">> /\ label(0) = <<"BRK", "IMP">>
  /\ label(64) = <<"RTI", "IMP">>
  BY DEF label, aJumpTable

\* The table leads from the opcode of an instruction to its handler.
Labelled(op) == \A mode \in DOMAIN Opcode[op] : label(Opcode[op][mode]) = <<op, mode>>

LEMMA EveryOpcodeLabelled == \A op \in DOMAIN Opcode : Labelled(op)
<1>1. Labelled("LDA") /\ Labelled("LDX") /\ Labelled("LDY") /\ Labelled("TAX")
  BY LoadLabels DEF Labelled, Opcode
<1>2. Labelled("TAY") /\ Labelled("TSX")
  BY LoadLabels DEF Labelled, Opcode
<1>3. Labelled("STA") /\ Labelled("STX") /\ Labelled("STY") /\ Labelled("TXA")
  BY StoreLabels DEF Labelled, Opcode
<1>4. Labelled("TYA") /\ Labelled("TXS")
  BY StoreLabels DEF Labelled, Opcode
<1>5. Labelled("ADC") /\ Labelled("SBC") /\ Labelled("CMP")
  BY SumLabels DEF Labelled, Opcode
<1>6. Labelled("AND") /\ Labelled("ORA") /\ Labelled("EOR")
  BY LogicLabels DEF Labelled, Opcode
<1>7. Labelled("CPX") /\ Labelled("CPY") /\ Labelled("BIT") /\ Labelled("DEC")
  BY CompareLabels DEF Labelled, Opcode
<1>8. Labelled("INC") /\ Labelled("DEX") /\ Labelled("DEY") /\ Labelled("INX")
  BY CompareLabels DEF Labelled, Opcode
<1>9. Labelled("INY")
  BY CompareLabels DEF Labelled, Opcode
<1>10. Labelled("ASL") /\ Labelled("LSR") /\ Labelled("ROL") /\ Labelled("ROR")
  BY ShiftLabels DEF Labelled, Opcode
<1>11. Labelled("CLC") /\ Labelled("CLD") /\ Labelled("CLI") /\ Labelled("CLV")
      /\ Labelled("SEC") /\ Labelled("SED") /\ Labelled("SEI") /\ Labelled("NOP")
  BY FlowLabels DEF Labelled, Opcode
<1>12. Labelled("BCC") /\ Labelled("BCS") /\ Labelled("BEQ") /\ Labelled("BNE")
      /\ Labelled("BMI") /\ Labelled("BPL") /\ Labelled("BVC") /\ Labelled("BVS")
  BY FlowLabels DEF Labelled, Opcode
<1>13. Labelled("PHA") /\ Labelled("PHP") /\ Labelled("PLA") /\ Labelled("PLP")
  BY JumpLabels DEF Labelled, Opcode
<1>14. Labelled("JMP") /\ Labelled("JSR") /\ Labelled("RTS") /\ Labelled("BRK")
  BY JumpLabels DEF Labelled, Opcode
<1>15. Labelled("RTI")
  BY JumpLabels DEF Labelled, Opcode
<1>. QED
  BY <1>1, <1>2, <1>3, <1>4, <1>5, <1>6, <1>7, <1>8, <1>9, <1>10, <1>11, <1>12,
     <1>13, <1>14, <1>15, OpcodeNames

\* The bytes that are no opcode.
Unused ==
  {2, 3, 4, 7, 11, 12, 15, 18, 19, 20, 23, 26, 27, 28, 31, 34, 35, 39, 43, 47, 50, 51, 52, 55,
   58, 59, 60, 63, 66, 67, 68, 71, 75, 79, 82, 83, 84, 87, 90, 91, 92, 95, 98, 99, 100, 103,
   107, 111, 114, 115, 116, 119, 122, 123, 124, 127, 128, 130, 131, 135, 137, 139, 143, 146,
   147, 151, 155, 156, 158, 159, 163, 167, 171, 175, 178, 179, 183, 187, 191, 194, 195, 199,
   203, 207, 210, 211, 212, 215, 218, 219, 220, 223, 226, 227, 231, 235, 239, 242, 243, 244,
   247, 250, 251, 252, 255}

LEMMA UnusedBad == \A b \in Unused : label(b) = BAD
  BY DEF Unused, label, aJumpTable

\* The opcodes of an instruction.
Codes(op) == {Opcode[op][mode] : mode \in DOMAIN Opcode[op]}

LEMMA EveryByte == \A b \in Byte : b \in Unused \/ \E op \in DOMAIN Opcode : b \in Codes(op)
<1>1. /\ Codes("LDA") = {169, 165, 181, 173, 189, 185, 161, 177}
      /\ Codes("LDX") = {162, 166, 182, 174, 190}
      /\ Codes("LDY") = {160, 164, 180, 172, 188}
      /\ Codes("TAX") = {170}
  BY DEF Codes, Opcode
<1>2. /\ Codes("TAY") = {168}
      /\ Codes("TSX") = {186}
  BY DEF Codes, Opcode
<1>3. /\ Codes("STA") = {133, 149, 141, 157, 153, 129, 145}
      /\ Codes("STX") = {134, 150, 142}
      /\ Codes("STY") = {132, 148, 140}
      /\ Codes("TXA") = {138}
  BY DEF Codes, Opcode
<1>4. /\ Codes("TYA") = {152}
      /\ Codes("TXS") = {154}
  BY DEF Codes, Opcode
<1>5. /\ Codes("ADC") = {105, 101, 117, 109, 125, 121, 97, 113}
      /\ Codes("SBC") = {233, 229, 245, 237, 253, 249, 225, 241}
      /\ Codes("CMP") = {201, 197, 213, 205, 221, 217, 193, 209}
  BY DEF Codes, Opcode
<1>6. /\ Codes("AND") = {41, 37, 53, 45, 61, 57, 33, 49}
      /\ Codes("ORA") = {9, 5, 21, 13, 29, 25, 1, 17}
      /\ Codes("EOR") = {73, 69, 85, 77, 93, 89, 65, 81}
  BY DEF Codes, Opcode
<1>7. /\ Codes("CPX") = {224, 228, 236}
      /\ Codes("CPY") = {192, 196, 204}
      /\ Codes("BIT") = {36, 44}
      /\ Codes("DEC") = {198, 214, 206, 222}
  BY DEF Codes, Opcode
<1>8. /\ Codes("INC") = {230, 246, 238, 254}
      /\ Codes("DEX") = {202}
      /\ Codes("DEY") = {136}
      /\ Codes("INX") = {232}
  BY DEF Codes, Opcode
<1>9. /\ Codes("INY") = {200}
  BY DEF Codes, Opcode
<1>10. /\ Codes("ASL") = {10, 6, 22, 14, 30}
      /\ Codes("LSR") = {74, 70, 86, 78, 94}
      /\ Codes("ROL") = {42, 38, 54, 46, 62}
      /\ Codes("ROR") = {106, 102, 118, 110, 126}
  BY DEF Codes, Opcode
<1>11. /\ Codes("CLC") = {24}
      /\ Codes("CLD") = {216}
      /\ Codes("CLI") = {88}
      /\ Codes("CLV") = {184}
      /\ Codes("SEC") = {56}
      /\ Codes("SED") = {248}
      /\ Codes("SEI") = {120}
      /\ Codes("NOP") = {234}
  BY DEF Codes, Opcode
<1>12. /\ Codes("BCC") = {144}
      /\ Codes("BCS") = {176}
      /\ Codes("BEQ") = {240}
      /\ Codes("BNE") = {208}
      /\ Codes("BMI") = {48}
      /\ Codes("BPL") = {16}
      /\ Codes("BVC") = {80}
      /\ Codes("BVS") = {112}
  BY DEF Codes, Opcode
<1>13. /\ Codes("PHA") = {72}
      /\ Codes("PHP") = {8}
      /\ Codes("PLA") = {104}
      /\ Codes("PLP") = {40}
      /\ Codes("JMP") = {76, 108}
  BY DEF Codes, Opcode
<1>14. /\ Codes("JSR") = {32}
      /\ Codes("RTS") = {96}
      /\ Codes("BRK") = {0}
      /\ Codes("RTI") = {64}
  BY DEF Codes, Opcode
<1>. QED
  BY <1>1, <1>2, <1>3, <1>4, <1>5, <1>6, <1>7, <1>8, <1>9, <1>10, <1>11, <1>12,
     <1>13, <1>14, OpcodeNames DEF Byte, Unused

\* A byte is the opcode of at most one instruction, which its label tells.
LEMMA LabelOf ==
  ASSUME NEW op \in DOMAIN Opcode, NEW mode \in Fetched(op)
  PROVE  label(opcode) = <<op, mode>>
  BY EveryOpcodeLabelled DEF Labelled, Fetched

LEMMA OneInstruction ==
  ASSUME NEW op \in DOMAIN Opcode, NEW mode \in Fetched(op),
         NEW other \in DOMAIN Opcode, NEW otherMode \in Fetched(other)
  PROVE  other = op /\ otherMode = mode
<1>1. label(opcode) = <<op, mode>> /\ label(opcode) = <<other, otherMode>>
  BY LabelOf
<1>2. <<op, mode>> = <<other, otherMode>>
  BY <1>1, Zenon
<1>. QED
  BY <1>2

LEMMA FetchedAlone ==
  ASSUME NEW op \in DOMAIN Opcode, Fetched(op) # {}
  PROVE  \A other \in DOMAIN Opcode \ {op} : Fetched(other) = {}
  BY OneInstruction

\* The handler BAD is reached from the bytes that are no opcode.
LEMMA BadLabel ==
  ASSUME running, opcode \in Byte
  PROVE  (\A op \in DOMAIN Opcode : Fetched(op) = {}) <=> label(opcode) = BAD
<1>1. CASE opcode \in Unused
  <2>1. label(opcode) = BAD
    BY <1>1, UnusedBad
  <2>2. \A op \in DOMAIN Opcode : \A mode \in Fetched(op) : FALSE
    BY <2>1, LabelOf DEF BAD
  <2>. QED
    BY <2>1, <2>2
<1>2. CASE opcode \notin Unused
  <2>1. PICK op \in DOMAIN Opcode : opcode \in Codes(op)
    BY <1>2, EveryByte
  <2>2. PICK mode \in DOMAIN Opcode[op] : opcode = Opcode[op][mode]
    BY <2>1 DEF Codes
  <2>3. mode \in Fetched(op)
    BY <2>2 DEF Fetched
  <2>4. label(opcode) = <<op, mode>>
    BY <2>3, LabelOf
  <2>. QED
    BY <2>3, <2>4 DEF BAD
<1>. QED
  BY <1>1, <1>2

-----------------------------------------------------------------------------
(***************************************************************************)
(* The ALU: whatever the operands, a result is a byte, and a status that   *)
(* has no break and no unused flag gains neither.                          *)
(***************************************************************************)
\* The flags the status register can hold.
RealFlag == Flag \ {F_BREAK, F_UNUSED}

LEMMA RealFlags ==
  /\ RealFlag = {F_CARRY, F_ZERO, F_INTERRUPT, F_DECIMAL, F_OVERFLOW, F_NEGATIVE}
  /\ RealFlag \subseteq Flag
  /\ RealFlag \cap {F_BREAK, F_UNUSED} = {}
  BY DEF RealFlag, Flag, F_CARRY, F_ZERO, F_INTERRUPT, F_DECIMAL, F_BREAK, F_UNUSED,
         F_OVERFLOW, F_NEGATIVE

LEMMA ByteModulo ==
  ASSUME NEW n \in Int
  PROVE  n % 256 \in Byte
  BY DEF Byte

LEMMA ToByteType ==
  ASSUME NEW S
  PROVE  ToByte(S) \in Byte
  BY DEF ToByte, Weight, Byte

LEMMA LogicType ==
  ASSUME NEW a, NEW b
  PROVE  And(a, b) \in Byte /\ Or(a, b) \in Byte /\ Xor(a, b) \in Byte
  BY ToByteType DEF And, Or, Xor

LEMMA FlagIfType ==
  ASSUME NEW f \in RealFlag, NEW condition
  PROVE  FlagIf(f, condition) \subseteq RealFlag
  BY DEF FlagIf

LEMMA NZType ==
  ASSUME NEW n
  PROVE  NZ(n) \subseteq RealFlag
  BY FlagIfType, RealFlags DEF NZ

LEMMA UpdateNZType ==
  ASSUME NEW S \in SUBSET RealFlag, NEW n
  PROVE  updateNZ(S, n) \in SUBSET RealFlag
  BY NZType DEF updateNZ

LEMMA CmpByteType ==
  ASSUME NEW S \in SUBSET RealFlag, NEW a, NEW b
  PROVE  cmpByte(S, a, b) \in SUBSET RealFlag
  BY NZType, FlagIfType, RealFlags DEF cmpByte

LEMMA BitTestType ==
  ASSUME NEW S \in SUBSET RealFlag, NEW a, NEW b
  PROVE  bitTest(S, a, b) \in SUBSET RealFlag
  BY FlagIfType, RealFlags DEF bitTest

\* What an operator that returns a byte and updates the status yields.
IsResult(r) == r.iStatus \in SUBSET RealFlag /\ r.iValue \in Byte

LEMMA ShiftedType ==
  ASSUME NEW S \in SUBSET RealFlag, NEW n \in Byte, NEW c
  PROVE  IsResult(Shifted(S, n, c))
<1>1. (S \ {F_CARRY}) \cup FlagIf(F_CARRY, c) \in SUBSET RealFlag
  BY FlagIfType, RealFlags
<1>. QED
  BY <1>1, UpdateNZType DEF Shifted, IsResult

LEMMA ShiftRange ==
  ASSUME NEW n \in Byte, NEW c \in {0, 1}
  PROVE  /\ (2 * n) % 256 \in Byte
         /\ ((2 * n) % 256) + c \in Byte
         /\ n \div 2 \in Byte
         /\ (n \div 2) + 128 * c \in Byte
  BY DEF Byte

LEMMA CarryType == ASSUME NEW S PROVE Carry(S) \in {0, 1}
  BY DEF Carry

LEMMA ShiftType ==
  ASSUME NEW S \in SUBSET RealFlag, NEW n \in Byte
  PROVE  /\ IsResult(shiftLeftWithCarry(S, n))
         /\ IsResult(shiftRightWithCarry(S, n))
         /\ IsResult(rotateLeftWithCarry(S, n))
         /\ IsResult(rotateRightWithCarry(S, n))
  BY ShiftedType, ShiftRange, CarryType
  DEF shiftLeftWithCarry, shiftRightWithCarry, rotateLeftWithCarry, rotateRightWithCarry

-----------------------------------------------------------------------------
LEMMA NybbleType ==
  ASSUME NEW n \in Int
  PROVE  LowNybble(n) \in Int /\ HighNybble(n) \in Int
  BY DEF LowNybble, HighNybble

LEMMA JoinedType ==
  ASSUME NEW h \in Int, NEW l \in Int
  PROVE  Joined(h, l) \in Int
  BY DEF Joined, HighNybble, LowNybble

LEMMA ByteOperands ==
  ASSUME NEW S, NEW a \in Byte, NEW b \in Byte
  PROVE  /\ a \in Int /\ b \in Int /\ Carry(S) \in Int
         /\ LowNybble(a) \in Int /\ HighNybble(a) \in Int
         /\ LowNybble(b) \in Int /\ HighNybble(b) \in Int
  BY NybbleType, CarryType DEF Byte

LEMMA AddBCDType ==
  ASSUME NEW S, NEW a \in Byte, NEW b \in Byte
  PROVE  addBCDWithCarry(S, a, b) \in Int
<1>. DEFINE low  == LowNybble(a) + LowNybble(b) + Carry(S)
            high == HighNybble(a) + HighNybble(b) + (IF low > 9 THEN 16 ELSE 0)
            h    == IF high > 144 THEN high + 96 ELSE high
            l    == IF low > 9 THEN low + 6 ELSE low
<1>1. low \in Int
  BY ByteOperands
<1>2. high \in Int
  BY <1>1, ByteOperands
<1>. HIDE DEF low, high
<1>3. h \in Int /\ l \in Int
  BY <1>1, <1>2
<1>. HIDE DEF h, l
<1>4. Joined(h, l) \in Int
  BY <1>3, JoinedType
<1>5. addBCDWithCarry(S, a, b) = Joined(h, l)
  BY DEF addBCDWithCarry, low, high, h, l
<1>. QED
  BY <1>4, <1>5

LEMMA SubBCDType ==
  ASSUME NEW S, NEW a \in Byte, NEW b \in Byte
  PROVE  subBCDWithCarry(S, a, b) \in Int
<1>. DEFINE low  == LowNybble(a) - LowNybble(b) - (1 - Carry(S))
            high == HighNybble(a) - HighNybble(b) - (IF low % 32 >= 16 THEN 1 ELSE 0)
            h    == IF high % 512 >= 256 THEN high - 96 ELSE high
            l    == IF low % 32 >= 16 THEN low - 6 ELSE low
<1>1. low \in Int
  BY ByteOperands
<1>2. high \in Int
  BY <1>1, ByteOperands
<1>. HIDE DEF low, high
<1>3. h \in Int /\ l \in Int
  BY <1>1, <1>2
<1>. HIDE DEF h, l
<1>4. Joined(h, l) \in Int
  BY <1>3, JoinedType
<1>5. subBCDWithCarry(S, a, b) = Joined(h, l)
  BY DEF subBCDWithCarry, low, high, h, l
<1>. QED
  BY <1>4, <1>5

LEMMA SumStatusType ==
  ASSUME NEW S \in SUBSET RealFlag, NEW n, NEW c, NEW v
  PROVE  (S \ F_NZCV) \cup NZ(n) \cup FlagIf(F_CARRY, c) \cup FlagIf(F_OVERFLOW, v)
           \in SUBSET RealFlag
  BY NZType, FlagIfType, RealFlags

LEMMA AddType ==
  ASSUME NEW S \in SUBSET RealFlag, NEW a \in Byte, NEW b \in Byte
  PROVE  IsResult(addByteWithCarry(S, a, b))
<1>. DEFINE sum  == IF F_DECIMAL \in S THEN addBCDWithCarry(S, a, b) ELSE Carry(S) + b + a
            v    == Negative(b) = Negative(a) /\ Negative(b) # Negative(sum % 256)
            r    == addByteWithCarry(S, a, b)
<1>1. Carry(S) + b + a \in Int
  BY ByteOperands
<1>2. sum \in Int
  BY <1>1, AddBCDType
<1>3. sum % 256 \in Byte
  BY <1>2, ByteModulo
<1>4. /\ r.iValue = sum % 256
      /\ r.iStatus = (S \ F_NZCV) \cup NZ(sum % 256)
                       \cup FlagIf(F_CARRY, Bit8(sum)) \cup FlagIf(F_OVERFLOW, v)
  BY Zenon DEF addByteWithCarry
<1>. HIDE DEF sum, v, r
<1>5. IsResult(r)
  BY <1>3, <1>4, SumStatusType DEF IsResult
<1>. QED
  BY <1>5 DEF r

LEMMA SubType ==
  ASSUME NEW S \in SUBSET RealFlag, NEW a \in Byte, NEW b \in Byte
  PROVE  IsResult(subByteWithCarry(S, a, b))
<1>. DEFINE diff == IF F_DECIMAL \in S THEN subBCDWithCarry(S, a, b)
                                       ELSE a - b - (1 - Carry(S))
            v    == Negative(b) # Negative(a) /\ Negative(a) # Negative(diff % 256)
            r    == subByteWithCarry(S, a, b)
<1>1. a - b - (1 - Carry(S)) \in Int
  BY ByteOperands
<1>2. diff \in Int
  BY <1>1, SubBCDType
<1>3. diff % 256 \in Byte
  BY <1>2, ByteModulo
<1>4. /\ r.iValue = diff % 256
      /\ r.iStatus = (S \ F_NZCV) \cup NZ(diff % 256)
                       \cup FlagIf(F_CARRY, ~Bit8(diff)) \cup FlagIf(F_OVERFLOW, v)
  BY Zenon DEF subByteWithCarry
<1>. HIDE DEF diff, v, r
<1>5. IsResult(r)
  BY <1>3, <1>4, SumStatusType DEF IsResult
<1>. QED
  BY <1>5 DEF r

-----------------------------------------------------------------------------
\* The invariant.
Inv == MachineOK /\ BreakNeverInStatus

-----------------------------------------------------------------------------
(***************************************************************************)
(* Bytes, words and memory.                                                *)
(***************************************************************************)
LEMMA ReadByteType ==
  ASSUME NEW m, IsMemory(m), NEW a
  PROVE  readByte(m, a) \in Byte
  BY DEF readByte, IsMemory, Byte

LEMMA WordType ==
  ASSUME NEW low \in Byte, NEW high \in Byte
  PROVE  low + 256 * high \in Address
  BY DEF Byte, Address, MEM_SIZE

LEMMA ReadWordType ==
  ASSUME NEW m, IsMemory(m), NEW a
  PROVE  readWord(m, a) \in Address
<1>. DEFINE low  == readByte(m, a)
            high == readByte(m, a + 1)
<1>1. low \in Byte /\ high \in Byte
  BY ReadByteType
<1>2. readWord(m, a) = low + 256 * high
  BY DEF readWord
<1>. HIDE DEF low, high
<1>. QED
  BY <1>1, <1>2, WordType

LEMMA ByteIsAddress ==
  ASSUME NEW b \in Byte
  PROVE  b \in Int /\ b \in Address
  BY DEF Byte, Address, MEM_SIZE

LEMMA AddressIsInt ==
  ASSUME NEW a \in Address
  PROVE  a \in Int
  BY DEF Address

LEMMA WriteByteType ==
  ASSUME NEW m, IsMemory(m), NEW a \in Int, NEW v \in Byte
  PROVE  IsMemory(writeByte(m, a, v))
<1> DEFINE c == a % MEM_SIZE
           w == [b \in DOMAIN m \cup {c} |-> IF b = c THEN v ELSE m[b]]
<1>1. c \in 0 .. MEM_SIZE - 1
  BY DEF MEM_SIZE
<1>2. DOMAIN w = DOMAIN m \cup {c}
  OBVIOUS
<1>3. \A b \in DOMAIN w : w[b] \in 0 .. 255
  BY DEF IsMemory, Byte
<1>4. writeByte(m, a, v) = w
  BY DEF writeByte
<1> HIDE DEF w, c
<1>. QED
  BY <1>1, <1>2, <1>3, <1>4 DEF IsMemory

LEMMA ByteOfWord ==
  ASSUME NEW n \in Int
  PROVE  LowByte(n) \in Byte /\ HighByte(n) \in Byte
  BY DEF LowByte, HighByte, Byte

LEMMA ModeIs ==
  Mode = {"IMP", "A", "IM", "ZP", "ZPX", "ZPY", "IX", "IY", "REL", "AB", "ABX", "ABY", "IND"}
  BY DEF Mode, SIZE

LEMMA SizeType == \A mode \in Mode : SIZE[mode] \in 1 .. 3
  BY DEF Mode, SIZE

LEMMA FetchedMode ==
  ASSUME NEW op \in DOMAIN Opcode
  PROVE  Fetched(op) \subseteq Mode
<1>1. DOMAIN Opcode[op] \subseteq Mode
  BY ModeIs DEF Opcode
<1>. QED
  BY <1>1 DEF Fetched

\* The modes of the instructions that write memory.
CellMode == {"ZP", "ZPX", "ZPY", "AB", "ABX", "ABY", "IX", "IY"}

LEMMA StoreMode ==
  /\ \A op \in {"STA", "STX", "STY", "DEC", "INC"} : Fetched(op) \subseteq CellMode
  /\ \A op \in {"ASL", "LSR", "ROL", "ROR"} : Fetched(op) \subseteq CellMode \cup {"A"}
<1>1. /\ \A op \in {"STA", "STX", "STY", "DEC", "INC"} : DOMAIN Opcode[op] \subseteq CellMode
      /\ \A op \in {"ASL", "LSR", "ROL", "ROR"} : DOMAIN Opcode[op] \subseteq CellMode \cup {"A"}
  BY DEF Opcode, CellMode
<1>. QED
  BY <1>1 DEF Fetched

LEMMA IndexType ==
  ASSUME NEW n \in Int, NEW i \in Int
  PROVE  (n + i) % MEM_SIZE \in Address /\ (n + i) % 256 \in Address
<1>. DEFINE k == n + i
<1>1. k \in Int
  OBVIOUS
<1>. HIDE DEF k
<1>2. k % MEM_SIZE \in Address /\ k % 256 \in Address
  BY <1>1 DEF MEM_SIZE, Address
<1>. QED
  BY <1>2 DEF k

LEMMA AddressType ==
  ASSUME MachineOK, NEW mode \in CellMode
  PROVE  address(mode) \in Address
<1>1. /\ readByte(aBytes, iProgramCounter + 1) \in Int
      /\ readByte(aBytes, iProgramCounter + 1) \in Address
      /\ iXIndex \in Int /\ iYIndex \in Int
  <2>1. readByte(aBytes, iProgramCounter + 1) \in Byte /\ iXIndex \in Byte /\ iYIndex \in Byte
    BY ReadByteType DEF MachineOK
  <2>. QED
    BY <2>1, ByteIsAddress
<1>2. \A a : readWord(aBytes, a) \in Address /\ readWord(aBytes, a) \in Int
  BY ReadWordType, AddressIsInt DEF MachineOK
<1>3. CASE mode = "ZP"
  BY <1>1, <1>3 DEF address, addrZeroPageByte
<1>4. CASE mode = "ZPX"
  BY <1>1, <1>4, IndexType DEF address, addrZeroPageXByte
<1>5. CASE mode = "ZPY"
  BY <1>1, <1>5, IndexType DEF address, addrZeroPageYByte
<1>6. CASE mode = "AB"
  BY <1>2, <1>6 DEF address, addrAbsoluteByte
<1>7. CASE mode = "ABX"
  BY <1>1, <1>2, <1>7, IndexType DEF address, addrAbsoluteXByte
<1>8. CASE mode = "ABY"
  BY <1>1, <1>2, <1>8, IndexType DEF address, addrAbsoluteYByte
<1>9. CASE mode = "IX"
  BY <1>2, <1>9 DEF address, addrPreIndexZeroPageXByte
<1>10. CASE mode = "IY"
  BY <1>1, <1>2, <1>10, IndexType DEF address, addrPostIndexZeroPageYByte
<1>. QED
  BY <1>3, <1>4, <1>5, <1>6, <1>7, <1>8, <1>9, <1>10 DEF CellMode

-----------------------------------------------------------------------------
(***************************************************************************)
(* What a step must establish, and that the steps handlers share do.       *)
(***************************************************************************)
LEMMA InvStatus ==
  ASSUME Inv
  PROVE  iStatus \in SUBSET RealFlag
  BY DEF Inv, MachineOK, BreakNeverInStatus, RealFlag

LEMMA StatusInv ==
  ASSUME NEW S \in SUBSET RealFlag
  PROVE  S \subseteq Flag /\ S \cap {F_BREAK, F_UNUSED} = {}
  BY RealFlags

LEMMA HandlerStep ==
  ASSUME Inv,
         iProgramCounter' \in Address,
         iAccumulator' \in Byte,
         iStatus' \in SUBSET RealFlag,
         iXIndex' \in Byte,
         iYIndex' \in Byte,
         iStackPointer' \in Byte,
         IsMemory(aBytes')
  PROVE  Inv'
<1>1. iStatus' \subseteq Flag /\ iStatus' \cap {F_BREAK, F_UNUSED} = {}
  BY StatusInv
<1>2. IsMemory(aBytes)'
  OBVIOUS
<1>. QED
  BY <1>1, <1>2 DEF Inv, MachineOK, BreakNeverInStatus

LEMMA GotoType ==
  ASSUME NEW a \in Int, goto(a)
  PROVE  iProgramCounter' \in Address
  BY DEF goto, Address, MEM_SIZE

LEMMA SizeStep ==
  ASSUME Inv, NEW mode \in Mode, size(mode)
  PROVE  iProgramCounter' \in Address
<1>1. iProgramCounter \in Int /\ SIZE[mode] \in Int
  BY SizeType, AddressIsInt DEF Inv, MachineOK
<1>2. iProgramCounter + SIZE[mode] \in Int
  BY <1>1
<1>. QED
  BY <1>2, GotoType DEF size

LEMMA Registers ==
  ASSUME Inv
  PROVE  /\ iProgramCounter \in Address
         /\ iAccumulator \in Byte
         /\ iStatus \in SUBSET RealFlag
         /\ iXIndex \in Byte
         /\ iYIndex \in Byte
         /\ iStackPointer \in Byte
         /\ IsMemory(aBytes)
         /\ MachineOK
  BY InvStatus DEF Inv, MachineOK

LEMMA LoadType ==
  ASSUME Inv, NEW mode
  PROVE  load(mode) \in Byte
  BY Registers, ReadByteType DEF load

LEMMA SetStatusStep ==
  ASSUME Inv, NEW mode \in Mode, NEW s \in SUBSET RealFlag, SetStatus(mode, s)
  PROVE  Inv'
<1>1. iProgramCounter' \in Address
  BY SizeStep DEF SetStatus
<1>. QED
  BY <1>1, Registers, HandlerStep DEF SetStatus

LEMMA SetAccumulatorStep ==
  ASSUME Inv, NEW mode \in Mode, NEW v \in Byte, NEW s \in SUBSET RealFlag,
         SetAccumulator(mode, v, s)
  PROVE  Inv'
<1>1. iProgramCounter' \in Address
  BY SizeStep DEF SetAccumulator
<1>. QED
  BY <1>1, Registers, HandlerStep DEF SetAccumulator

LEMMA SetIndexStep ==
  ASSUME Inv, NEW mode \in Mode, NEW v \in Byte, SetX(mode, v) \/ SetY(mode, v)
  PROVE  Inv'
<1>1. updateNZ(iStatus, v) \in SUBSET RealFlag
  BY Registers, UpdateNZType
<1>2. iProgramCounter' \in Address
  BY SizeStep DEF SetX, SetY
<1>. QED
  BY <1>1, <1>2, Registers, HandlerStep DEF SetX, SetY

LEMMA StoreStep ==
  ASSUME Inv, NEW mode \in CellMode, NEW v \in Byte, NEW s \in SUBSET RealFlag,
         store(mode, v, s)
  PROVE  Inv'
<1>1. mode \in Mode
  BY ModeIs DEF CellMode
<1>2. iProgramCounter' \in Address
  BY <1>1, SizeStep DEF store
<1>3. address(mode) \in Int
  BY Registers, AddressType, AddressIsInt
<1>4. IsMemory(aBytes')
  BY <1>3, Registers, WriteByteType DEF store
<1>. QED
  BY <1>2, <1>4, Registers, HandlerStep DEF store

LEMMA ShiftTyped ==
  ASSUME Inv, NEW mode \in CellMode \cup {"A"}, NEW r, IsResult(r), Shift(mode, r)
  PROVE  Inv'
<1>1. r.iValue \in Byte /\ r.iStatus \in SUBSET RealFlag
  BY DEF IsResult
<1>2. CASE mode = "A"
  BY <1>1, <1>2, SetAccumulatorStep, ModeIs DEF Shift
<1>3. CASE mode # "A"
  BY <1>1, <1>3, StoreStep DEF Shift
<1>. QED
  BY <1>2, <1>3

-----------------------------------------------------------------------------
(***************************************************************************)
(* Every handler preserves the invariant.                                  *)
(***************************************************************************)
LEMMA TransferStep == ASSUME Inv, Transfer PROVE Inv'
<1>. USE Registers, LoadType, UpdateNZType, FetchedMode, OpcodeNames
<1>1. CASE LDA
  BY <1>1, SetAccumulatorStep DEF LDA
<1>2. CASE STA
  BY <1>2, StoreMode, StoreStep DEF STA
<1>3. CASE LDX
  BY <1>3, SetIndexStep DEF LDX
<1>4. CASE STX
  BY <1>4, StoreMode, StoreStep DEF STX
<1>5. CASE LDY
  BY <1>5, SetIndexStep DEF LDY
<1>6. CASE STY
  BY <1>6, StoreMode, StoreStep DEF STY
<1>7. CASE TAX
  BY <1>7, SetIndexStep DEF TAX
<1>8. CASE TAY
  BY <1>8, SetIndexStep DEF TAY
<1>9. CASE TSX
  BY <1>9, SetIndexStep DEF TSX
<1>10. CASE TXA
  BY <1>10, SetAccumulatorStep DEF TXA
<1>11. CASE TYA
  BY <1>11, SetAccumulatorStep DEF TYA
<1>12. CASE TXS
  <2>. PICK mode \in Fetched("TXS") :
         /\ iStackPointer' = iXIndex
         /\ size(mode)
         /\ UNCHANGED <<iAccumulator, iStatus, iXIndex, iYIndex, aBytes, host>>
    BY <1>12 DEF TXS
  <2>1. iProgramCounter' \in Address
    BY SizeStep
  <2>. QED
    BY <2>1, HandlerStep
<1>. QED
  BY <1>1, <1>2, <1>3, <1>4, <1>5, <1>6, <1>7, <1>8, <1>9, <1>10, <1>11, <1>12
  DEF Transfer

LEMMA ArithmeticStep == ASSUME Inv, Arithmetic PROVE Inv'
<1>. USE Registers, LoadType, FetchedMode, OpcodeNames
<1>1. CASE ADC
  BY <1>1, AddType, SetAccumulatorStep DEF ADC, IsResult
<1>2. CASE SBC
  BY <1>2, SubType, SetAccumulatorStep DEF SBC, IsResult
<1>3. CASE AND \/ ORA \/ EOR
  BY <1>3, LogicType, UpdateNZType, SetAccumulatorStep DEF AND, ORA, EOR, Logic
<1>4. CASE CMP \/ CPX \/ CPY
  BY <1>4, CmpByteType, SetStatusStep DEF CMP, CPX, CPY
<1>5. CASE BIT
  BY <1>5, BitTestType, SetStatusStep DEF BIT
<1>. QED
  BY <1>1, <1>2, <1>3, <1>4, <1>5 DEF Arithmetic

LEMMA NextByte ==
  ASSUME NEW n \in Byte
  PROVE  (n + 1) % 256 \in Byte /\ (n - 1) % 256 \in Byte
  BY DEF Byte

LEMMA CountStep == ASSUME Inv, Count PROVE Inv'
<1>. USE Registers, LoadType, FetchedMode, OpcodeNames
<1>1. CASE DEX \/ INX
  BY <1>1, NextByte, SetIndexStep DEF DEX, INX
<1>2. CASE DEY \/ INY
  BY <1>2, NextByte, SetIndexStep DEF DEY, INY
<1>3. CASE DEC \/ INC
  BY <1>3, NextByte, UpdateNZType, StoreMode, StoreStep DEF DEC, INC, Update
<1>4. \A mode : target(mode) \in Byte
  BY DEF target
<1>5. CASE ASL \/ LSR
  BY <1>4, <1>5, ShiftType, StoreMode, ShiftTyped DEF ASL, LSR
<1>6. CASE ROL \/ ROR
  BY <1>4, <1>6, ShiftType, StoreMode, ShiftTyped DEF ROL, ROR
<1>. QED
  BY <1>1, <1>2, <1>3, <1>5, <1>6 DEF Count

LEMMA BranchStep ==
  ASSUME Inv, NEW op \in DOMAIN Opcode, NEW taken, Branch(op, taken)
  PROVE  Inv'
<1>1. PICK mode \in Fetched(op) :
        /\ goto(iProgramCounter + SIZE[mode]
                  + (IF taken THEN Signed(readByte(aBytes, iProgramCounter + 1)) ELSE 0))
        /\ UNCHANGED <<registers, aBytes, host>>
  BY DEF Branch
<1>2. iProgramCounter \in Int /\ SIZE[mode] \in Int
  BY Registers, FetchedMode, SizeType, AddressIsInt
<1>3. Signed(readByte(aBytes, iProgramCounter + 1)) \in Int
  <2>1. readByte(aBytes, iProgramCounter + 1) \in Byte
    BY Registers, ReadByteType
  <2>2. \A b \in Byte : Signed(b) \in Int
    BY DEF Signed, Byte
  <2>. QED
    BY <2>1, <2>2
<1>4. iProgramCounter + SIZE[mode]
        + (IF taken THEN Signed(readByte(aBytes, iProgramCounter + 1)) ELSE 0) \in Int
  BY <1>2, <1>3
<1>5. iProgramCounter' \in Address
  BY <1>1, <1>4, GotoType
<1>. QED
  BY <1>1, <1>5, Registers, HandlerStep DEF registers

LEMMA FlowStep == ASSUME Inv, Flow PROVE Inv'
<1>. USE Registers, FetchedMode, OpcodeNames
<1>1. CASE CLC \/ CLD \/ CLI \/ CLV
  BY <1>1, SetStatusStep DEF CLC, CLD, CLI, CLV, Clear
<1>2. CASE SEC \/ SED \/ SEI
  BY <1>2, RealFlags, SetStatusStep DEF SEC, SED, SEI, Set
<1>3. CASE NOP
  BY <1>3, SetStatusStep DEF NOP
<1>4. CASE BCC \/ BCS \/ BEQ \/ BNE
  BY <1>4, BranchStep DEF BCC, BCS, BEQ, BNE
<1>5. CASE BMI \/ BPL \/ BVC \/ BVS
  BY <1>5, BranchStep DEF BMI, BPL, BVC, BVS
<1>. QED
  BY <1>1, <1>2, <1>3, <1>4, <1>5 DEF Flow

(***************************************************************************)
(* The stack: a push keeps memory a memory and the pointer a byte.         *)
(***************************************************************************)
IsStack(s) == IsMemory(s.aBytes) /\ s.iStackPointer \in Byte

LEMMA StackOffset ==
  ASSUME NEW n \in Byte, NEW k \in 1 .. 3
  PROVE  STACK_BASE + n \in Int /\ (n - 1) % 256 \in Byte /\ (n + k) % 256 \in Byte
  BY DEF STACK_BASE, Byte

LEMMA PushType ==
  ASSUME NEW s, IsStack(s), NEW v \in Byte
  PROVE  IsStack(push(s, v))
<1>. DEFINE t == push(s, v)
<1>1. STACK_BASE + s.iStackPointer \in Int /\ (s.iStackPointer - 1) % 256 \in Byte
  BY StackOffset DEF IsStack
<1>2. /\ t.aBytes = writeByte(s.aBytes, STACK_BASE + s.iStackPointer, v)
      /\ t.iStackPointer = (s.iStackPointer - 1) % 256
  BY DEF push
<1>3. IsMemory(t.aBytes)
  BY <1>1, <1>2, WriteByteType DEF IsStack
<1>. QED
  BY <1>1, <1>2, <1>3 DEF IsStack

LEMMA PushAddressType ==
  ASSUME NEW s, IsStack(s), NEW n \in Int
  PROVE  IsStack(PushedAddress(s, n))
  BY PushType, ByteOfWord DEF PushedAddress

LEMMA StackType == ASSUME Inv PROVE IsStack(Stack)
  BY Registers DEF Stack, IsStack

LEMMA PushedStep ==
  ASSUME NEW s, IsStack(s), Pushed(s)
  PROVE  IsMemory(aBytes') /\ iStackPointer' \in Byte
  BY DEF IsStack, Pushed

LEMMA PulledStep ==
  ASSUME Inv, NEW n \in 1 .. 3, Pulled(n)
  PROVE  IsMemory(aBytes') /\ iStackPointer' \in Byte
  BY Registers, StackOffset DEF Pulled

LEMMA PullType == ASSUME Inv, NEW n PROVE pull(n) \in Byte
  BY Registers, ReadByteType DEF pull

LEMMA PushedStatusType == PushedStatus \in Byte
  BY ToByteType DEF PushedStatus

LEMMA PulledStatusType ==
  ASSUME Inv, NEW b
  PROVE  PulledStatus(b) \in SUBSET RealFlag
  BY DEF Inv, BreakNeverInStatus, PulledStatus, Bits, RealFlag

LEMMA JumpTarget ==
  ASSUME Inv
  PROVE  /\ operand \in Int
         /\ iProgramCounter + 2 \in Int
         /\ \A m, a : IsMemory(m) => readWord(m, a) \in Int
         /\ pull(1) + 256 * pull(2) + 1 \in Int
         /\ pull(2) + 256 * pull(3) \in Int
<1>1. \A m, a : IsMemory(m) => readWord(m, a) \in Int
  BY ReadWordType, AddressIsInt
<1>2. \A n : pull(n) \in Byte
  BY PullType
<1>3. \A a, b \in Byte : a + 256 * b + 1 \in Int /\ a + 256 * b \in Int
  BY DEF Byte
<1>. QED
  BY <1>1, <1>2, <1>3, Registers, AddressIsInt DEF operand

LEMMA JumpStep == ASSUME Inv, Jump PROVE Inv'
<1>. USE Registers, FetchedMode, OpcodeNames
<1>1. CASE PHA
  <2>. PICK mode \in Fetched("PHA") :
         /\ Pushed(push(Stack, iAccumulator))
         /\ size(mode)
         /\ UNCHANGED <<iAccumulator, iStatus, iXIndex, iYIndex, host>>
    BY <1>1 DEF PHA
  <2>1. iProgramCounter' \in Address
    BY SizeStep
  <2>2. IsMemory(aBytes') /\ iStackPointer' \in Byte
    BY StackType, PushType, PushedStep
  <2>. QED
    BY <2>1, <2>2, HandlerStep
<1>2. CASE PHP
  <2>. PICK mode \in Fetched("PHP") :
         /\ Pushed(push(Stack, PushedStatus))
         /\ size(mode)
         /\ UNCHANGED <<iAccumulator, iStatus, iXIndex, iYIndex, host>>
    BY <1>2 DEF PHP
  <2>1. iProgramCounter' \in Address
    BY SizeStep
  <2>2. IsMemory(aBytes') /\ iStackPointer' \in Byte
    BY StackType, PushType, PushedStatusType, PushedStep
  <2>. QED
    BY <2>1, <2>2, HandlerStep
<1>3. CASE PLA
  <2>. PICK mode \in Fetched("PLA") :
         /\ iAccumulator' = pull(1)
         /\ iStatus' = updateNZ(iStatus, pull(1))
         /\ Pulled(1)
         /\ size(mode)
         /\ UNCHANGED <<iXIndex, iYIndex, host>>
    BY <1>3 DEF PLA
  <2>1. iProgramCounter' \in Address
    BY SizeStep
  <2>2. IsMemory(aBytes') /\ iStackPointer' \in Byte
    BY PulledStep
  <2>. QED
    BY <2>1, <2>2, PullType, UpdateNZType, HandlerStep
<1>4. CASE PLP
  <2>. PICK mode \in Fetched("PLP") :
         /\ iStatus' = PulledStatus(pull(1))
         /\ Pulled(1)
         /\ size(mode)
         /\ UNCHANGED <<iAccumulator, iXIndex, iYIndex, host>>
    BY <1>4 DEF PLP
  <2>1. iProgramCounter' \in Address
    BY SizeStep
  <2>2. IsMemory(aBytes') /\ iStackPointer' \in Byte
    BY PulledStep
  <2>. QED
    BY <2>1, <2>2, PulledStatusType, HandlerStep
<1>5. CASE JMP_AB
  <2>1. iProgramCounter' \in Address
    BY <1>5, JumpTarget, GotoType DEF JMP_AB
  <2>. QED
    BY <1>5, <2>1, HandlerStep DEF JMP_AB, registers
<1>6. CASE JMP_IN
  <2>1. readByte(aBytes, operand) + 256 * readByte(aBytes, operand - 255) \in Int
    <3>1. readByte(aBytes, operand) \in Byte /\ readByte(aBytes, operand - 255) \in Byte
      BY ReadByteType
    <3>. QED
      BY <3>1, WordType, AddressIsInt
  <2>2. readWord(aBytes, operand) \in Int
    BY JumpTarget
  <2>3. iProgramCounter' \in Address
    BY <1>6, <2>1, <2>2, GotoType DEF JMP_IN
  <2>. QED
    BY <1>6, <2>3, HandlerStep DEF JMP_IN, registers
<1>7. CASE JSR
  <2>1. IsMemory(aBytes') /\ iStackPointer' \in Byte
    BY <1>7, JumpTarget, StackType, PushAddressType, PushedStep DEF JSR
  <2>2. iProgramCounter' \in Address
    BY <1>7, <2>1, JumpTarget, GotoType DEF JSR
  <2>. QED
    BY <1>7, <2>1, <2>2, HandlerStep DEF JSR
<1>8. CASE RTS
  <2>1. IsMemory(aBytes') /\ iStackPointer' \in Byte
    BY <1>8, PulledStep DEF RTS
  <2>2. iProgramCounter' \in Address
    BY <1>8, JumpTarget, GotoType DEF RTS
  <2>. QED
    BY <1>8, <2>1, <2>2, HandlerStep DEF RTS
<1>9. CASE BRK
  <2>1. IsMemory(aBytes') /\ iStackPointer' \in Byte
    BY <1>9, JumpTarget, StackType, PushAddressType, PushType, PushedStatusType, PushedStep
    DEF BRK
  <2>2. iProgramCounter' \in Address
    BY <1>9, <2>1, JumpTarget, GotoType DEF BRK
  <2>3. iStatus \cup {F_INTERRUPT} \in SUBSET RealFlag
    BY RealFlags
  <2>. QED
    BY <1>9, <2>1, <2>2, <2>3, HandlerStep DEF BRK
<1>10. CASE RTI
  <2>1. IsMemory(aBytes') /\ iStackPointer' \in Byte
    BY <1>10, PulledStep DEF RTI
  <2>2. iProgramCounter' \in Address
    BY <1>10, JumpTarget, GotoType DEF RTI
  <2>. QED
    BY <1>10, <2>1, <2>2, PulledStatusType, HandlerStep DEF RTI
<1>. QED
  BY <1>1, <1>2, <1>3, <1>4, <1>5, <1>6, <1>7, <1>8, <1>9, <1>10 DEF Jump

-----------------------------------------------------------------------------
(***************************************************************************)
(* Dispatch: a step of a run is the handler of the instruction it fetched. *)
(***************************************************************************)
Handler(op) ==
  /\ (op = "LDA" => LDA) /\ (op = "STA" => STA) /\ (op = "LDX" => LDX) /\ (op = "STX" => STX)
  /\ (op = "LDY" => LDY) /\ (op = "STY" => STY) /\ (op = "TAX" => TAX) /\ (op = "TAY" => TAY)
  /\ (op = "TSX" => TSX) /\ (op = "TXA" => TXA) /\ (op = "TYA" => TYA) /\ (op = "TXS" => TXS)
  /\ (op = "ADC" => ADC) /\ (op = "SBC" => SBC) /\ (op = "AND" => AND) /\ (op = "ORA" => ORA)
  /\ (op = "EOR" => EOR) /\ (op = "CMP" => CMP) /\ (op = "CPX" => CPX) /\ (op = "CPY" => CPY)
  /\ (op = "BIT" => BIT) /\ (op = "DEX" => DEX) /\ (op = "DEY" => DEY) /\ (op = "DEC" => DEC)
  /\ (op = "INX" => INX) /\ (op = "INY" => INY) /\ (op = "INC" => INC) /\ (op = "ASL" => ASL)
  /\ (op = "LSR" => LSR) /\ (op = "ROL" => ROL) /\ (op = "ROR" => ROR) /\ (op = "CLC" => CLC)
  /\ (op = "CLD" => CLD) /\ (op = "CLI" => CLI) /\ (op = "CLV" => CLV) /\ (op = "SEC" => SEC)
  /\ (op = "SED" => SED) /\ (op = "SEI" => SEI) /\ (op = "NOP" => NOP) /\ (op = "BCC" => BCC)
  /\ (op = "BCS" => BCS) /\ (op = "BEQ" => BEQ) /\ (op = "BNE" => BNE) /\ (op = "BMI" => BMI)
  /\ (op = "BPL" => BPL) /\ (op = "BVC" => BVC) /\ (op = "BVS" => BVS) /\ (op = "PHA" => PHA)
  /\ (op = "PHP" => PHP) /\ (op = "PLA" => PLA) /\ (op = "PLP" => PLP)
  /\ (op = "JMP" => (JMP_AB \/ JMP_IN))
  /\ (op = "JSR" => JSR) /\ (op = "RTS" => RTS) /\ (op = "BRK" => BRK) /\ (op = "RTI" => RTI)

LEMMA HandlerOf ==
  ASSUME Instruction, NEW op \in DOMAIN Opcode, Fetched(op) # {}
  PROVE  Handler(op)
<1>1. \A other \in DOMAIN Opcode : Fetched(other) # {} => other = op
  BY FetchedAlone
<1>2. CASE Transfer
  <2>1. (LDA => op = "LDA") /\ (STA => op = "STA") /\ (LDX => op = "LDX") /\ (STX => op = "STX")
    BY <1>1, OpcodeNames DEF LDA, STA, LDX, STX
  <2>2. (LDY => op = "LDY") /\ (STY => op = "STY") /\ (TAX => op = "TAX") /\ (TAY => op = "TAY")
    BY <1>1, OpcodeNames DEF LDY, STY, TAX, TAY
  <2>3. (TSX => op = "TSX") /\ (TXA => op = "TXA") /\ (TYA => op = "TYA") /\ (TXS => op = "TXS")
    BY <1>1, OpcodeNames DEF TSX, TXA, TYA, TXS
  <2>. QED
    BY <1>2, <2>1, <2>2, <2>3 DEF Transfer, Handler
<1>3. CASE Arithmetic
  <2>1. (ADC => op = "ADC") /\ (SBC => op = "SBC") /\ (AND => op = "AND") /\ (ORA => op = "ORA")
    BY <1>1, OpcodeNames DEF ADC, SBC, AND, ORA
  <2>2. (EOR => op = "EOR") /\ (CMP => op = "CMP") /\ (CPX => op = "CPX") /\ (CPY => op = "CPY")
    BY <1>1, OpcodeNames DEF EOR, CMP, CPX, CPY
  <2>3. (BIT => op = "BIT")
    BY <1>1, OpcodeNames DEF BIT
  <2>. QED
    BY <1>3, <2>1, <2>2, <2>3 DEF Arithmetic, Handler
<1>4. CASE Count
  <2>1. (DEX => op = "DEX") /\ (DEY => op = "DEY") /\ (DEC => op = "DEC") /\ (INX => op = "INX")
    BY <1>1, OpcodeNames DEF DEX, DEY, DEC, INX
  <2>2. (INY => op = "INY") /\ (INC => op = "INC") /\ (ASL => op = "ASL") /\ (LSR => op = "LSR")
    BY <1>1, OpcodeNames DEF INY, INC, ASL, LSR
  <2>3. (ROL => op = "ROL") /\ (ROR => op = "ROR")
    BY <1>1, OpcodeNames DEF ROL, ROR
  <2>. QED
    BY <1>4, <2>1, <2>2, <2>3 DEF Count, Handler
<1>5. CASE Flow
  <2>1. (CLC => op = "CLC") /\ (CLD => op = "CLD") /\ (CLI => op = "CLI") /\ (CLV => op = "CLV")
    BY <1>1, OpcodeNames DEF CLC, CLD, CLI, CLV, Clear
  <2>2. (SEC => op = "SEC") /\ (SED => op = "SED") /\ (SEI => op = "SEI") /\ (NOP => op = "NOP")
    BY <1>1, OpcodeNames DEF SEC, SED, SEI, NOP, Set
  <2>3. (BCC => op = "BCC") /\ (BCS => op = "BCS") /\ (BEQ => op = "BEQ") /\ (BNE => op = "BNE")
    BY <1>1, OpcodeNames DEF BCC, BCS, BEQ, BNE, Branch
  <2>4. (BMI => op = "BMI") /\ (BPL => op = "BPL") /\ (BVC => op = "BVC") /\ (BVS => op = "BVS")
    BY <1>1, OpcodeNames DEF BMI, BPL, BVC, BVS, Branch
  <2>. QED
    BY <1>5, <2>1, <2>2, <2>3, <2>4 DEF Flow, Handler
<1>6. CASE Jump
  <2>1. (PHA => op = "PHA") /\ (PHP => op = "PHP") /\ (PLA => op = "PLA") /\ (PLP => op = "PLP")
    BY <1>1, OpcodeNames DEF PHA, PHP, PLA, PLP
  <2>2. /\ (JMP_AB \/ JMP_IN) => op = "JMP"
        /\ (JSR => op = "JSR") /\ (RTS => op = "RTS") /\ (BRK => op = "BRK")
    BY <1>1, OpcodeNames DEF JMP_AB, JMP_IN, JSR, RTS, BRK
  <2>3. (RTI => op = "RTI")
    BY <1>1, OpcodeNames DEF RTI
  <2>. QED
    BY <1>6, <2>1, <2>2, <2>3 DEF Jump, Handler
<1>. QED
  BY <1>2, <1>3, <1>4, <1>5, <1>6 DEF Instruction

\* At a byte that is no opcode, run() can only return.
LEMMA NoHandler ==
  ASSUME \A op \in DOMAIN Opcode : Fetched(op) = {}
  PROVE  ~Instruction
<1>. USE OpcodeNames
<1>1. ~Transfer
  BY DEF Transfer, LDA, STA, LDX, STX, LDY, STY, TAX, TAY, TSX, TXA, TYA, TXS
<1>2. ~Arithmetic
  BY DEF Arithmetic, ADC, SBC, AND, ORA, EOR, CMP, CPX, CPY, BIT
<1>3. ~Count
  BY DEF Count, DEX, DEY, DEC, INX, INY, INC, ASL, LSR, ROL, ROR
<1>4. ~Flow
  BY DEF Flow, CLC, CLD, CLI, CLV, SEC, SED, SEI, NOP, BCC, BCS, BEQ, BNE, BMI, BPL,
         BVC, BVS, Clear, Set, Branch
<1>5. ~Jump
  BY DEF Jump, PHA, PHP, PLA, PLP, JMP_AB, JMP_IN, JSR, RTS, BRK, RTI
<1>. QED
  BY <1>1, <1>2, <1>3, <1>4, <1>5 DEF Instruction

LEMMA StepsStayIn ==
  ASSUME NEW mode, NEW n, NEW S
  PROVE  /\ SetStatus(mode, S) => UNCHANGED host
         /\ SetAccumulator(mode, n, S) => UNCHANGED host
         /\ SetX(mode, n) => UNCHANGED host
         /\ SetY(mode, n) => UNCHANGED host
         /\ store(mode, n, S) => UNCHANGED host
         /\ Shift(mode, n) => UNCHANGED host
  BY DEF SetStatus, SetAccumulator, SetX, SetY, store, Shift

\* A handler neither starts nor ends a run.
LEMMA InstructionStaysIn ==
  ASSUME Instruction
  PROVE  running /\ UNCHANGED host
<1>1. \A op, mode : mode \in Fetched(op) => running
  BY DEF Fetched
<1>2. CASE Transfer
  BY <1>1, StepsStayIn, <1>2
     DEF Transfer, LDA, STA, LDX, STX, LDY, STY, TAX, TAY, TSX, TXA, TYA, TXS
<1>3. CASE Arithmetic
  BY <1>1, StepsStayIn, <1>3 DEF Arithmetic, ADC, SBC, Logic, AND, ORA, EOR, CMP, CPX, CPY, BIT
<1>4. CASE Count
  BY <1>1, StepsStayIn, <1>4
     DEF Count, DEX, DEY, DEC, INX, INY, INC, ASL, LSR, ROL, ROR, Update
<1>5. CASE Flow
  BY <1>1, StepsStayIn, <1>5
     DEF Flow, CLC, CLD, CLI, CLV, SEC, SED, SEI, NOP, BCC, BCS, BEQ, BNE, BMI, BPL, BVC, BVS,
         Clear, Set, Branch
<1>6. CASE Jump
  BY <1>1, <1>6 DEF Jump, PHA, PHP, PLA, PLP, JMP_AB, JMP_IN, JSR, RTS, BRK, RTI
<1>. QED
  BY <1>2, <1>3, <1>4, <1>5, <1>6 DEF Instruction

\* Inside a run at an instruction, nothing happens but that instruction.
LEMMA NextTakes ==
  ASSUME Next, NEW op \in DOMAIN Opcode, Fetched(op) # {}
  PROVE  Handler(op) \/ (op = "JMP" /\ JumpToSelf)
<1>1. running
  BY DEF Fetched
<1>2. ~illegal /\ ~run /\ \A a \in EntryPoints : ~setProgramCounter(a)
  BY <1>1 DEF illegal, run, setProgramCounter
<1>3. CASE Instruction
  BY <1>3, HandlerOf
<1>4. CASE JumpToSelf
  <2>1. Fetched("JMP") # {} /\ "JMP" \in DOMAIN Opcode
    BY <1>4, OpcodeNames DEF JumpToSelf
  <2>. QED
    BY <1>4, <2>1, FetchedAlone
<1>. QED
  BY <1>2, <1>3, <1>4 DEF Next, Exit

LEMMA HandlerTaken ==
  ASSUME [Next]_vars, ~ UNCHANGED vars, NEW op \in DOMAIN Opcode, Fetched(op) # {}
  PROVE  Handler(op) \/ (op = "JMP" /\ JumpToSelf)
  BY NextTakes

-----------------------------------------------------------------------------
LEMMA InitInv == Init => Inv
<1>. SUFFICES ASSUME Init PROVE Inv
  OBVIOUS
<1>1. iStackPointer \in Byte /\ iAccumulator \in Byte /\ iXIndex \in Byte /\ iYIndex \in Byte
  BY DEF Init, STACK_TOP, STACK_BASE, Byte
<1>2. iProgramCounter \in Address
  BY DEF Init, Address, MEM_SIZE
<1>3. iStatus \subseteq Flag /\ iStatus \cap {F_BREAK, F_UNUSED} = {}
  BY RealFlags, StatusInv DEF Init
<1>4. IsMemory(aBytes)
  BY CpuAssumption DEF Init
<1>. QED
  BY <1>1, <1>2, <1>3, <1>4 DEF Inv, MachineOK, BreakNeverInStatus

LEMMA InstructionStep == ASSUME Inv, Instruction PROVE Inv'
  BY TransferStep, ArithmeticStep, CountStep, FlowStep, JumpStep DEF Instruction

LEMMA SameMachine ==
  ASSUME Inv, UNCHANGED <<registers, aBytes>>, iProgramCounter' \in Address
  PROVE  Inv'
  BY Registers, HandlerStep DEF registers

LEMMA ExitStep == ASSUME Inv, Exit PROVE Inv'
  BY Registers, SameMachine DEF Exit, JumpToSelf, illegal, return

LEMMA InvStep == ASSUME Inv, [Next]_vars PROVE Inv'
<1>1. CASE \E iAddress \in EntryPoints : setProgramCounter(iAddress)
  BY <1>1, CpuAssumption, SameMachine DEF setProgramCounter
<1>2. CASE run
  BY <1>2, Registers, SameMachine DEF run
<1>3. CASE UNCHANGED vars
  BY <1>3, Registers, SameMachine DEF vars
<1>. QED
  BY <1>1, <1>2, <1>3, InstructionStep, ExitStep DEF Next

\* The invariant is inductive.
THEOREM Invariance == Spec => []Inv
<1>1. Inv /\ [Next]_vars => Inv'
  BY InvStep
<1>. QED
  BY <1>1, InitInv, PTL DEF Spec

\* The host enters run() at most MaxRuns times.
HostOK == running \in BOOLEAN /\ runs \in 0 .. MaxRuns

\* A run that has ended is at a byte that ends runs, and stays there.
LEMMA ExitIsThere ==
  ASSUME Exit
  PROVE  AtExit /\ UNCHANGED <<iProgramCounter, registers, aBytes>>
  BY DEF Exit, JumpToSelf, illegal, return, Fetched, AtExit

LEMMA AtExitStays ==
  ASSUME AtExit, UNCHANGED <<iProgramCounter, aBytes>>
  PROVE  AtExit'
  BY DEF AtExit, opcode, operand

LEMMA HostStep == ASSUME HostOK, [Next]_vars PROVE HostOK'
<1>1. CASE \E iAddress \in EntryPoints : setProgramCounter(iAddress)
  BY <1>1 DEF setProgramCounter, host, HostOK
<1>2. CASE run
  BY <1>2, CpuAssumption DEF run, HostOK
<1>3. CASE Instruction
  BY <1>3, InstructionStaysIn DEF host, HostOK
<1>4. CASE Exit
  BY <1>4 DEF Exit, JumpToSelf, illegal, return, HostOK
<1>5. CASE UNCHANGED vars
  BY <1>5 DEF vars, host, HostOK
<1>. QED
  BY <1>1, <1>2, <1>3, <1>4, <1>5 DEF Next

LEMMA InitHost == Init => HostOK
<1>1. Init => runs \in 0 .. MaxRuns
  BY CpuAssumption, SMT DEF Init
<1>2. Init => running \in BOOLEAN
  BY Zenon DEF Init
<1>. QED
  BY <1>1, <1>2 DEF HostOK

\* Every register keeps its width and memory stays bytes at addresses, for
\* every image, set of entry points and number of runs.
THEOREM TypeCorrect == Spec => []TypeOK
<1>1. Spec => []HostOK
  BY InitHost, HostStep, PTL DEF Spec
<1>2. Inv /\ HostOK => TypeOK
  BY DEF Inv, HostOK, TypeOK
<1>. QED
  BY <1>1, <1>2, Invariance, PTL

\* The break and unused flags never enter the status register.
THEOREM StatusClean == Spec => []BreakNeverInStatus
<1>1. Inv => BreakNeverInStatus
  BY DEF Inv
<1>. QED
  BY <1>1, Invariance, PTL
=============================================================================
