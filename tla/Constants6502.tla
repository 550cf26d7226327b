--------------------------- MODULE Constants6502 ---------------------------
(***************************************************************************)
(* The constants of the emulated processor (src/include/constants.hpp):    *)
(* opcodes by mnemonic and addressing mode, instruction sizes, the flags   *)
(* of the status register, the vectors and the layout of memory.           *)
(***************************************************************************)
EXTENDS Integers

MEM_SIZE   == 65536
STACK_BASE == 256
STACK_TOP  == 511
VEC_IRQ    == 65534

Byte    == 0 .. 255
Address == 0 .. MEM_SIZE - 1

(***************************************************************************)
(* The status register is a set of flags: a flag is the weight of its bit. *)
(***************************************************************************)
F_CARRY     == 1
F_ZERO      == 2
F_INTERRUPT == 4
F_DECIMAL   == 8
F_BREAK     == 16
F_UNUSED    == 32
F_OVERFLOW  == 64
F_NEGATIVE  == 128

Flag == {F_CARRY, F_ZERO, F_INTERRUPT, F_DECIMAL,
         F_BREAK, F_UNUSED, F_OVERFLOW, F_NEGATIVE}

F_NZ   == {F_NEGATIVE, F_ZERO}
F_NZC  == {F_NEGATIVE, F_ZERO, F_CARRY}
F_NZV  == {F_NEGATIVE, F_ZERO, F_OVERFLOW}
F_NZCV == {F_NEGATIVE, F_ZERO, F_CARRY, F_OVERFLOW}

(***************************************************************************)
(* Addressing modes: the suffixes of the opcode names, with IMP for the    *)
(* names that have none, REL for the branches and IND for JMP_IN.  SIZE    *)
(* gives a mode the length constants.hpp repeats for each of its opcodes.  *)
(***************************************************************************)
SIZE == [IMP |-> 1, A |-> 1,
         IM |-> 2, ZP |-> 2, ZPX |-> 2, ZPY |-> 2, IX |-> 2, IY |-> 2, REL |-> 2,
         AB |-> 3, ABX |-> 3, ABY |-> 3, IND |-> 3]

Mode == DOMAIN SIZE

\* The opcode of every mnemonic in each of its modes, in decimal.
Opcode ==
  [ ADC |-> [IM |-> 105, ZP |-> 101, ZPX |-> 117, AB |-> 109,
             ABX |-> 125, ABY |-> 121, IX |-> 97, IY |-> 113],
    AND |-> [IM |-> 41, ZP |-> 37, ZPX |-> 53, AB |-> 45, ABX |-> 61,
             ABY |-> 57, IX |-> 33, IY |-> 49],
    ASL |-> [A |-> 10, ZP |-> 6, ZPX |-> 22, AB |-> 14, ABX |-> 30],
    BCC |-> [REL |-> 144], BCS |-> [REL |-> 176], BEQ |-> [REL |-> 240],
    BIT |-> [ZP |-> 36, AB |-> 44], BMI |-> [REL |-> 48],
    BNE |-> [REL |-> 208], BPL |-> [REL |-> 16], BRK |-> [IMP |-> 0],
    BVC |-> [REL |-> 80], BVS |-> [REL |-> 112], CLC |-> [IMP |-> 24],
    CLD |-> [IMP |-> 216], CLI |-> [IMP |-> 88], CLV |-> [IMP |-> 184],
    CMP |-> [IM |-> 201, ZP |-> 197, ZPX |-> 213, AB |-> 205,
             ABX |-> 221, ABY |-> 217, IX |-> 193, IY |-> 209],
    CPX |-> [IM |-> 224, ZP |-> 228, AB |-> 236],
    CPY |-> [IM |-> 192, ZP |-> 196, AB |-> 204],
    DEC |-> [ZP |-> 198, ZPX |-> 214, AB |-> 206, ABX |-> 222],
    DEX |-> [IMP |-> 202], DEY |-> [IMP |-> 136],
    EOR |-> [IM |-> 73, ZP |-> 69, ZPX |-> 85, AB |-> 77, ABX |-> 93,
             ABY |-> 89, IX |-> 65, IY |-> 81],
    INC |-> [ZP |-> 230, ZPX |-> 246, AB |-> 238, ABX |-> 254],
    INX |-> [IMP |-> 232], INY |-> [IMP |-> 200],
    JMP |-> [AB |-> 76, IND |-> 108], JSR |-> [AB |-> 32],
    LDA |-> [IM |-> 169, ZP |-> 165, ZPX |-> 181, AB |-> 173,
             ABX |-> 189, ABY |-> 185, IX |-> 161, IY |-> 177],
    LDX |-> [IM |-> 162, ZP |-> 166, ZPY |-> 182, AB |-> 174, ABY |-> 190],
    LDY |-> [IM |-> 160, ZP |-> 164, ZPX |-> 180, AB |-> 172, ABX |-> 188],
    LSR |-> [A |-> 74, ZP |-> 70, ZPX |-> 86, AB |-> 78, ABX |-> 94],
    NOP |-> [IMP |-> 234],
    ORA |-> [IM |-> 9, ZP |-> 5, ZPX |-> 21, AB |-> 13, ABX |-> 29,
             ABY |-> 25, IX |-> 1, IY |-> 17],
    PHA |-> [IMP |-> 72], PHP |-> [IMP |-> 8], PLA |-> [IMP |-> 104],
    PLP |-> [IMP |-> 40],
    ROL |-> [A |-> 42, ZP |-> 38, ZPX |-> 54, AB |-> 46, ABX |-> 62],
    ROR |-> [A |-> 106, ZP |-> 102, ZPX |-> 118, AB |-> 110, ABX |-> 126],
    RTI |-> [IMP |-> 64], RTS |-> [IMP |-> 96],
    SBC |-> [IM |-> 233, ZP |-> 229, ZPX |-> 245, AB |-> 237,
             ABX |-> 253, ABY |-> 249, IX |-> 225, IY |-> 241],
    SEC |-> [IMP |-> 56], SED |-> [IMP |-> 248], SEI |-> [IMP |-> 120],
    STA |-> [ZP |-> 133, ZPX |-> 149, AB |-> 141, ABX |-> 157,
             ABY |-> 153, IX |-> 129, IY |-> 145],
    STX |-> [ZP |-> 134, ZPY |-> 150, AB |-> 142],
    STY |-> [ZP |-> 132, ZPX |-> 148, AB |-> 140], TAX |-> [IMP |-> 170],
    TAY |-> [IMP |-> 168], TSX |-> [IMP |-> 186], TXA |-> [IMP |-> 138],
    TXS |-> [IMP |-> 154], TYA |-> [IMP |-> 152] ]

\* The two bytes of a word: its low eight bits and the eight above them.
LowByte(iWord)  == iWord % 256
HighByte(iWord) == (iWord \div 256) % 256

\* (int8_t): the signed value a byte stands for.
Signed(iByte) == IF iByte >= 128 THEN iByte - 256 ELSE iByte
=============================================================================
