----------------------------- MODULE JumpTable -----------------------------
(***************************************************************************)
(* The table of the threaded dispatch (src/include/internals/run.hpp): the *)
(* label of every opcode byte, four to a line.  A label is written as the  *)
(* mnemonic and the mode of the instruction whose handler stands at it;    *)
(* BAD is the handler of the bytes that are no opcode.                     *)
(***************************************************************************)
EXTENDS Constants6502

BAD == <<>>

aJumpTable == <<
  <<"BRK", "IMP">>, <<"ORA", "IX">>,  BAD,              BAD,
  BAD,              <<"ORA", "ZP">>,  <<"ASL", "ZP">>,  BAD,
  <<"PHP", "IMP">>, <<"ORA", "IM">>,  <<"ASL", "A">>,   BAD,
  BAD,              <<"ORA", "AB">>,  <<"ASL", "AB">>,  BAD,
  <<"BPL", "REL">>, <<"ORA", "IY">>,  BAD,              BAD,
  BAD,              <<"ORA", "ZPX">>, <<"ASL", "ZPX">>, BAD,
  <<"CLC", "IMP">>, <<"ORA", "ABY">>, BAD,              BAD,
  BAD,              <<"ORA", "ABX">>, <<"ASL", "ABX">>, BAD,
  <<"JSR", "AB">>,  <<"AND", "IX">>,  BAD,              BAD,
  <<"BIT", "ZP">>,  <<"AND", "ZP">>,  <<"ROL", "ZP">>,  BAD,
  <<"PLP", "IMP">>, <<"AND", "IM">>,  <<"ROL", "A">>,   BAD,
  <<"BIT", "AB">>,  <<"AND", "AB">>,  <<"ROL", "AB">>,  BAD,
  <<"BMI", "REL">>, <<"AND", "IY">>,  BAD,              BAD,
  BAD,              <<"AND", "ZPX">>, <<"ROL", "ZPX">>, BAD,
  <<"SEC", "IMP">>, <<"AND", "ABY">>, BAD,              BAD,
  BAD,              <<"AND", "ABX">>, <<"ROL", "ABX">>, BAD,
  <<"RTI", "IMP">>, <<"EOR", "IX">>,  BAD,              BAD,
  BAD,              <<"EOR", "ZP">>,  <<"LSR", "ZP">>,  BAD,
  <<"PHA", "IMP">>, <<"EOR", "IM">>,  <<"LSR", "A">>,   BAD,
  <<"JMP", "AB">>,  <<"EOR", "AB">>,  <<"LSR", "AB">>,  BAD,
  <<"BVC", "REL">>, <<"EOR", "IY">>,  BAD,              BAD,
  BAD,              <<"EOR", "ZPX">>, <<"LSR", "ZPX">>, BAD,
  <<"CLI", "IMP">>, <<"EOR", "ABY">>, BAD,              BAD,
  BAD,              <<"EOR", "ABX">>, <<"LSR", "ABX">>, BAD,
  <<"RTS", "IMP">>, <<"ADC", "IX">>,  BAD,              BAD,
  BAD,              <<"ADC", "ZP">>,  <<"ROR", "ZP">>,  BAD,
  <<"PLA", "IMP">>, <<"ADC", "IM">>,  <<"ROR", "A">>,   BAD,
  <<"JMP", "IND">>, <<"ADC", "AB">>,  <<"ROR", "AB">>,  BAD,
  <<"BVS", "REL">>, <<"ADC", "IY">>,  BAD,              BAD,
  BAD,              <<"ADC", "ZPX">>, <<"ROR", "ZPX">>, BAD,
  <<"SEI", "IMP">>, <<"ADC", "ABY">>, BAD,              BAD,
  BAD,              <<"ADC", "ABX">>, <<"ROR", "ABX">>, BAD,
  BAD,              <<"STA", "IX">>,  BAD,              BAD,
  <<"STY", "ZP">>,  <<"STA", "ZP">>,  <<"STX", "ZP">>,  BAD,
  <<"DEY", "IMP">>, BAD,              <<"TXA", "IMP">>, BAD,
  <<"STY", "AB">>,  <<"STA", "AB">>,  <<"STX", "AB">>,  BAD,
  <<"BCC", "REL">>, <<"STA", "IY">>,  BAD,              BAD,
  <<"STY", "ZPX">>, <<"STA", "ZPX">>, <<"STX", "ZPY">>, BAD,
  <<"TYA", "IMP">>, <<"STA", "ABY">>, <<"TXS", "IMP">>, BAD,
  BAD,              <<"STA", "ABX">>, BAD,              BAD,
  <<"LDY", "IM">>,  <<"LDA", "IX">>,  <<"LDX", "IM">>,  BAD,
  <<"LDY", "ZP">>,  <<"LDA", "ZP">>,  <<"LDX", "ZP">>,  BAD,
  <<"TAY", "IMP">>, <<"LDA", "IM">>,  <<"TAX", "IMP">>, BAD,
  <<"LDY", "AB">>,  <<"LDA", "AB">>,  <<"LDX", "AB">>,  BAD,
  <<"BCS", "REL">>, <<"LDA", "IY">>,  BAD,              BAD,
  <<"LDY", "ZPX">>, <<"LDA", "ZPX">>, <<"LDX", "ZPY">>, BAD,
  <<"CLV", "IMP">>, <<"LDA", "ABY">>, <<"TSX", "IMP">>, BAD,
  <<"LDY", "ABX">>, <<"LDA", "ABX">>, <<"LDX", "ABY">>, BAD,
  <<"CPY", "IM">>,  <<"CMP", "IX">>,  BAD,              BAD,
  <<"CPY", "ZP">>,  <<"CMP", "ZP">>,  <<"DEC", "ZP">>,  BAD,
  <<"INY", "IMP">>, <<"CMP", "IM">>,  <<"DEX", "IMP">>, BAD,
  <<"CPY", "AB">>,  <<"CMP", "AB">>,  <<"DEC", "AB">>,  BAD,
  <<"BNE", "REL">>, <<"CMP", "IY">>,  BAD,              BAD,
  BAD,              <<"CMP", "ZPX">>, <<"DEC", "ZPX">>, BAD,
  <<"CLD", "IMP">>, <<"CMP", "ABY">>, BAD,              BAD,
  BAD,              <<"CMP", "ABX">>, <<"DEC", "ABX">>, BAD,
  <<"CPX", "IM">>,  <<"SBC", "IX">>,  BAD,              BAD,
  <<"CPX", "ZP">>,  <<"SBC", "ZP">>,  <<"INC", "ZP">>,  BAD,
  <<"INX", "IMP">>, <<"SBC", "IM">>,  <<"NOP", "IMP">>, BAD,
  <<"CPX", "AB">>,  <<"SBC", "AB">>,  <<"INC", "AB">>,  BAD,
  <<"BEQ", "REL">>, <<"SBC", "IY">>,  BAD,              BAD,
  BAD,              <<"SBC", "ZPX">>, <<"INC", "ZPX">>, BAD,
  <<"SED", "IMP">>, <<"SBC", "ABY">>, BAD,              BAD,
  BAD,              <<"SBC", "ABX">>, <<"INC", "ABX">>, BAD >>

\* With a fault, for the runs to find: the entry after the byte's.
labelNext(iOpcode) == aJumpTable[((iOpcode + 1) % 256) + 1]

\* Where a fetched byte leads.
label(iOpcode) == aJumpTable[iOpcode + 1]
=============================================================================
