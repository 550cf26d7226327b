-------------------------- MODULE InterpreterProofs -------------------------
(***************************************************************************)
(* The pinned build of the interpreter implements the build without pinned *)
(* registers, for every program that loses nothing in the exit from a jump *)
(* to itself.  Unpinned is the processor of Cpu with what the host sees in *)
(* place of the three pinned registers.  The proof shows of each operator  *)
(* in turn that it is the same in Unpinned as in Cpu: of the operators     *)
(* without state always, of those that read a register in a state where    *)
(* the host sees the locals, and of the handlers between two such states.  *)
(* And the table of the threaded dispatch selects what the switch selects, *)
(* in every program.                                                       *)
(***************************************************************************)
EXTENDS Interpreter, CpuProofs

-----------------------------------------------------------------------------
(***************************************************************************)
(* Operators without state.                                                *)
(***************************************************************************)
LEMMA SameFlags ==
  /\ Unpinned!F_CARRY = F_CARRY /\ Unpinned!F_ZERO = F_ZERO
  /\ Unpinned!F_INTERRUPT = F_INTERRUPT /\ Unpinned!F_DECIMAL = F_DECIMAL
  /\ Unpinned!F_BREAK = F_BREAK /\ Unpinned!F_UNUSED = F_UNUSED
  /\ Unpinned!F_OVERFLOW = F_OVERFLOW /\ Unpinned!F_NEGATIVE = F_NEGATIVE
  BY DEF Unpinned!F_CARRY, F_CARRY, Unpinned!F_ZERO, F_ZERO, Unpinned!F_INTERRUPT, F_INTERRUPT,
         Unpinned!F_DECIMAL, F_DECIMAL, Unpinned!F_BREAK, F_BREAK, Unpinned!F_UNUSED, F_UNUSED,
         Unpinned!F_OVERFLOW, F_OVERFLOW, Unpinned!F_NEGATIVE, F_NEGATIVE

LEMMA SameConstants ==
  /\ Unpinned!MEM_SIZE = MEM_SIZE /\ Unpinned!VEC_IRQ = VEC_IRQ
  /\ Unpinned!STACK_BASE = STACK_BASE /\ Unpinned!STACK_TOP = STACK_TOP
  /\ Unpinned!SIZE = SIZE
  /\ Unpinned!Opcode = Opcode
  BY DEF Unpinned!MEM_SIZE, MEM_SIZE, Unpinned!VEC_IRQ, VEC_IRQ, Unpinned!STACK_BASE,
         STACK_BASE, Unpinned!STACK_TOP, STACK_TOP, Unpinned!SIZE, SIZE, Unpinned!Opcode,
         Opcode

LEMMA SameBytes ==
  ASSUME NEW n
  PROVE  /\ Unpinned!LowByte(n) = LowByte(n) /\ Unpinned!HighByte(n) = HighByte(n)
         /\ Unpinned!Signed(n) = Signed(n)
  BY DEF Unpinned!LowByte, LowByte, Unpinned!HighByte, HighByte, Unpinned!Signed, Signed

LEMMA SameBits ==
  ASSUME NEW n, NEW S
  PROVE  Unpinned!Bits(n) = Bits(n) /\ Unpinned!ToByte(S) = ToByte(S)
  BY SameFlags
     DEF Unpinned!Bits, Bits, Unpinned!ToByte, ToByte, Unpinned!Flag, Flag, Unpinned!Weight,
         Weight

LEMMA SameRead ==
  ASSUME NEW m, NEW a
  PROVE  Unpinned!readByte(m, a) = readByte(m, a)
  BY SameConstants
     DEF Unpinned!readByte, readByte

LEMMA SameWord ==
  ASSUME NEW m, NEW a
  PROVE  Unpinned!readWord(m, a) = readWord(m, a)
  BY SameRead
     DEF Unpinned!readWord, readWord

LEMMA SameWrite ==
  ASSUME NEW m, NEW a, NEW b
  PROVE  Unpinned!writeByte(m, a, b) = writeByte(m, a, b)
  BY SameConstants
     DEF Unpinned!writeByte, writeByte

LEMMA SameAddresses ==
  ASSUME NEW m, NEW pc, NEW i
  PROVE  /\ Unpinned!addrZeroPageByte(m, pc) = addrZeroPageByte(m, pc)
         /\ Unpinned!addrAbsoluteByte(m, pc) = addrAbsoluteByte(m, pc)
         /\ Unpinned!addrAbsoluteXByte(m, pc, i) = addrAbsoluteXByte(m, pc, i)
         /\ Unpinned!addrAbsoluteYByte(m, pc, i) = addrAbsoluteYByte(m, pc, i)
         /\ Unpinned!addrZeroPageXByte(m, pc, i) = addrZeroPageXByte(m, pc, i)
         /\ Unpinned!addrZeroPageYByte(m, pc, i) = addrZeroPageYByte(m, pc, i)
         /\ Unpinned!addrPreIndexZeroPageXByte(m, pc, i) = addrPreIndexZeroPageXByte(m, pc, i)
         /\ Unpinned!addrPostIndexZeroPageYByte(m, pc, i) = addrPostIndexZeroPageYByte(m, pc, i)
  BY SameConstants, SameRead, SameWord
     DEF Unpinned!addrZeroPageByte, addrZeroPageByte, Unpinned!addrAbsoluteByte,
         addrAbsoluteByte, Unpinned!addrAbsoluteXByte, addrAbsoluteXByte,
         Unpinned!addrAbsoluteYByte, addrAbsoluteYByte, Unpinned!addrZeroPageXByte,
         addrZeroPageXByte, Unpinned!addrZeroPageYByte, addrZeroPageYByte,
         Unpinned!addrPreIndexZeroPageXByte, addrPreIndexZeroPageXByte,
         Unpinned!addrPostIndexZeroPageYByte, addrPostIndexZeroPageYByte

LEMMA SameResults ==
  ASSUME NEW S, NEW a, NEW b
  PROVE  /\ Unpinned!updateNZ(S, a) = updateNZ(S, a)
         /\ Unpinned!cmpByte(S, a, b) = cmpByte(S, a, b)
  BY SameFlags
     DEF Unpinned!updateNZ, updateNZ, Unpinned!cmpByte, cmpByte, Unpinned!NZ, NZ,
         Unpinned!FlagIf, FlagIf, Unpinned!Negative, Negative, Unpinned!F_NZ, F_NZ,
         Unpinned!F_NZC, F_NZC

LEMMA SameLogic ==
  ASSUME NEW S, NEW a, NEW b
  PROVE  /\ Unpinned!And(a, b) = And(a, b)
         /\ Unpinned!Or(a, b) = Or(a, b)
         /\ Unpinned!Xor(a, b) = Xor(a, b)
         /\ Unpinned!bitTest(S, a, b) = bitTest(S, a, b)
  BY SameFlags, SameBits
     DEF Unpinned!And, And, Unpinned!Or, Or, Unpinned!Xor, Xor, Unpinned!bitTest, bitTest,
         Unpinned!FlagIf, FlagIf, Unpinned!F_NZV, F_NZV

LEMMA SameCarry ==
  ASSUME NEW S
  PROVE  Unpinned!Carry(S) = Carry(S)
  BY SameFlags
     DEF Unpinned!Carry, Carry

LEMMA SameNegative ==
  ASSUME NEW a
  PROVE  Unpinned!Negative(a) = Negative(a)
  BY DEF Unpinned!Negative, Negative

LEMMA SameShifted ==
  ASSUME NEW S, NEW a, NEW c
  PROVE  Unpinned!Shifted(S, a, c) = Shifted(S, a, c)
  BY SameFlags, SameResults
     DEF Unpinned!Shifted, Shifted, Unpinned!FlagIf, FlagIf

LEMMA SameShifts ==
  ASSUME NEW S, NEW a
  PROVE  /\ Unpinned!shiftLeftWithCarry(S, a) = shiftLeftWithCarry(S, a)
         /\ Unpinned!shiftRightWithCarry(S, a) = shiftRightWithCarry(S, a)
         /\ Unpinned!rotateLeftWithCarry(S, a) = rotateLeftWithCarry(S, a)
         /\ Unpinned!rotateRightWithCarry(S, a) = rotateRightWithCarry(S, a)
  BY SameCarry, SameNegative, SameShifted
     DEF Unpinned!shiftLeftWithCarry, shiftLeftWithCarry, Unpinned!shiftRightWithCarry,
         shiftRightWithCarry, Unpinned!rotateLeftWithCarry, rotateLeftWithCarry,
         Unpinned!rotateRightWithCarry, rotateRightWithCarry

LEMMA SameSums ==
  ASSUME NEW S, NEW a, NEW b
  PROVE  /\ Unpinned!addByteWithCarry(S, a, b) = addByteWithCarry(S, a, b)
         /\ Unpinned!subByteWithCarry(S, a, b) = subByteWithCarry(S, a, b)
  BY SameFlags
     DEF Unpinned!addByteWithCarry, addByteWithCarry, Unpinned!subByteWithCarry,
         subByteWithCarry, Unpinned!addBCDWithCarry, addBCDWithCarry, Unpinned!subBCDWithCarry,
         subBCDWithCarry, Unpinned!Carry, Carry, Unpinned!LowNybble, LowNybble,
         Unpinned!HighNybble, HighNybble, Unpinned!Joined, Joined, Unpinned!Bit8, Bit8,
         Unpinned!Negative, Negative, Unpinned!NZ, NZ, Unpinned!FlagIf, FlagIf,
         Unpinned!F_NZCV, F_NZCV

LEMMA SamePush ==
  ASSUME NEW stack, NEW n
  PROVE  /\ Unpinned!push(stack, n) = push(stack, n)
         /\ Unpinned!PushedAddress(stack, n) = PushedAddress(stack, n)
  BY SameConstants, SameBytes, SameWrite
     DEF Unpinned!push, push, Unpinned!PushedAddress, PushedAddress

-----------------------------------------------------------------------------
(***************************************************************************)
(* Operators of a state in which the host sees the locals.                 *)
(***************************************************************************)
Seen == /\ Visible.iProgramCounter = iProgramCounter
        /\ Visible.iAccumulator = iAccumulator
        /\ Visible.iStatus = iStatus

LEMMA SameFetched ==
  ASSUME Seen, NEW op
  PROVE  Unpinned!opcode = opcode /\ Unpinned!Fetched(op) = Fetched(op)
<1>1. Unpinned!opcode = opcode
  BY SameRead DEF Seen, Unpinned!opcode, opcode
<1>. QED
  BY <1>1, SameConstants DEF Unpinned!Fetched, Fetched

LEMMA SameLoad ==
  ASSUME Seen, NEW mode
  PROVE  /\ Unpinned!address(mode) = address(mode)
         /\ Unpinned!load(mode) = load(mode)
         /\ Unpinned!target(mode) = target(mode)
<1>1. Unpinned!address(mode) = address(mode)
  BY SameAddresses DEF Seen, Unpinned!address, address
<1>2. Unpinned!load(mode) = load(mode)
  BY <1>1, SameRead DEF Unpinned!load, load
<1>. QED
  BY <1>1, <1>2 DEF Seen, Unpinned!target, target

LEMMA SameOperand ==
  ASSUME Seen
  PROVE  Unpinned!operand = operand
  BY SameWord DEF Seen, Unpinned!operand, operand

LEMMA SameStack ==
  ASSUME Seen, NEW n
  PROVE  /\ Unpinned!Stack = Stack
         /\ Unpinned!pull(n) = pull(n)
         /\ Unpinned!PushedStatus = PushedStatus
         /\ Unpinned!PulledStatus(n) = PulledStatus(n)
<1>1. Unpinned!Stack = Stack
  BY DEF Unpinned!Stack, Stack
<1>2. Unpinned!pull(n) = pull(n)
  BY SameConstants, SameRead DEF Unpinned!pull, pull
<1>3. Unpinned!PushedStatus = PushedStatus
  BY SameFlags, SameBits DEF Seen, Unpinned!PushedStatus, PushedStatus
<1>4. Unpinned!PulledStatus(n) = PulledStatus(n)
  BY SameFlags, SameBits DEF Seen, Unpinned!PulledStatus, PulledStatus
<1>. QED
  BY <1>1, <1>2, <1>3, <1>4

-----------------------------------------------------------------------------
(***************************************************************************)
(* Steps from and to such states.                                          *)
(***************************************************************************)
LEMMA SameMove ==
  ASSUME Seen, Seen', NEW mode, NEW a
  PROVE  /\ goto(a) => Unpinned!goto(a)
         /\ size(mode) => Unpinned!size(mode)
<1>1. \A n : goto(n) => Unpinned!goto(n)
  BY SameConstants DEF Seen, goto, Unpinned!goto
<1>. QED
  BY <1>1, SameConstants DEF Seen, size, Unpinned!size

LEMMA SameSteps ==
  ASSUME Seen, Seen', NEW mode, NEW n, NEW S
  PROVE  /\ SetStatus(mode, S) => Unpinned!SetStatus(mode, S)
         /\ SetAccumulator(mode, n, S) => Unpinned!SetAccumulator(mode, n, S)
         /\ SetX(mode, n) => Unpinned!SetX(mode, n)
         /\ SetY(mode, n) => Unpinned!SetY(mode, n)
         /\ store(mode, n, S) => Unpinned!store(mode, n, S)
<1>. USE SameMove DEF Seen, host, Unpinned!host
<1>1. SetStatus(mode, S) => Unpinned!SetStatus(mode, S)
  BY DEF SetStatus, Unpinned!SetStatus
<1>2. SetAccumulator(mode, n, S) => Unpinned!SetAccumulator(mode, n, S)
  BY DEF SetAccumulator, Unpinned!SetAccumulator
<1>3. SetX(mode, n) => Unpinned!SetX(mode, n)
  BY SameResults DEF SetX, Unpinned!SetX
<1>4. SetY(mode, n) => Unpinned!SetY(mode, n)
  BY SameResults DEF SetY, Unpinned!SetY
<1>5. store(mode, n, S) => Unpinned!store(mode, n, S)
  BY SameLoad, SameWrite DEF store, Unpinned!store
<1>. QED
  BY <1>1, <1>2, <1>3, <1>4, <1>5

LEMMA SameCompound ==
  ASSUME Seen, Seen', NEW mode, NEW n, NEW r
  PROVE  /\ Logic(mode, n) => Unpinned!Logic(mode, n)
         /\ Update(mode, n) => Unpinned!Update(mode, n)
         /\ Shift(mode, r) => Unpinned!Shift(mode, r)
<1>1. Logic(mode, n) => Unpinned!Logic(mode, n)
  BY SameSteps, SameResults DEF Seen, Logic, Unpinned!Logic
<1>2. Update(mode, n) => Unpinned!Update(mode, n)
  BY SameSteps, SameResults DEF Seen, Update, Unpinned!Update
<1>3. Shift(mode, r) => Unpinned!Shift(mode, r)
  BY SameSteps DEF Shift, Unpinned!Shift
<1>. QED
  BY <1>1, <1>2, <1>3

LEMMA SameFlagSteps ==
  ASSUME Seen, Seen', NEW op, NEW f, NEW taken
  PROVE  /\ Clear(op, f) => Unpinned!Clear(op, f)
         /\ Set(op, f) => Unpinned!Set(op, f)
         /\ Branch(op, taken) => Unpinned!Branch(op, taken)
<1>. USE SameFetched
<1>1. Clear(op, f) => Unpinned!Clear(op, f)
  BY SameSteps DEF Seen, Clear, Unpinned!Clear
<1>2. Set(op, f) => Unpinned!Set(op, f)
  BY SameSteps DEF Seen, Set, Unpinned!Set
<1>3. Branch(op, taken) => Unpinned!Branch(op, taken)
  BY SameMove, SameConstants, SameBytes, SameRead
     DEF Seen, Branch, Unpinned!Branch, registers, Unpinned!registers, host, Unpinned!host
<1>. QED
  BY <1>1, <1>2, <1>3

\* Every handler, by the groups of Instruction.
LEMMA SameTransfer ==
  ASSUME Seen, Seen', Transfer
  PROVE  Unpinned!Transfer
<1>. USE SameFetched, SameLoad, SameSteps, SameResults DEF Seen, host, Unpinned!host
<1>1. LDA => Unpinned!LDA
  BY DEF LDA, Unpinned!LDA
<1>2. STA => Unpinned!STA
  BY DEF STA, Unpinned!STA
<1>3. LDX => Unpinned!LDX
  BY DEF LDX, Unpinned!LDX
<1>4. STX => Unpinned!STX
  BY DEF STX, Unpinned!STX
<1>5. LDY => Unpinned!LDY
  BY DEF LDY, Unpinned!LDY
<1>6. STY => Unpinned!STY
  BY DEF STY, Unpinned!STY
<1>7. TAX => Unpinned!TAX
  BY DEF TAX, Unpinned!TAX
<1>8. TAY => Unpinned!TAY
  BY DEF TAY, Unpinned!TAY
<1>9. TSX => Unpinned!TSX
  BY DEF TSX, Unpinned!TSX
<1>10. TXA => Unpinned!TXA
  BY DEF TXA, Unpinned!TXA
<1>11. TYA => Unpinned!TYA
  BY DEF TYA, Unpinned!TYA
<1>12. TXS => Unpinned!TXS
  BY SameMove DEF TXS, Unpinned!TXS
<1>. QED
  BY <1>1, <1>2, <1>3, <1>4, <1>5, <1>6, <1>7, <1>8, <1>9, <1>10, <1>11, <1>12
     DEF Transfer, Unpinned!Transfer

LEMMA SameArithmetic ==
  ASSUME Seen, Seen', Arithmetic
  PROVE  Unpinned!Arithmetic
<1>. USE SameFetched, SameLoad, SameSteps, SameCompound DEF Seen
<1>1. ADC => Unpinned!ADC
  BY SameSums DEF ADC, Unpinned!ADC
<1>2. SBC => Unpinned!SBC
  BY SameSums DEF SBC, Unpinned!SBC
<1>3. AND => Unpinned!AND
  BY SameLogic DEF AND, Unpinned!AND
<1>4. ORA => Unpinned!ORA
  BY SameLogic DEF ORA, Unpinned!ORA
<1>5. EOR => Unpinned!EOR
  BY SameLogic DEF EOR, Unpinned!EOR
<1>6. CMP => Unpinned!CMP
  BY SameResults DEF CMP, Unpinned!CMP
<1>7. CPX => Unpinned!CPX
  BY SameResults DEF CPX, Unpinned!CPX
<1>8. CPY => Unpinned!CPY
  BY SameResults DEF CPY, Unpinned!CPY
<1>9. BIT => Unpinned!BIT
  BY SameLogic DEF BIT, Unpinned!BIT
<1>. QED
  BY <1>1, <1>2, <1>3, <1>4, <1>5, <1>6, <1>7, <1>8, <1>9 DEF Arithmetic, Unpinned!Arithmetic

LEMMA SameCount ==
  ASSUME Seen, Seen', Count
  PROVE  Unpinned!Count
<1>. USE SameFetched, SameLoad, SameSteps, SameCompound DEF Seen
<1>1. DEX => Unpinned!DEX
  BY DEF DEX, Unpinned!DEX
<1>2. DEY => Unpinned!DEY
  BY DEF DEY, Unpinned!DEY
<1>3. DEC => Unpinned!DEC
  BY DEF DEC, Unpinned!DEC
<1>4. INX => Unpinned!INX
  BY DEF INX, Unpinned!INX
<1>5. INY => Unpinned!INY
  BY DEF INY, Unpinned!INY
<1>6. INC => Unpinned!INC
  BY DEF INC, Unpinned!INC
<1>7. ASL => Unpinned!ASL
  BY SameShifts DEF ASL, Unpinned!ASL
<1>8. LSR => Unpinned!LSR
  BY SameShifts DEF LSR, Unpinned!LSR
<1>9. ROL => Unpinned!ROL
  BY SameShifts DEF ROL, Unpinned!ROL
<1>10. ROR => Unpinned!ROR
  BY SameShifts DEF ROR, Unpinned!ROR
<1>. QED
  BY <1>1, <1>2, <1>3, <1>4, <1>5, <1>6, <1>7, <1>8, <1>9, <1>10 DEF Count, Unpinned!Count

LEMMA SameFlow ==
  ASSUME Seen, Seen', Flow
  PROVE  Unpinned!Flow
<1>. USE SameFlags, SameFlagSteps DEF Seen
<1>1. CLC => Unpinned!CLC
  BY DEF CLC, Unpinned!CLC
<1>2. CLD => Unpinned!CLD
  BY DEF CLD, Unpinned!CLD
<1>3. CLI => Unpinned!CLI
  BY DEF CLI, Unpinned!CLI
<1>4. CLV => Unpinned!CLV
  BY DEF CLV, Unpinned!CLV
<1>5. SEC => Unpinned!SEC
  BY DEF SEC, Unpinned!SEC
<1>6. SED => Unpinned!SED
  BY DEF SED, Unpinned!SED
<1>7. SEI => Unpinned!SEI
  BY DEF SEI, Unpinned!SEI
<1>8. NOP => Unpinned!NOP
  BY SameFetched, SameSteps DEF NOP, Unpinned!NOP
<1>9. BCC => Unpinned!BCC
  BY DEF BCC, Unpinned!BCC
<1>10. BCS => Unpinned!BCS
  BY DEF BCS, Unpinned!BCS
<1>11. BEQ => Unpinned!BEQ
  BY DEF BEQ, Unpinned!BEQ
<1>12. BNE => Unpinned!BNE
  BY DEF BNE, Unpinned!BNE
<1>13. BMI => Unpinned!BMI
  BY DEF BMI, Unpinned!BMI
<1>14. BPL => Unpinned!BPL
  BY DEF BPL, Unpinned!BPL
<1>15. BVC => Unpinned!BVC
  BY DEF BVC, Unpinned!BVC
<1>16. BVS => Unpinned!BVS
  BY DEF BVS, Unpinned!BVS
<1>. QED
  BY <1>1, <1>2, <1>3, <1>4, <1>5, <1>6, <1>7, <1>8, <1>9, <1>10, <1>11, <1>12,
     <1>13, <1>14, <1>15, <1>16
     DEF Flow, Unpinned!Flow

LEMMA SameJump ==
  ASSUME Seen, Seen', Jump
  PROVE  Unpinned!Jump
<1>. USE SameFetched, SameMove, SameStack, SamePush
     DEF Seen, Pushed, Unpinned!Pushed, Pulled, Unpinned!Pulled,
         registers, Unpinned!registers, host, Unpinned!host
<1>1. PHA => Unpinned!PHA
  BY DEF PHA, Unpinned!PHA
<1>2. PHP => Unpinned!PHP
  BY DEF PHP, Unpinned!PHP
<1>3. PLA => Unpinned!PLA
  BY SameResults DEF PLA, Unpinned!PLA
<1>4. PLP => Unpinned!PLP
  BY DEF PLP, Unpinned!PLP
<1>5. JMP_AB => Unpinned!JMP_AB
  BY SameOperand DEF JMP_AB, Unpinned!JMP_AB
<1>6. JMP_IN => Unpinned!JMP_IN
  BY SameOperand, SameBytes, SameRead, SameWord DEF JMP_IN, Unpinned!JMP_IN
<1>7. JSR => Unpinned!JSR
  BY SameWord DEF JSR, Unpinned!JSR
<1>8. RTS => Unpinned!RTS
  BY DEF RTS, Unpinned!RTS
<1>9. BRK => Unpinned!BRK
  BY SameWord, SameConstants, SameFlags DEF BRK, Unpinned!BRK
<1>10. RTI => Unpinned!RTI
  BY DEF RTI, Unpinned!RTI
<1>. QED
  BY <1>1, <1>2, <1>3, <1>4, <1>5, <1>6, <1>7, <1>8, <1>9, <1>10 DEF Jump, Unpinned!Jump

LEMMA SameInstruction ==
  ASSUME Seen, Seen', Instruction
  PROVE  Unpinned!Instruction
  BY SameTransfer, SameArithmetic, SameCount, SameFlow, SameJump
     DEF Instruction, Unpinned!Instruction
-----------------------------------------------------------------------------
(***************************************************************************)
(* Steps of the pinned build.                                              *)
(***************************************************************************)

\* The members the locals hide are always there.
ThisOK == this = [iProgramCounter |-> this.iProgramCounter,
                  iAccumulator    |-> this.iAccumulator,
                  iStatus         |-> this.iStatus]

LEMMA ThisStays ==
  ASSUME ThisOK, [InterpreterNext]_<<vars, this>>
  PROVE  ThisOK'
<1>1. ASSUME NEW iAddress \in EntryPoints, hostSetProgramCounter(iAddress)
      PROVE  ThisOK'
  BY <1>1 DEF hostSetProgramCounter, ThisOK
<1>2. CASE exitJumpToSelf
  BY <1>2 DEF exitJumpToSelf, ThisOK
<1>3. CASE exitIllegal
  BY <1>3 DEF exitIllegal, unpin, Shadows, ThisOK
<1>4. CASE UNCHANGED this
  BY <1>4 DEF ThisOK
<1>. QED
  BY <1>1, <1>2, <1>3, <1>4 DEF InterpreterNext, enter, handle

LEMMA SeenWhenRunning == (running => Seen) /\ (running' => Seen')
  BY DEF Seen, Visible, Shadows

LEMMA SeenWhenWrittenBack ==
  ASSUME ~running', this'.iProgramCounter = iProgramCounter',
         this'.iAccumulator = iAccumulator', this'.iStatus = iStatus'
  PROVE  Seen'
  BY DEF Seen, Visible

\* At a jump to itself the locals that exit of run() forgets hold what the
\* object has anyway.
NothingForgotten ==
  "AB" \in Fetched("JMP") /\ operand = iProgramCounter
    => iAccumulator = this.iAccumulator /\ iStatus = this.iStatus

LEMMA SameReturn ==
  ASSUME Seen, Seen', return
  PROVE  Unpinned!return
  BY DEF Seen, return, Unpinned!return, registers, Unpinned!registers

LEMMA PinnedStep ==
  ASSUME ThisOK, NothingForgotten, [InterpreterNext]_<<vars, this>>
  PROVE  [Unpinned!Next]_(Unpinned!vars)
<1>1. ASSUME NEW iAddress \in EntryPoints, hostSetProgramCounter(iAddress)
      PROVE  Unpinned!setProgramCounter(iAddress)
  BY <1>1 DEF hostSetProgramCounter, setProgramCounter, Unpinned!setProgramCounter, Visible,
              ThisOK, registers, Unpinned!registers, host, Unpinned!host
<1>2. enter => Unpinned!run
  BY DEF enter, pin, Visible, Shadows, Unpinned!run, Unpinned!registers
<1>3. handle => Unpinned!Instruction
  BY InstructionStaysIn, SeenWhenRunning, SameInstruction DEF handle, host
<1>4. ASSUME exitJumpToSelf
      PROVE  Unpinned!JumpToSelf
  <2>1. Seen /\ return
    BY <1>4, SeenWhenRunning DEF exitJumpToSelf, JumpToSelf, Fetched
  <2>2. Seen'
    BY <1>4, <2>1, SeenWhenWrittenBack
       DEF exitJumpToSelf, JumpToSelf, return, NothingForgotten, ThisOK, registers
  <2>. QED
    BY <1>4, <2>1, <2>2, SameFetched, SameOperand, SameReturn
       DEF exitJumpToSelf, JumpToSelf, Unpinned!JumpToSelf, Seen
<1>5. ASSUME exitIllegal
      PROVE  Unpinned!illegal
  <2>1. Seen /\ return
    BY <1>5, SeenWhenRunning DEF exitIllegal, illegal
  <2>2. Seen'
    BY <1>5 DEF exitIllegal, illegal, return, unpin, Shadows, Seen, Visible, registers
  <2>. QED
    BY <1>5, <2>1, <2>2, SameFetched, SameConstants, SameReturn
       DEF exitIllegal, illegal, Unpinned!illegal
<1>6. UNCHANGED <<vars, this>> => UNCHANGED Unpinned!vars
  BY DEF vars, registers, host, Unpinned!vars, Unpinned!registers, Unpinned!host, Visible, Shadows
<1>. QED
  BY <1>1, <1>2, <1>3, <1>4, <1>5, <1>6 DEF InterpreterNext, Unpinned!Next, Unpinned!Exit

LEMMA PinnedInit == InterpreterInit => ThisOK /\ Unpinned!Init
  BY SameConstants, SameFlags
     DEF InterpreterInit, Init, Shadows, ThisOK, Unpinned!Init, Visible

\* The pinned build implements the one without pinned registers in every
\* program that comes to a jump to itself, if at all, with the accumulator and
\* the flags that the object had when the run began: run() leaves that way
\* without writing them back.
THEOREM PinningInvisible == InterpreterSpec /\ []NothingForgotten => PinningIsInvisible
<1>1. InterpreterSpec => []ThisOK
  BY PinnedInit, ThisStays, PTL DEF InterpreterSpec
<1>. QED
  BY <1>1, PinnedInit, PinnedStep, PTL DEF InterpreterSpec, PinningIsInvisible

-----------------------------------------------------------------------------
(***************************************************************************)
(* Dispatch.  The invariant of the processor holds of the locals and of    *)
(* the members they hide.                                                  *)
(***************************************************************************)
MembersOK == /\ ThisOK
             /\ this.iProgramCounter \in Address
             /\ this.iAccumulator \in Byte
             /\ this.iStatus \in SUBSET RealFlag

LEMMA LocalsStep ==
  ASSUME Inv, MembersOK, [InterpreterNext]_<<vars, this>>
  PROVE  Inv'
<1>1. ASSUME NEW iAddress \in EntryPoints, hostSetProgramCounter(iAddress)
      PROVE  Inv'
  BY <1>1, CpuAssumption, SameMachine DEF hostSetProgramCounter, setProgramCounter
<1>2. CASE enter
  <2>1. /\ iProgramCounter' \in Address
        /\ iAccumulator' \in Byte
        /\ iStatus' \in SUBSET RealFlag
        /\ UNCHANGED <<iXIndex, iYIndex, iStackPointer, aBytes>>
    BY <1>2 DEF enter, pin, MembersOK
  <2>. QED
    BY <2>1, Registers, HandlerStep
<1>3. CASE handle
  BY <1>3, InstructionStep DEF handle
<1>4. CASE exitJumpToSelf \/ exitIllegal
  BY <1>4, ExitStep DEF exitJumpToSelf, exitIllegal, Exit
<1>5. CASE UNCHANGED <<vars, this>>
  BY <1>5, Registers, SameMachine DEF vars
<1>. QED
  BY <1>1, <1>2, <1>3, <1>4, <1>5 DEF InterpreterNext

LEMMA MembersStep ==
  ASSUME Inv, MembersOK, [InterpreterNext]_<<vars, this>>
  PROVE  MembersOK'
<1>1. ThisOK'
  BY ThisStays DEF MembersOK
<1>2. ASSUME NEW iAddress \in EntryPoints, hostSetProgramCounter(iAddress)
      PROVE  MembersOK'
  BY <1>1, <1>2, CpuAssumption DEF hostSetProgramCounter, MembersOK, ThisOK
<1>3. CASE exitJumpToSelf
  BY <1>1, <1>3, Registers DEF exitJumpToSelf, MembersOK, ThisOK
<1>4. CASE exitIllegal
  BY <1>1, <1>4, Registers
     DEF exitIllegal, illegal, return, registers, unpin, Shadows, MembersOK
<1>5. CASE UNCHANGED this
  BY <1>1, <1>5 DEF MembersOK
<1>. QED
  BY <1>2, <1>3, <1>4, <1>5 DEF InterpreterNext, enter, handle

LEMMA MembersInit == InterpreterInit => Inv /\ MembersOK
<1>. SUFFICES ASSUME InterpreterInit PROVE Inv /\ MembersOK
  OBVIOUS
<1>1. Inv
  BY InitInv DEF InterpreterInit
<1>2. ThisOK
  BY PinnedInit
<1>. QED
  BY <1>1, <1>2, Registers DEF InterpreterInit, Shadows, MembersOK

\* The table agrees with the switch wherever memory holds bytes.
LEMMA TableSelects ==
  ASSUME Inv
  PROVE  JumpTableAgrees
<1>1. opcode \in Byte
  BY Registers, ReadByteType DEF opcode
<1>. QED
  BY <1>1, LabelOf, BadLabel DEF JumpTableAgrees

\* In every program of the pinned build the table of the threaded dispatch
\* leads to the handler of the fetched instruction, and to BAD when the byte is
\* no opcode.
THEOREM TableAgrees == InterpreterSpec => []JumpTableAgrees
<1>1. Inv /\ MembersOK /\ [InterpreterNext]_<<vars, this>> => (Inv /\ MembersOK)'
  BY LocalsStep, MembersStep
<1>2. InterpreterSpec => [](Inv /\ MembersOK)
  BY <1>1, MembersInit, PTL DEF InterpreterSpec
<1>3. Inv /\ MembersOK => JumpTableAgrees
  BY TableSelects
<1>. QED
  BY <1>2, <1>3, PTL
=============================================================================
