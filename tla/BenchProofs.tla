---------------------------- MODULE BenchProofs ----------------------------
(***************************************************************************)
(* The second call of run() in an op of the benchmark executes nothing,    *)
(* for every program the harness may be given, and every memory it is      *)
(* loaded into: one that overwrites itself, or never comes to an end,      *)
(* among them.                                                             *)
(*                                                                         *)
(* An op of one of the five benchmark programs executes a fixed number of  *)
(* instructions, for any number of ops.                                    *)
(***************************************************************************)
EXTENDS MCBench, StepProofs

\* After the first run of an op and in the second.
IdleInv == at = "count" \/ (at = "run" /\ ~running) => AtExit

\* No handler runs there: JMP_AB has found that it is a jump to itself, and
\* JMP_IN has another opcode.
LEMMA NothingAtExit ==
  ASSUME AtExit
  PROVE  ~Instruction
<1>. SUFFICES ASSUME Instruction PROVE FALSE
  OBVIOUS
<1>1. CASE \A op \in DOMAIN Opcode : \A mode \in DOMAIN Opcode[op] : Opcode[op][mode] # opcode
  <2>1. \A op \in DOMAIN Opcode : Fetched(op) = {}
    BY <1>1 DEF Fetched
  <2>. QED
    BY <2>1, NoHandler
<1>2. CASE Opcode["JMP"]["AB"] = opcode /\ operand = iProgramCounter
  <2>1. "JMP" \in DOMAIN Opcode /\ "AB" \in DOMAIN Opcode["JMP"]
    BY DEF Opcode
  <2>2. "AB" \in Fetched("JMP")
    BY <1>2, <2>1, InstructionStaysIn DEF Fetched
  <2>3. "IND" \notin Fetched("JMP")
    BY <2>1, <2>2, OneInstruction
  <2>4. JMP_AB \/ JMP_IN
    BY <2>1, <2>2, HandlerOf DEF Handler
  <2>. QED
    BY <1>2, <2>3, <2>4 DEF JMP_AB, JMP_IN
<1>. QED
  BY <1>1, <1>2 DEF AtExit

-----------------------------------------------------------------------------
LEMMA IdleInit == HarnessInit => IdleInv
  BY DEF HarnessInit, HostInit, IdleInv

LEMMA IdleStep ==
  ASSUME IdleInv, [HarnessNext]_harness
  PROVE  /\ IdleInv'
         /\ at = "count" => UNCHANGED <<iProgramCounter, registers, aBytes, instrs>>
<1>1. CASE loadProgram
  BY <1>1 DEF loadProgram, Goes, IdleInv
<1>2. CASE beginOp
  BY <1>2 DEF beginOp, Goes, runFrom, IdleInv
<1>3. CASE runAgain
  <2>1. AtExit /\ UNCHANGED <<iProgramCounter, aBytes>>
    BY <1>3 DEF runAgain, Goes, run, IdleInv
  <2>. QED
    BY <1>3, <2>1, AtExitStays DEF runAgain, Goes, IdleInv
<1>4. CASE countOp
  BY <1>4 DEF countOp, Goes, vars, IdleInv
<1>5. CASE execute
  <2>1. running /\ at' = at /\ at # "count"
    BY <1>5, InstructionStaysIn, NothingAtExit DEF execute, IdleInv
  <2>2. running'
    BY <1>5, InstructionStaysIn DEF execute, host
  <2>. QED
    BY <2>1, <2>2 DEF IdleInv
<1>6. CASE stop
  BY <1>6, ExitIsThere, AtExitStays DEF stop, IdleInv
<1>7. CASE UNCHANGED harness
  BY <1>7, AtExitStays DEF harness, vars, host, registers, IdleInv
<1>. QED
  BY <1>1, <1>2, <1>3, <1>4, <1>5, <1>6, <1>7 DEF HarnessNext

\* The second run of every op executes no instruction, for every set of
\* programs and every memory.
THEOREM SecondRunIdle == HarnessSpec => SecondRunIsIdle
<1>1. IdleInv /\ [HarnessNext]_harness
        => [at = "count" => UNCHANGED <<iProgramCounter, registers, aBytes, instrs>>]_harness
  BY IdleStep
<1>2. IdleInv /\ [HarnessNext]_harness => IdleInv'
  BY IdleStep
<1>. QED
  BY <1>1, <1>2, IdleInit, PTL DEF HarnessSpec, SecondRunIsIdle

-----------------------------------------------------------------------------
(***************************************************************************)
(* The instructions of the benchmark programs, one by one, as far as the   *)
(* counts of instructions depend on them.                                  *)
(***************************************************************************)
LEMMA BenchOpcodes ==
  /\ Is("LDA", "IM", 169) /\ Is("LDA", "ZPX", 181) /\ Is("STA", "ZPX", 149)
  /\ Is("LDX", "IM", 162) /\ Is("TXA", "IMP", 138) /\ Is("INX", "IMP", 232)
  /\ Is("DEX", "IMP", 202) /\ Is("INY", "IMP", 200) /\ Is("DEY", "IMP", 136)
  /\ Is("ADC", "IM", 105) /\ Is("ADC", "ZPX", 117) /\ Is("AND", "IM", 41)
  /\ Is("ORA", "IM", 9) /\ Is("EOR", "IM", 73) /\ Is("ASL", "A", 10)
  /\ Is("LSR", "A", 74) /\ Is("ROL", "A", 42) /\ Is("NOP", "IMP", 234)
  /\ Is("BNE", "REL", 208) /\ Is("BEQ", "REL", 240) /\ Is("JSR", "AB", 32)
  /\ Is("RTS", "IMP", 96) /\ Is("PHA", "IMP", 72) /\ Is("PLA", "IMP", 104)
<1>1. Is("LDA", "IM", 169) /\ Is("LDA", "ZPX", 181) /\ Is("STA", "ZPX", 149)
  BY DEF Is, Opcode
<1>2. Is("LDX", "IM", 162) /\ Is("TXA", "IMP", 138) /\ Is("INX", "IMP", 232)
  BY DEF Is, Opcode
<1>3. Is("DEX", "IMP", 202) /\ Is("INY", "IMP", 200) /\ Is("DEY", "IMP", 136)
  BY DEF Is, Opcode
<1>4. Is("ADC", "IM", 105) /\ Is("ADC", "ZPX", 117) /\ Is("AND", "IM", 41)
  BY DEF Is, Opcode
<1>5. Is("ORA", "IM", 9) /\ Is("EOR", "IM", 73) /\ Is("ASL", "A", 10)
  BY DEF Is, Opcode
<1>6. Is("LSR", "A", 74) /\ Is("ROL", "A", 42) /\ Is("NOP", "IMP", 234)
  BY DEF Is, Opcode
<1>7. Is("BNE", "REL", 208) /\ Is("BEQ", "REL", 240) /\ Is("JSR", "AB", 32)
  BY DEF Is, Opcode
<1>8. Is("RTS", "IMP", 96) /\ Is("PHA", "IMP", 72) /\ Is("PLA", "IMP", 104)
  BY DEF Is, Opcode
<1>. QED
  BY <1>1, <1>2, <1>3, <1>4, <1>5, <1>6, <1>7, <1>8

\* An instruction that leaves alone what the programs count with.
Quiet == UNCHANGED <<iXIndex, iYIndex, iStackPointer, aBytes>>

LEMMA QuietSteps ==
  ASSUME Instruction, InCode
  PROVE  /\ opcode \in {10, 42, 74, 138, 234} => Quiet /\ Goto(1)
         /\ opcode \in {9, 41, 73, 105, 117, 169, 181} => Quiet /\ Goto(2)
<1>. USE BenchOpcodes, SizeOver
<1>1. opcode = 10 => Quiet /\ Goto(1)
  BY Runs DEF Handler, ASL, Shift, SetAccumulator, Quiet
<1>2. opcode = 42 => Quiet /\ Goto(1)
  BY Runs DEF Handler, ROL, Shift, SetAccumulator, Quiet
<1>3. opcode = 74 => Quiet /\ Goto(1)
  BY Runs DEF Handler, LSR, Shift, SetAccumulator, Quiet
<1>4. opcode = 138 => Quiet /\ Goto(1)
  BY Runs DEF Handler, TXA, SetAccumulator, Quiet
<1>5. opcode = 234 => Quiet /\ Goto(1)
  BY Runs DEF Handler, NOP, SetStatus, Quiet
<1>6. opcode = 9 => Quiet /\ Goto(2)
  BY Runs DEF Handler, ORA, Logic, SetAccumulator, Quiet
<1>7. opcode = 41 => Quiet /\ Goto(2)
  BY Runs DEF Handler, AND, Logic, SetAccumulator, Quiet
<1>8. opcode = 73 => Quiet /\ Goto(2)
  BY Runs DEF Handler, EOR, Logic, SetAccumulator, Quiet
<1>9. opcode = 105 => Quiet /\ Goto(2)
  BY Runs DEF Handler, ADC, SetAccumulator, Quiet
<1>10. opcode = 117 => Quiet /\ Goto(2)
  BY Runs DEF Handler, ADC, SetAccumulator, Quiet
<1>11. opcode = 169 => Quiet /\ Goto(2)
  BY Runs DEF Handler, LDA, SetAccumulator, Quiet
<1>12. opcode = 181 => Quiet /\ Goto(2)
  BY Runs DEF Handler, LDA, SetAccumulator, Quiet
<1>. QED
  BY <1>1, <1>2, <1>3, <1>4, <1>5, <1>6, <1>7, <1>8, <1>9, <1>10, <1>11, <1>12

\* Z tells whether the result n is zero.
ZeroIs(n) == F_ZERO \in iStatus' <=> n = 0

LEMMA CountSteps ==
  ASSUME Instruction, InCode
  PROVE  /\ opcode = 162 => /\ iXIndex' = readByte(aBytes, iProgramCounter + 1) /\ Goto(2)
                            /\ UNCHANGED <<iYIndex, iStackPointer, aBytes>>
         /\ opcode = 202 => /\ iXIndex' = (iXIndex - 1) % 256 /\ ZeroIs(iXIndex') /\ Goto(1)
                            /\ UNCHANGED <<iYIndex, iStackPointer, aBytes>>
         /\ opcode = 232 => /\ iXIndex' = (iXIndex + 1) % 256 /\ ZeroIs(iXIndex') /\ Goto(1)
                            /\ UNCHANGED <<iYIndex, iStackPointer, aBytes>>
         /\ opcode = 136 => /\ iYIndex' = (iYIndex - 1) % 256 /\ ZeroIs(iYIndex') /\ Goto(1)
                            /\ UNCHANGED <<iXIndex, iStackPointer, aBytes>>
         /\ opcode = 200 => /\ iYIndex' = (iYIndex + 1) % 256 /\ Goto(1)
                            /\ UNCHANGED <<iXIndex, iStackPointer, aBytes>>
<1>. USE BenchOpcodes, SizeOver
<1>1. CASE opcode = 162
  BY <1>1, Runs DEF Handler, LDX, SetX, load, address
<1>2. CASE opcode = 202
  BY <1>2, Runs, ZeroFlag DEF Handler, DEX, SetX, ZeroIs
<1>3. CASE opcode = 232
  BY <1>3, Runs, ZeroFlag DEF Handler, INX, SetX, ZeroIs
<1>4. CASE opcode = 136
  BY <1>4, Runs, ZeroFlag DEF Handler, DEY, SetY, ZeroIs
<1>5. CASE opcode = 200
  BY <1>5, Runs DEF Handler, INY, SetY
<1>. QED
  BY <1>1, <1>2, <1>3, <1>4, <1>5

\* The branch program skips its NOP when the lowest bit of X is clear.
LEMMA LowestBit ==
  ASSUME NEW a \in Byte
  PROVE  And(a, 1) = 0 <=> a % 2 = 0
<1>1. Bits(1) = {1}
  BY DEF Bits, Flag, F_CARRY, F_ZERO, F_INTERRUPT, F_DECIMAL, F_BREAK, F_UNUSED, F_OVERFLOW,
         F_NEGATIVE
<1>2. 1 \in Bits(a) <=> a % 2 = 1
  BY DEF Bits, Flag, F_CARRY, Byte
<1>3. Bits(a) \cap Bits(1) = IF 1 \in Bits(a) THEN {1} ELSE {}
  BY <1>1
<1>4. And(a, 1) = IF 1 \in Bits(a) THEN 1 ELSE 0
  BY <1>3 DEF And, ToByte, Weight
<1>5. a % 2 \in {0, 1}
  BY DEF Byte
<1>. QED
  BY <1>2, <1>4, <1>5

LEMMA LowestBitSteps ==
  ASSUME Instruction, Inv
  PROVE  /\ opcode = 138 => iAccumulator' = iXIndex
         /\ opcode = 41 /\ readByte(aBytes, iProgramCounter + 1) = 1 =>
              ZeroIs(iAccumulator % 2)
<1>. USE BenchOpcodes
<1>1. CASE opcode = 138
  BY <1>1, Runs DEF Handler, TXA, SetAccumulator
<1>2. CASE opcode = 41 /\ readByte(aBytes, iProgramCounter + 1) = 1
  <2>1. iStatus' = updateNZ(iStatus, And(iAccumulator, 1))
    BY <1>2, Runs DEF Handler, AND, Logic, SetAccumulator, load, address
  <2>2. iAccumulator \in Byte
    BY Registers
  <2>3. F_ZERO \in iStatus' <=> And(iAccumulator, 1) = 0
    BY <2>1, ZeroFlag
  <2>4. ZeroIs(iAccumulator % 2)
    BY <2>2, <2>3, LowestBit DEF ZeroIs
  <2>. QED
    BY <1>2, <2>4
<1>. QED
  BY <1>1, <1>2

LEMMA BranchSteps ==
  ASSUME Instruction, InCode, opcode \in {208, 240},
         NEW d \in -16 .. 16, d = Signed(readByte(aBytes, iProgramCounter + 1))
  PROVE  /\ IF (F_ZERO \in iStatus) = (opcode = 240) THEN Goto(2 + d) ELSE Goto(2)
         /\ Quiet
<1>. DEFINE taken == IF opcode = 208 THEN F_ZERO \notin iStatus ELSE F_ZERO \in iStatus
<1>1. UNCHANGED <<registers, aBytes>> /\ goto(iProgramCounter + 2 + (IF taken THEN d ELSE 0))
  <2>1. CASE opcode = 208
    BY <2>1, BenchOpcodes, Runs, Sizes DEF Handler, BNE, Branch
  <2>2. CASE opcode = 240
    BY <2>2, BenchOpcodes, Runs, Sizes DEF Handler, BEQ, Branch
  <2>. QED
    BY <2>1, <2>2
<1>2. iProgramCounter \in Int
  BY DEF InCode
<1>3. CASE taken
  <2>1. goto(iProgramCounter + (2 + d)) /\ 2 + d \in -18 .. 18
    BY <1>1, <1>2, <1>3 DEF goto
  <2>2. Goto(2 + d)
    BY <2>1, StepOver
  <2>. QED
    BY <1>1, <1>3, <2>2 DEF Quiet, registers
<1>4. CASE ~ taken
  <2>1. goto(iProgramCounter + 2)
    BY <1>1, <1>2, <1>4 DEF goto
  <2>2. Goto(2)
    BY <2>1, StepOver
  <2>. QED
    BY <1>1, <1>4, <2>2 DEF Quiet, registers
<1>. QED
  BY <1>3, <1>4

-----------------------------------------------------------------------------
(***************************************************************************)
(* The programs write to page zero and to the stack only, and so never     *)
(* to themselves.                                                          *)
(***************************************************************************)
LEMMA StoreSteps ==
  ASSUME Inv, Instruction, InCode
  PROVE  /\ opcode = 149 => /\ Goto(2) /\ CodeKept
                            /\ UNCHANGED <<iXIndex, iYIndex, iStackPointer>>
         /\ opcode = 72 => /\ Goto(1) /\ CodeKept
                           /\ iStackPointer' = (iStackPointer - 1) % 256
                           /\ UNCHANGED <<iXIndex, iYIndex>>
         /\ opcode = 104 => /\ Goto(1)
                            /\ iStackPointer' = (iStackPointer + 1) % 256
                            /\ UNCHANGED <<iXIndex, iYIndex, aBytes>>
<1>. USE BenchOpcodes, SizeOver
<1>1. CASE opcode = 149
  <2>1. store("ZPX", iAccumulator, iStatus)
    BY <1>1, Runs DEF Handler, STA
  <2>2. address("ZPX") \in 0 .. 511
    <3>1. address("ZPX") = (readByte(aBytes, iProgramCounter + 1) + iXIndex) % 256
      BY DEF address, addrZeroPageXByte
    <3>2. readByte(aBytes, iProgramCounter + 1) + iXIndex \in Int
      <4>1. readByte(aBytes, iProgramCounter + 1) \in Byte /\ iXIndex \in Byte
        BY Registers, ReadByteType
      <4>. QED
        BY <4>1 DEF Byte
    <3>. QED
      BY <3>1, <3>2
  <2>3. aBytes' = writeByte(aBytes, address("ZPX"), iAccumulator)
    BY <2>1 DEF store
  <2>4. CodeKept
    BY <2>2, <2>3, LowWrite
  <2>. QED
    BY <1>1, <2>1, <2>4 DEF store
<1>2. CASE opcode = 72
  <2>1. /\ aBytes' = writeByte(aBytes, STACK_BASE + iStackPointer, iAccumulator)
        /\ iStackPointer' = (iStackPointer - 1) % 256
        /\ Goto(1)
        /\ UNCHANGED <<iXIndex, iYIndex>>
    BY <1>2, Runs DEF Handler, PHA, Pushed, push, Stack
  <2>2. STACK_BASE + iStackPointer \in 0 .. 511
    BY Registers DEF STACK_BASE, Byte
  <2>3. CodeKept
    BY <2>1, <2>2, LowWrite
  <2>. QED
    BY <1>2, <2>1, <2>3
<1>3. CASE opcode = 104
  BY <1>3, Runs DEF Handler, PLA, Pulled
<1>. QED
  BY <1>1, <1>2, <1>3

\* The two bytes of the return address of the call at 2, behind it.
Called == readByte(aBytes, 510) = 4 /\ readByte(aBytes, 511) = 6

LEMMA CallStep ==
  ASSUME Inv, Instruction, opcode = 32, iProgramCounter = ORIGIN + 2, iStackPointer = 255,
         readByte(aBytes, ORIGIN + 3) = 16, readByte(aBytes, ORIGIN + 4) = 6
  PROVE  /\ iProgramCounter' = ORIGIN + 16 /\ iStackPointer' = 253 /\ Called' /\ CodeKept
         /\ UNCHANGED <<iXIndex, iYIndex>>
<1>. DEFINE m == writeByte(aBytes, 511, 6)
            n == writeByte(m, 510, 4)
<1>1. JSR
  BY BenchOpcodes, Runs DEF Handler
<1>2. aBytes' = n /\ iStackPointer' = 253
  <2>1. HighByte(iProgramCounter + 2) = 6 /\ LowByte(iProgramCounter + 2) = 4
    BY DEF HighByte, LowByte, ORIGIN
  <2>. QED
    BY <1>1, <2>1 DEF JSR, Pushed, PushedAddress, push, Stack, STACK_BASE
<1>3. 510 \in Address /\ 511 \in Address
  BY LowCells
<1>4. \A a \in Address : readByte(n, a) = IF a = 510 THEN 4
                                          ELSE IF a = 511 THEN 6 ELSE readByte(aBytes, a)
  <2>1. \A a \in Address : readByte(m, a) = IF a = 511 THEN 6 ELSE readByte(aBytes, a)
    BY <1>3, ReadWritten
  <2>2. \A a \in Address : readByte(n, a) = IF a = 510 THEN 4 ELSE readByte(m, a)
    BY <1>3, ReadWritten
  <2>. QED
    BY <2>1, <2>2
<1>. HIDE DEF n
<1>5. iProgramCounter' = ORIGIN + 16
  <2>1. readByte(aBytes', 1539) = 16 /\ readByte(aBytes', 1540) = 6
    <3>1. 1539 \in Address /\ 1540 \in Address
      BY LowCells
    <3>. QED
      BY <1>2, <1>4, <3>1 DEF ORIGIN
  <2>2. iProgramCounter' = readWord(aBytes', 1539) % MEM_SIZE
    BY <1>1 DEF JSR, goto, ORIGIN
  <2>. QED
    BY <2>1, <2>2 DEF readWord, ORIGIN, MEM_SIZE
<1>6. Called' /\ CodeKept
  <2>1. Called'
    BY <1>2, <1>3, <1>4 DEF Called
  <2>2. \A a \in Address : a >= 512 => a # 510 /\ a # 511
    BY LowCells
  <2>. QED
    BY <1>2, <1>4, <2>1, <2>2 DEF CodeKept
<1>. QED
  BY <1>1, <1>2, <1>5, <1>6 DEF JSR

LEMMA ReturnStep ==
  ASSUME Instruction, opcode = 96, iStackPointer = 253, Called
  PROVE  /\ iProgramCounter' = ORIGIN + 5 /\ iStackPointer' = 255
         /\ UNCHANGED <<iXIndex, iYIndex, aBytes>>
<1>1. RTS
  BY BenchOpcodes, Runs DEF Handler
<1>2. pull(1) = 4 /\ pull(2) = 6
  BY DEF pull, Called, STACK_BASE
<1>. QED
  BY <1>1, <1>2 DEF RTS, Pulled, goto, ORIGIN, MEM_SIZE

-----------------------------------------------------------------------------
(***************************************************************************)
(* The programs.  Each loops 256 times; before round k + 1 of a loop, the  *)
(* register it counts with tells k, and the number of instructions so far  *)
(* is that of the rounds.                                                  *)
(***************************************************************************)
Code(o) == readByte(aBytes, ORIGIN + o)

\* The instruction at o is next, and n have been executed.
AtCode(o, n) == iProgramCounter = ORIGIN + o /\ instrs = n

\* What every op finds and leaves.
Settled == iStackPointer = 255 /\ iYIndex = 0

\* Counting down and up from zero: k rounds before the end of one and after it.
Down(k) == (256 - k) % 256
Up(k)   == (k + 1) % 256

Zero(n) == F_ZERO \in iStatus <=> n = 0

AluRound(k) ==
  \/ /\ iXIndex = Down(k)
     /\ \/ AtCode(4, 2 + 9 * k)
        \/ AtCode(6, 3 + 9 * k)
        \/ AtCode(8, 4 + 9 * k)
        \/ AtCode(10, 5 + 9 * k)
        \/ AtCode(12, 6 + 9 * k)
        \/ AtCode(13, 7 + 9 * k)
        \/ AtCode(14, 8 + 9 * k)
        \/ AtCode(15, 9 + 9 * k)
  \/ iXIndex = 255 - k /\ Zero(iXIndex) /\ AtCode(16, 10 + 9 * k)

AluRun ==
  /\ Settled
  /\ \/ AtCode(0, 0)
     \/ AtCode(2, 1)
     \/ \E k \in Byte : AluRound(k)
     \/ AtCode(18, 2306)

MemoryRound(k) ==
  \/ iXIndex = k /\ (AtCode(2, 1 + 4 * k) \/ AtCode(4, 2 + 4 * k) \/ AtCode(6, 3 + 4 * k))
  \/ iXIndex = Up(k) /\ Zero(iXIndex) /\ AtCode(7, 4 + 4 * k)

MemoryRun ==
  /\ Settled
  /\ \/ AtCode(0, 0)
     \/ \E k \in Byte : MemoryRound(k)
     \/ AtCode(9, 1025)

CallRound(k) ==
  \/ /\ iXIndex = Down(k) /\ iYIndex = k
     /\ \/ iStackPointer = 255 /\ AtCode(2, 1 + 5 * k)
        \/ iStackPointer = 253 /\ Called /\ AtCode(16, 2 + 5 * k)
  \/ /\ iXIndex = Down(k) /\ iYIndex = Up(k)
     /\ \/ iStackPointer = 253 /\ Called /\ AtCode(17, 3 + 5 * k)
        \/ iStackPointer = 255 /\ AtCode(5, 4 + 5 * k)
  \/ /\ iXIndex = 255 - k /\ Zero(iXIndex) /\ iYIndex = Up(k)
     /\ iStackPointer = 255 /\ AtCode(6, 5 + 5 * k)

CallRun ==
  \/ Settled /\ AtCode(0, 0)
  \/ \E k \in Byte : CallRound(k)
  \/ Settled /\ AtCode(8, 1281)

\* The rounds among k in which X is odd: those that execute the NOP.
Nops(k) == (k + 1) \div 2

BranchRound(k) ==
  \/ iXIndex = k /\ iYIndex = Down(k) /\ AtCode(2, 1 + 6 * k + Nops(k))
  \/ /\ iXIndex = Up(k) /\ iYIndex = Down(k)
     /\ \/ AtCode(3, 2 + 6 * k + Nops(k))
        \/ iAccumulator = Up(k) /\ AtCode(4, 3 + 6 * k + Nops(k))
        \/ Zero(Up(k) % 2) /\ AtCode(6, 4 + 6 * k + Nops(k))
        \/ Up(k) % 2 = 1 /\ AtCode(8, 5 + 6 * k + Nops(k))
        \/ AtCode(9, 5 + 6 * k + Nops(k + 1))
  \/ /\ iXIndex = Up(k) /\ iYIndex = 255 - k /\ Zero(iYIndex)
     /\ AtCode(10, 6 + 6 * k + Nops(k + 1))

BranchRun ==
  /\ iStackPointer = 255
  /\ \/ iYIndex = 0 /\ AtCode(0, 0)
     \/ \E k \in Byte : BranchRound(k)
     \/ iYIndex = 0 /\ AtCode(12, 1665)

MixedRound(k) ==
  \/ /\ iXIndex = k
     /\ \/ iStackPointer = 255 /\ (AtCode(4, 2 + 7 * k) \/ AtCode(6, 3 + 7 * k))
        \/ /\ iStackPointer = 254
           /\ AtCode(7, 4 + 7 * k) \/ AtCode(9, 5 + 7 * k) \/ AtCode(11, 6 + 7 * k)
        \/ iStackPointer = 255 /\ AtCode(12, 7 + 7 * k)
  \/ iXIndex = Up(k) /\ Zero(iXIndex) /\ iStackPointer = 255 /\ AtCode(13, 8 + 7 * k)

MixedRun ==
  /\ iYIndex = 0
  /\ \/ iStackPointer = 255 /\ (AtCode(0, 0) \/ (iXIndex = 0 /\ AtCode(2, 1)))
     \/ \E k \in Byte : MixedRound(k)
     \/ iStackPointer = 255 /\ AtCode(15, 1794)

RunOf(b) == /\ b = "alu" => AluRun
            /\ b = "memory" => MemoryRun
            /\ b = "call" => CallRun
            /\ b = "branch" => BranchRun
            /\ b = "mixed" => MixedRun

\* Where the illegal byte is.
End == [alu |-> 18, memory |-> 9, call |-> 8, branch |-> 12, mixed |-> 15]

Ended(b) == Settled /\ AtCode(End[b], Executed[b])

BenchInv ==
  /\ Inv
  /\ at \in {"loadImage", "runFrom"} => ~running /\ Settled
  /\ at \in {"runFrom", "run", "count"} =>
       \E b \in Benchmark :
         /\ Loaded(b)
         /\ at = "run" /\ running => RunOf(b)
         /\ (at = "run" /\ ~running) \/ at = "count" => Ended(b)

-----------------------------------------------------------------------------
(***************************************************************************)
(* One instruction of a program.                                           *)
(***************************************************************************)
LEMMA AluCode ==
  ASSUME Loaded("alu")
  PROVE  /\ Code(0) = 169 /\ Code(2) = 162 /\ Code(3) = 0 /\ Code(4) = 105 /\ Code(6) = 41
         /\ Code(8) = 9 /\ Code(10) = 73 /\ Code(12) = 10 /\ Code(13) = 74 /\ Code(14) = 42
         /\ Code(15) = 202 /\ Code(16) = 208 /\ Code(17) = 242 /\ Code(18) = 2
<1>. DEFINE p == <<169, 7, 162, 0, 105, 3, 41, 127, 9, 1, 73, 85, 10, 74, 42, 202, 208, 242, 2>>
<1>1. \A i \in 1 .. 19 : Code(i - 1) = p[i]
  BY DEF Loaded, Program, Code, ORIGIN
<1>. QED
  BY <1>1

\* The bytes that the programs execute, and the one that ends them.
Used == {9, 10, 32, 41, 42, 72, 73, 74, 96, 104, 105, 117, 136, 138, 149, 162, 169, 181, 200,
         202, 208, 232, 234, 240}

LEMMA UsedRuns ==
  ASSUME running, opcode \in Used
  PROVE  ~Exit
<1>. SUFFICES ASSUME NEW op, NEW mode, Is(op, mode, opcode), op # "JMP" PROVE ~Exit
  BY BenchOpcodes DEF Used
<1>1. op \in DOMAIN Opcode /\ mode \in Fetched(op)
  BY DEF Is, Fetched
<1>2. "JMP" \in DOMAIN Opcode
  BY DEF Opcode
<1>3. Fetched("JMP") = {}
  BY <1>1, <1>2, OneInstruction
<1>. QED
  BY <1>1, <1>3 DEF Exit, illegal, JumpToSelf

\* An instruction is executed and counted.
Counts == Instruction /\ (instrs \in 0 .. 2305 => instrs' = instrs + 1)

LEMMA ExecuteCounts ==
  ASSUME execute, MaxInstrs >= 2306
  PROVE  Counts
  BY HostAssumption DEF execute, Counts

\* The step leads to the instruction at o, when n have been executed.
Reaches(o, n) == iProgramCounter' = ORIGIN + o /\ instrs' = n

LEMMA StepAt ==
  ASSUME NEW o \in Int, 0 <= o, o < 19, NEW n \in Int, 0 <= n, n < 2306,
         Counts, AtCode(o, n)
  PROVE  /\ Instruction /\ InCode /\ opcode = Code(o)
         /\ readByte(aBytes, iProgramCounter + 1) = Code(o + 1)
         /\ \A d \in Int : Goto(d) => Reaches(o + d, n + 1)
<1>1. Instruction /\ instrs' = n + 1
  BY DEF Counts, AtCode
<1>2. iProgramCounter = ORIGIN + o /\ ORIGIN \in Int
  BY DEF AtCode, ORIGIN
<1>3. opcode = Code(o) /\ iProgramCounter + 1 = ORIGIN + (o + 1)
  BY <1>2 DEF opcode, Code
<1>5. InCode
  BY <1>2 DEF InCode, ORIGIN
<1>4. ASSUME NEW d \in Int, Goto(d) PROVE Reaches(o + d, n + 1)
  <2>1. iProgramCounter' = ORIGIN + (o + d)
    BY <1>2, <1>4 DEF Goto
  <2>. QED
    BY <1>1, <2>1 DEF Reaches
<1>. QED
  BY <1>1, <1>3, <1>4, <1>5 DEF Code

\* Where an instruction that only moves on leads.
LEMMA QuietAt ==
  ASSUME NEW o \in Int, 0 <= o, o < 19, NEW n \in Int, 0 <= n, n < 2306,
         Counts, AtCode(o, n)
  PROVE  /\ Code(o) \in {10, 42, 74, 138, 234} => Quiet /\ Reaches(o + 1, n + 1)
         /\ Code(o) \in {9, 41, 73, 105, 117, 169, 181} => Quiet /\ Reaches(o + 2, n + 1)
<1>1. Instruction /\ InCode /\ opcode = Code(o)
  BY StepAt
<1>2. (Goto(1) => Reaches(o + 1, n + 1)) /\ (Goto(2) => Reaches(o + 2, n + 1))
  BY StepAt
<1>3. Code(o) \in {10, 42, 74, 138, 234} => Quiet /\ Goto(1)
  BY <1>1, QuietSteps
<1>4. Code(o) \in {9, 41, 73, 105, 117, 169, 181} => Quiet /\ Goto(2)
  BY <1>1, QuietSteps
<1>. QED
  BY <1>2, <1>3, <1>4
LEMMA Rounds ==
  ASSUME NEW k \in Byte
  PROVE  /\ k \in Int /\ 0 <= k /\ k < 256
         /\ Down(k) = IF k = 0 THEN 0 ELSE 256 - k
         /\ (Down(k) - 1) % 256 = 255 - k
         /\ k < 255 => 255 - k = Down(k + 1) /\ k + 1 \in Byte
         /\ k # 255 => 255 - k # 0
         /\ 0 \in Byte /\ Down(0) = 0
<1>1. k \in Int /\ 0 <= k /\ k < 256
  BY DEF Byte
<1>2. Down(k) = IF k = 0 THEN 0 ELSE 256 - k
  BY <1>1 DEF Down
<1>. QED
  BY <1>1, <1>2 DEF Down, Byte

LEMMA QuietKeeps == ASSUME Quiet PROVE CodeKept
  BY DEF Quiet, CodeKept

LEMMA AluStep ==
  ASSUME Inv, Loaded("alu"), AluRun, Counts
  PROVE  AluRun' /\ CodeKept
<1>1. CASE AtCode(0, 0)
  <2>1. Quiet /\ Reaches(2, 1)
    BY <1>1, AluCode, QuietAt DEF Reaches
  <2>. QED
    BY <2>1, QuietKeeps DEF AluRun, Settled, Quiet, AtCode, Reaches
<1>2. CASE AtCode(2, 1)
  <2>1. Instruction /\ InCode /\ opcode = 162 /\ readByte(aBytes, iProgramCounter + 1) = 0
    BY <1>2, AluCode, StepAt
  <2>2. Goto(2) => Reaches(4, 2)
    BY <1>2, StepAt DEF Reaches
  <2>3. iXIndex' = 0 /\ Reaches(4, 2) /\ UNCHANGED <<iYIndex, iStackPointer, aBytes>>
    BY <2>1, <2>2, CountSteps
  <2>4. AluRound(0)' /\ 0 \in Byte
    BY <2>3, Rounds DEF AluRound, AtCode, Reaches, Down, Byte
  <2>. QED
    BY <2>3, <2>4 DEF AluRun, Settled, CodeKept
<1>3. ASSUME NEW k \in Byte, AluRound(k) PROVE AluRun' /\ CodeKept
  <2>. k \in Int /\ 0 <= k /\ k < 256
    BY Rounds
  <2>1. AtCode(4, 2 + 9 * k) => Quiet /\ Reaches(6, 3 + 9 * k)
    BY AluCode, QuietAt DEF Reaches
  <2>2. AtCode(6, 3 + 9 * k) => Quiet /\ Reaches(8, 4 + 9 * k)
    BY AluCode, QuietAt DEF Reaches
  <2>3. AtCode(8, 4 + 9 * k) => Quiet /\ Reaches(10, 5 + 9 * k)
    BY AluCode, QuietAt DEF Reaches
  <2>4. AtCode(10, 5 + 9 * k) => Quiet /\ Reaches(12, 6 + 9 * k)
    BY AluCode, QuietAt DEF Reaches
  <2>5. AtCode(12, 6 + 9 * k) => Quiet /\ Reaches(13, 7 + 9 * k)
    BY AluCode, QuietAt DEF Reaches
  <2>6. AtCode(13, 7 + 9 * k) => Quiet /\ Reaches(14, 8 + 9 * k)
    BY AluCode, QuietAt DEF Reaches
  <2>7. AtCode(14, 8 + 9 * k) => Quiet /\ Reaches(15, 9 + 9 * k)
    BY AluCode, QuietAt DEF Reaches
  <2>8. CASE /\ iXIndex = Down(k)
             /\ \/ AtCode(4, 2 + 9 * k)
                \/ AtCode(6, 3 + 9 * k)
                \/ AtCode(8, 4 + 9 * k)
                \/ AtCode(10, 5 + 9 * k)
                \/ AtCode(12, 6 + 9 * k)
                \/ AtCode(13, 7 + 9 * k)
                \/ AtCode(14, 8 + 9 * k)
    <3>1. Quiet /\ AluRound(k)'
      BY <2>1, <2>2, <2>3, <2>4, <2>5, <2>6, <2>7, <2>8 DEF AluRound, Quiet, AtCode, Reaches
    <3>. QED
      BY <3>1, QuietKeeps DEF AluRun, Settled, Quiet
  <2>9. CASE iXIndex = Down(k) /\ AtCode(15, 9 + 9 * k)
    <3>1. Instruction /\ InCode /\ opcode = 202 /\ (Goto(1) => Reaches(16, 10 + 9 * k))
      BY <2>9, AluCode, StepAt, Rounds DEF Reaches
    <3>2. /\ iXIndex' = (Down(k) - 1) % 256 /\ ZeroIs(iXIndex') /\ Reaches(16, 10 + 9 * k)
          /\ UNCHANGED <<iYIndex, iStackPointer, aBytes>>
      BY <2>9, <3>1, CountSteps
    <3>3. AluRound(k)'
      BY <3>2, Rounds DEF AluRound, AtCode, Reaches, Zero, ZeroIs
    <3>. QED
      BY <3>2, <3>3 DEF AluRun, Settled, CodeKept
  <2>10. CASE iXIndex = 255 - k /\ Zero(iXIndex) /\ AtCode(16, 10 + 9 * k)
    <3>1. /\ Instruction /\ InCode /\ opcode = 208
          /\ Signed(readByte(aBytes, iProgramCounter + 1)) = -14
          /\ Goto(-12) => Reaches(4, 11 + 9 * k)
          /\ Goto(2) => Reaches(18, 11 + 9 * k)
      BY <2>10, AluCode, StepAt, Rounds DEF Reaches, Signed
    <3>2. Quiet /\ IF iXIndex = 0 THEN Goto(2) ELSE Goto(-12)
      BY <2>10, <3>1, BranchSteps DEF Zero
    <3>3. CASE k = 255
      BY <2>10, <3>1, <3>2, <3>3, QuietKeeps DEF AluRun, Settled, Quiet, AtCode, Reaches
    <3>4. CASE k # 255
      <4>1. k + 1 \in Byte /\ 255 - k = Down(k + 1) /\ 11 + 9 * k = 2 + 9 * (k + 1)
        BY <3>4, Rounds
      <4>2. Quiet /\ Reaches(4, 11 + 9 * k)
        BY <2>10, <3>1, <3>2, <3>4, Rounds
      <4>3. AluRound(k + 1)'
        BY <2>10, <4>1, <4>2 DEF AluRound, Quiet, AtCode, Reaches
      <4>. QED
        BY <4>1, <4>2, <4>3, QuietKeeps DEF AluRun, Settled, Quiet
    <3>. QED
      BY <3>3, <3>4
  <2>. QED
    BY <1>3, <2>8, <2>9, <2>10 DEF AluRound
<1>4. CASE AtCode(18, 2306)
  <2>1. opcode = 2
    BY <1>4, AluCode DEF AtCode, opcode, Code
  <2>. QED
    BY <2>1, IllegalEnds DEF Counts
<1>. QED
  BY <1>1, <1>2, <1>3, <1>4 DEF AluRun
LEMMA RoundsUp ==
  ASSUME NEW k \in Byte
  PROVE  /\ k \in Int /\ 0 <= k /\ k < 256
         /\ Up(k) = (k + 1) % 256
         /\ k < 255 => Up(k) = k + 1 /\ k + 1 \in Byte
         /\ k = 255 => Up(k) = 0
<1>1. k \in Int /\ 0 <= k /\ k < 256
  BY DEF Byte
<1>. QED
  BY <1>1 DEF Up, Byte

LEMMA MemoryCode ==
  ASSUME Loaded("memory")
  PROVE  /\ Code(0) = 162 /\ Code(1) = 0 /\ Code(2) = 181 /\ Code(4) = 149 /\ Code(6) = 232
         /\ Code(7) = 208 /\ Code(8) = 249 /\ Code(9) = 2
<1>. DEFINE p == <<162, 0, 181, 16, 149, 128, 232, 208, 249, 2>>
<1>1. \A i \in 1 .. 10 : Code(i - 1) = p[i]
  BY DEF Loaded, Program, Code, ORIGIN
<1>. QED
  BY <1>1

LEMMA MemoryStep ==
  ASSUME Inv, Loaded("memory"), MemoryRun, Counts
  PROVE  MemoryRun' /\ CodeKept
<1>1. CASE AtCode(0, 0)
  <2>1. Instruction /\ InCode /\ opcode = 162 /\ readByte(aBytes, iProgramCounter + 1) = 0
    BY <1>1, MemoryCode, StepAt
  <2>2. Goto(2) => Reaches(2, 1)
    BY <1>1, StepAt DEF Reaches
  <2>3. iXIndex' = 0 /\ Reaches(2, 1) /\ UNCHANGED <<iYIndex, iStackPointer, aBytes>>
    BY <2>1, <2>2, CountSteps
  <2>4. MemoryRound(0)' /\ 0 \in Byte
    BY <2>3 DEF MemoryRound, AtCode, Reaches, Byte
  <2>. QED
    BY <2>3, <2>4 DEF MemoryRun, Settled, CodeKept
<1>2. ASSUME NEW k \in Byte, MemoryRound(k) PROVE MemoryRun' /\ CodeKept
  <2>. k \in Int /\ 0 <= k /\ k < 256
    BY RoundsUp
  <2>1. CASE iXIndex = k /\ AtCode(2, 1 + 4 * k)
    <3>1. Quiet /\ Reaches(4, 2 + 4 * k)
      BY <2>1, MemoryCode, QuietAt DEF Reaches
    <3>2. MemoryRound(k)'
      BY <2>1, <3>1 DEF MemoryRound, Quiet, AtCode, Reaches
    <3>. QED
      BY <3>1, <3>2, QuietKeeps DEF MemoryRun, Settled, Quiet
  <2>2. CASE iXIndex = k /\ AtCode(4, 2 + 4 * k)
    <3>1. Instruction /\ InCode /\ opcode = 149 /\ (Goto(2) => Reaches(6, 3 + 4 * k))
      BY <2>2, MemoryCode, StepAt DEF Reaches
    <3>2. Reaches(6, 3 + 4 * k) /\ CodeKept /\ UNCHANGED <<iXIndex, iYIndex, iStackPointer>>
      BY <3>1, StoreSteps
    <3>3. MemoryRound(k)'
      BY <2>2, <3>2 DEF MemoryRound, AtCode, Reaches
    <3>. QED
      BY <3>2, <3>3 DEF MemoryRun, Settled
  <2>3. CASE iXIndex = k /\ AtCode(6, 3 + 4 * k)
    <3>1. Instruction /\ InCode /\ opcode = 232 /\ (Goto(1) => Reaches(7, 4 + 4 * k))
      BY <2>3, MemoryCode, StepAt DEF Reaches
    <3>2. /\ iXIndex' = (k + 1) % 256 /\ ZeroIs(iXIndex') /\ Reaches(7, 4 + 4 * k)
          /\ UNCHANGED <<iYIndex, iStackPointer, aBytes>>
      BY <2>3, <3>1, CountSteps
    <3>3. MemoryRound(k)'
      BY <3>2, RoundsUp DEF MemoryRound, AtCode, Reaches, Zero, ZeroIs
    <3>. QED
      BY <3>2, <3>3 DEF MemoryRun, Settled, CodeKept
  <2>4. CASE iXIndex = Up(k) /\ Zero(iXIndex) /\ AtCode(7, 4 + 4 * k)
    <3>1. /\ Instruction /\ InCode /\ opcode = 208
          /\ Signed(readByte(aBytes, iProgramCounter + 1)) = -7
          /\ Goto(-5) => Reaches(2, 5 + 4 * k)
          /\ Goto(2) => Reaches(9, 5 + 4 * k)
      BY <2>4, MemoryCode, StepAt DEF Reaches, Signed
    <3>2. Quiet /\ IF iXIndex = 0 THEN Goto(2) ELSE Goto(-5)
      BY <2>4, <3>1, BranchSteps DEF Zero
    <3>3. CASE k = 255
      BY <2>4, <3>1, <3>2, <3>3, RoundsUp, QuietKeeps
         DEF MemoryRun, Settled, Quiet, AtCode, Reaches
    <3>4. CASE k # 255
      <4>1. k + 1 \in Byte /\ Up(k) = k + 1 /\ Up(k) # 0
        BY <3>4, RoundsUp
      <4>2. Quiet /\ Reaches(2, 5 + 4 * k)
        BY <2>4, <3>1, <3>2, <4>1
      <4>3. MemoryRound(k + 1)'
        BY <2>4, <4>1, <4>2 DEF MemoryRound, Quiet, AtCode, Reaches
      <4>. QED
        BY <4>1, <4>2, <4>3, QuietKeeps DEF MemoryRun, Settled, Quiet
    <3>. QED
      BY <3>3, <3>4
  <2>. QED
    BY <1>2, <2>1, <2>2, <2>3, <2>4 DEF MemoryRound
<1>3. CASE AtCode(9, 1025)
  <2>1. opcode = 2
    BY <1>3, MemoryCode DEF AtCode, opcode, Code
  <2>. QED
    BY <2>1, IllegalEnds DEF Counts
<1>. QED
  BY <1>1, <1>2, <1>3 DEF MemoryRun
LEMMA CallCode ==
  ASSUME Loaded("call")
  PROVE  /\ Code(0) = 162 /\ Code(1) = 0 /\ Code(2) = 32 /\ Code(3) = 16 /\ Code(4) = 6
         /\ Code(5) = 202 /\ Code(6) = 208 /\ Code(7) = 250 /\ Code(8) = 2
         /\ Code(16) = 200 /\ Code(17) = 96
<1>. DEFINE p == <<162, 0, 32, 16, 6, 202, 208, 250, 2, 0, 0, 0, 0, 0, 0, 0, 200, 96>>
<1>1. \A i \in 1 .. 18 : Code(i - 1) = p[i]
  BY DEF Loaded, Program, Code, ORIGIN
<1>. QED
  BY <1>1

LEMMA CallRunStep ==
  ASSUME Inv, Loaded("call"), CallRun, Counts
  PROVE  CallRun' /\ CodeKept
<1>1. CASE Settled /\ AtCode(0, 0)
  <2>1. Instruction /\ InCode /\ opcode = 162 /\ readByte(aBytes, iProgramCounter + 1) = 0
    BY <1>1, CallCode, StepAt
  <2>2. Goto(2) => Reaches(2, 1)
    BY <1>1, StepAt DEF Reaches
  <2>3. iXIndex' = 0 /\ Reaches(2, 1) /\ UNCHANGED <<iYIndex, iStackPointer, aBytes>>
    BY <2>1, <2>2, CountSteps
  <2>4. CallRound(0)' /\ 0 \in Byte
    BY <1>1, <2>3, Rounds DEF CallRound, AtCode, Reaches, Settled, Down, Byte
  <2>. QED
    BY <2>3, <2>4 DEF CallRun, CodeKept
<1>2. ASSUME NEW k \in Byte, CallRound(k) PROVE CallRun' /\ CodeKept
  <2>. k \in Int /\ 0 <= k /\ k < 256
    BY RoundsUp
  <2>1. CASE /\ iXIndex = Down(k) /\ iYIndex = k /\ iStackPointer = 255
             /\ AtCode(2, 1 + 5 * k)
    <3>1. Instruction /\ opcode = 32
      BY <2>1, CallCode, StepAt
    <3>2. iProgramCounter = ORIGIN + 2 /\ instrs' = 2 + 5 * k
      BY <2>1 DEF AtCode, Counts
    <3>3. readByte(aBytes, ORIGIN + 3) = 16 /\ readByte(aBytes, ORIGIN + 4) = 6
      BY CallCode DEF Code
    <3>4. /\ iProgramCounter' = ORIGIN + 16 /\ iStackPointer' = 253 /\ Called' /\ CodeKept
          /\ UNCHANGED <<iXIndex, iYIndex>>
      BY <2>1, <3>1, <3>2, <3>3, CallStep
    <3>5. CallRound(k)'
      BY <2>1, <3>2, <3>4 DEF CallRound, AtCode
    <3>. QED
      BY <3>4, <3>5 DEF CallRun
  <2>2. CASE /\ iXIndex = Down(k) /\ iYIndex = k /\ iStackPointer = 253 /\ Called
             /\ AtCode(16, 2 + 5 * k)
    <3>1. Instruction /\ InCode /\ opcode = 200 /\ (Goto(1) => Reaches(17, 3 + 5 * k))
      BY <2>2, CallCode, StepAt DEF Reaches
    <3>2. /\ iYIndex' = (k + 1) % 256 /\ Reaches(17, 3 + 5 * k)
          /\ UNCHANGED <<iXIndex, iStackPointer, aBytes>>
      BY <2>2, <3>1, CountSteps
    <3>3. CallRound(k)'
      BY <2>2, <3>2, RoundsUp DEF CallRound, AtCode, Reaches, Called
    <3>. QED
      BY <3>2, <3>3 DEF CallRun, CodeKept
  <2>3. CASE /\ iXIndex = Down(k) /\ iYIndex = Up(k) /\ iStackPointer = 253 /\ Called
             /\ AtCode(17, 3 + 5 * k)
    <3>1. Instruction /\ opcode = 96
      BY <2>3, CallCode, StepAt
    <3>2. instrs' = 4 + 5 * k
      BY <2>3 DEF AtCode, Counts
    <3>3. /\ iProgramCounter' = ORIGIN + 5 /\ iStackPointer' = 255
          /\ UNCHANGED <<iXIndex, iYIndex, aBytes>>
      BY <2>3, <3>1, ReturnStep
    <3>4. CallRound(k)'
      BY <2>3, <3>2, <3>3 DEF CallRound, AtCode
    <3>. QED
      BY <3>3, <3>4 DEF CallRun, CodeKept
  <2>4. CASE /\ iXIndex = Down(k) /\ iYIndex = Up(k) /\ iStackPointer = 255
             /\ AtCode(5, 4 + 5 * k)
    <3>1. Instruction /\ InCode /\ opcode = 202 /\ (Goto(1) => Reaches(6, 5 + 5 * k))
      BY <2>4, CallCode, StepAt DEF Reaches
    <3>2. /\ iXIndex' = (Down(k) - 1) % 256 /\ ZeroIs(iXIndex') /\ Reaches(6, 5 + 5 * k)
          /\ UNCHANGED <<iYIndex, iStackPointer, aBytes>>
      BY <2>4, <3>1, CountSteps
    <3>3. CallRound(k)'
      BY <2>4, <3>2, Rounds DEF CallRound, AtCode, Reaches, Zero, ZeroIs
    <3>. QED
      BY <3>2, <3>3 DEF CallRun, CodeKept
  <2>5. CASE /\ iXIndex = 255 - k /\ Zero(iXIndex) /\ iYIndex = Up(k) /\ iStackPointer = 255
             /\ AtCode(6, 5 + 5 * k)
    <3>1. /\ Instruction /\ InCode /\ opcode = 208
          /\ Signed(readByte(aBytes, iProgramCounter + 1)) = -6
          /\ Goto(-4) => Reaches(2, 6 + 5 * k)
          /\ Goto(2) => Reaches(8, 6 + 5 * k)
      BY <2>5, CallCode, StepAt DEF Reaches, Signed
    <3>2. Quiet /\ IF iXIndex = 0 THEN Goto(2) ELSE Goto(-4)
      BY <2>5, <3>1, BranchSteps DEF Zero
    <3>3. CASE k = 255
      BY <2>5, <3>1, <3>2, <3>3, RoundsUp, QuietKeeps
         DEF CallRun, Settled, Quiet, AtCode, Reaches
    <3>4. CASE k # 255
      <4>1. k + 1 \in Byte /\ Up(k) = k + 1 /\ 255 - k = Down(k + 1)
        BY <3>4, Rounds, RoundsUp
      <4>2. Quiet /\ Reaches(2, 6 + 5 * k)
        BY <2>5, <3>1, <3>2, <3>4
      <4>3. CallRound(k + 1)'
        BY <2>5, <4>1, <4>2 DEF CallRound, Quiet, AtCode, Reaches
      <4>. QED
        BY <4>1, <4>2, <4>3, QuietKeeps DEF CallRun
    <3>. QED
      BY <3>3, <3>4
  <2>. QED
    BY <1>2, <2>1, <2>2, <2>3, <2>4, <2>5 DEF CallRound
<1>3. CASE Settled /\ AtCode(8, 1281)
  <2>1. opcode = 2
    BY <1>3, CallCode DEF AtCode, opcode, Code
  <2>. QED
    BY <2>1, IllegalEnds DEF Counts
<1>. QED
  BY <1>1, <1>2, <1>3 DEF CallRun
LEMMA MixedCode ==
  ASSUME Loaded("mixed")
  PROVE  /\ Code(0) = 162 /\ Code(1) = 0 /\ Code(2) = 169 /\ Code(4) = 117 /\ Code(6) = 72
         /\ Code(7) = 73 /\ Code(9) = 149 /\ Code(11) = 104 /\ Code(12) = 232
         /\ Code(13) = 208 /\ Code(14) = 245 /\ Code(15) = 2
<1>. DEFINE p == <<162, 0, 169, 0, 117, 16, 72, 73, 170, 149, 128, 104, 232, 208, 245, 2>>
<1>1. \A i \in 1 .. 16 : Code(i - 1) = p[i]
  BY DEF Loaded, Program, Code, ORIGIN
<1>. QED
  BY <1>1

LEMMA MixedStep ==
  ASSUME Inv, Loaded("mixed"), MixedRun, Counts
  PROVE  MixedRun' /\ CodeKept
<1>1. CASE iStackPointer = 255 /\ AtCode(0, 0)
  <2>1. Instruction /\ InCode /\ opcode = 162 /\ readByte(aBytes, iProgramCounter + 1) = 0
    BY <1>1, MixedCode, StepAt
  <2>2. Goto(2) => Reaches(2, 1)
    BY <1>1, StepAt DEF Reaches
  <2>3. iXIndex' = 0 /\ Reaches(2, 1) /\ UNCHANGED <<iYIndex, iStackPointer, aBytes>>
    BY <2>1, <2>2, CountSteps
  <2>. QED
    BY <1>1, <2>3 DEF MixedRun, AtCode, Reaches, CodeKept
<1>2. CASE iStackPointer = 255 /\ iXIndex = 0 /\ AtCode(2, 1)
  <2>1. Quiet /\ Reaches(4, 2)
    BY <1>2, MixedCode, QuietAt DEF Reaches
  <2>2. MixedRound(0)' /\ 0 \in Byte
    BY <1>2, <2>1 DEF MixedRound, Quiet, AtCode, Reaches, Byte
  <2>. QED
    BY <2>1, <2>2, QuietKeeps DEF MixedRun, Quiet
<1>3. ASSUME NEW k \in Byte, MixedRound(k) PROVE MixedRun' /\ CodeKept
  <2>. k \in Int /\ 0 <= k /\ k < 256
    BY RoundsUp
  <2>1. AtCode(4, 2 + 7 * k) => Quiet /\ Reaches(6, 3 + 7 * k)
    BY MixedCode, QuietAt DEF Reaches
  <2>2. AtCode(7, 4 + 7 * k) => Quiet /\ Reaches(9, 5 + 7 * k)
    BY MixedCode, QuietAt DEF Reaches
  <2>3. CASE \/ iXIndex = k /\ iStackPointer = 255 /\ AtCode(4, 2 + 7 * k)
             \/ iXIndex = k /\ iStackPointer = 254 /\ AtCode(7, 4 + 7 * k)
    <3>1. Quiet /\ MixedRound(k)'
      BY <2>1, <2>2, <2>3 DEF MixedRound, Quiet, AtCode, Reaches
    <3>. QED
      BY <3>1, QuietKeeps DEF MixedRun, Quiet
  <2>4. CASE iXIndex = k /\ iStackPointer = 255 /\ AtCode(6, 3 + 7 * k)
    <3>1. Instruction /\ InCode /\ opcode = 72 /\ (Goto(1) => Reaches(7, 4 + 7 * k))
      BY <2>4, MixedCode, StepAt DEF Reaches
    <3>2. /\ Reaches(7, 4 + 7 * k) /\ CodeKept /\ iStackPointer' = 254
          /\ UNCHANGED <<iXIndex, iYIndex>>
      BY <2>4, <3>1, StoreSteps
    <3>3. MixedRound(k)'
      BY <2>4, <3>2 DEF MixedRound, AtCode, Reaches
    <3>. QED
      BY <3>2, <3>3 DEF MixedRun
  <2>5. CASE iXIndex = k /\ iStackPointer = 254 /\ AtCode(9, 5 + 7 * k)
    <3>1. Instruction /\ InCode /\ opcode = 149 /\ (Goto(2) => Reaches(11, 6 + 7 * k))
      BY <2>5, MixedCode, StepAt DEF Reaches
    <3>2. Reaches(11, 6 + 7 * k) /\ CodeKept /\ UNCHANGED <<iXIndex, iYIndex, iStackPointer>>
      BY <3>1, StoreSteps
    <3>3. MixedRound(k)'
      BY <2>5, <3>2 DEF MixedRound, AtCode, Reaches
    <3>. QED
      BY <3>2, <3>3 DEF MixedRun
  <2>6. CASE iXIndex = k /\ iStackPointer = 254 /\ AtCode(11, 6 + 7 * k)
    <3>1. Instruction /\ InCode /\ opcode = 104 /\ (Goto(1) => Reaches(12, 7 + 7 * k))
      BY <2>6, MixedCode, StepAt DEF Reaches
    <3>2. /\ Reaches(12, 7 + 7 * k) /\ iStackPointer' = 255
          /\ UNCHANGED <<iXIndex, iYIndex, aBytes>>
      BY <2>6, <3>1, StoreSteps
    <3>3. MixedRound(k)'
      BY <2>6, <3>2 DEF MixedRound, AtCode, Reaches
    <3>. QED
      BY <3>2, <3>3 DEF MixedRun, CodeKept
  <2>7. CASE iXIndex = k /\ iStackPointer = 255 /\ AtCode(12, 7 + 7 * k)
    <3>1. Instruction /\ InCode /\ opcode = 232 /\ (Goto(1) => Reaches(13, 8 + 7 * k))
      BY <2>7, MixedCode, StepAt DEF Reaches
    <3>2. /\ iXIndex' = (k + 1) % 256 /\ ZeroIs(iXIndex') /\ Reaches(13, 8 + 7 * k)
          /\ UNCHANGED <<iYIndex, iStackPointer, aBytes>>
      BY <2>7, <3>1, CountSteps
    <3>3. MixedRound(k)'
      BY <2>7, <3>2, RoundsUp DEF MixedRound, AtCode, Reaches, Zero, ZeroIs
    <3>. QED
      BY <3>2, <3>3 DEF MixedRun, CodeKept
  <2>8. CASE /\ iXIndex = Up(k) /\ Zero(iXIndex) /\ iStackPointer = 255
             /\ AtCode(13, 8 + 7 * k)
    <3>1. /\ Instruction /\ InCode /\ opcode = 208
          /\ Signed(readByte(aBytes, iProgramCounter + 1)) = -11
          /\ Goto(-9) => Reaches(4, 9 + 7 * k)
          /\ Goto(2) => Reaches(15, 9 + 7 * k)
      BY <2>8, MixedCode, StepAt DEF Reaches, Signed
    <3>2. Quiet /\ IF iXIndex = 0 THEN Goto(2) ELSE Goto(-9)
      BY <2>8, <3>1, BranchSteps DEF Zero
    <3>3. CASE k = 255
      BY <2>8, <3>1, <3>2, <3>3, RoundsUp, QuietKeeps
         DEF MixedRun, Quiet, AtCode, Reaches
    <3>4. CASE k # 255
      <4>1. k + 1 \in Byte /\ Up(k) = k + 1 /\ Up(k) # 0
        BY <3>4, RoundsUp
      <4>2. Quiet /\ Reaches(4, 9 + 7 * k)
        BY <2>8, <3>1, <3>2, <4>1
      <4>3. MixedRound(k + 1)'
        BY <2>8, <4>1, <4>2 DEF MixedRound, Quiet, AtCode, Reaches
      <4>. QED
        BY <4>1, <4>2, <4>3, QuietKeeps DEF MixedRun, Quiet
    <3>. QED
      BY <3>3, <3>4
  <2>. QED
    BY <1>3, <2>3, <2>4, <2>5, <2>6, <2>7, <2>8 DEF MixedRound
<1>4. CASE AtCode(15, 1794)
  <2>1. opcode = 2
    BY <1>4, MixedCode DEF AtCode, opcode, Code
  <2>. QED
    BY <2>1, IllegalEnds DEF Counts
<1>. QED
  BY <1>1, <1>2, <1>3, <1>4 DEF MixedRun

-----------------------------------------------------------------------------
LEMMA BranchCode ==
  ASSUME Loaded("branch")
  PROVE  /\ Code(0) = 162 /\ Code(1) = 0 /\ Code(2) = 232 /\ Code(3) = 138 /\ Code(4) = 41
         /\ Code(5) = 1 /\ Code(6) = 240 /\ Code(7) = 1 /\ Code(8) = 234 /\ Code(9) = 136
         /\ Code(10) = 208 /\ Code(11) = 246 /\ Code(12) = 2
<1>. DEFINE p == <<162, 0, 232, 138, 41, 1, 240, 1, 234, 136, 208, 246, 2>>
<1>1. \A i \in 1 .. 13 : Code(i - 1) = p[i]
  BY DEF Loaded, Program, Code, ORIGIN
<1>. QED
  BY <1>1

LEMMA NopRounds ==
  ASSUME NEW k \in Byte
  PROVE  /\ Nops(k) \in Int /\ 0 <= Nops(k) /\ Nops(k) <= 128
         /\ Up(k) % 2 \in {0, 1}
         /\ Nops(k + 1) = Nops(k) + (Up(k) % 2)
         /\ Nops(0) = 0 /\ Nops(256) = 128
<1>1. k \in Int /\ 0 <= k /\ k < 256
  BY DEF Byte
<1>2. Nops(k) \in Int /\ 0 <= Nops(k) /\ Nops(k) <= 128
  BY <1>1 DEF Nops
<1>3. Up(k) % 2 = (k + 1) % 2
  <2>1. CASE k = 255
    BY <2>1 DEF Up
  <2>2. CASE k < 255
    BY <1>1, <2>2 DEF Up
  <2>. QED
    BY <1>1, <2>1, <2>2
<1>4. (k + 1) % 2 \in {0, 1} /\ (k + 2) \div 2 = ((k + 1) \div 2) + ((k + 1) % 2)
  BY <1>1
<1>5. Nops(0) = 0 /\ Nops(256) = 128
  BY DEF Nops
<1>6. Nops(k + 1) = (k + 2) \div 2
  BY <1>1 DEF Nops
<1>. QED
  BY <1>2, <1>3, <1>4, <1>5, <1>6 DEF Nops
LEMMA BranchRunStep ==
  ASSUME Inv, Loaded("branch"), BranchRun, Counts
  PROVE  BranchRun' /\ CodeKept
<1>1. CASE iYIndex = 0 /\ AtCode(0, 0)
  <2>1. Instruction /\ InCode /\ opcode = 162 /\ readByte(aBytes, iProgramCounter + 1) = 0
    BY <1>1, BranchCode, StepAt
  <2>2. Goto(2) => Reaches(2, 1)
    BY <1>1, StepAt DEF Reaches
  <2>3. iXIndex' = 0 /\ Reaches(2, 1) /\ UNCHANGED <<iYIndex, iStackPointer, aBytes>>
    BY <2>1, <2>2, CountSteps
  <2>4. 0 \in Byte /\ Nops(0) = 0 /\ Down(0) = 0
    BY Rounds, NopRounds DEF Byte
  <2>5. BranchRound(0)'
    BY <1>1, <2>3, <2>4 DEF BranchRound, AtCode, Reaches
  <2>. QED
    BY <2>3, <2>4, <2>5 DEF BranchRun, CodeKept
<1>2. ASSUME NEW k \in Byte, BranchRound(k) PROVE BranchRun' /\ CodeKept
  <2>. /\ k \in Int /\ 0 <= k /\ k < 256
       /\ Nops(k) \in Int /\ 0 <= Nops(k) /\ Nops(k) <= 128
    BY RoundsUp, NopRounds
  <2>0. /\ Up(k) % 2 \in {0, 1}
        /\ Nops(k + 1) = Nops(k) + (Up(k) % 2)
        /\ Nops(k + 1) \in Int /\ 0 <= Nops(k + 1) /\ Nops(k + 1) <= 129
    BY NopRounds
  <2>1. CASE iXIndex = k /\ iYIndex = Down(k) /\ AtCode(2, 1 + 6 * k + Nops(k))
    <3>1. Instruction /\ InCode /\ opcode = 232 /\ (Goto(1) => Reaches(3, 2 + 6 * k + Nops(k)))
      BY <2>1, BranchCode, StepAt DEF Reaches
    <3>2. /\ iXIndex' = (k + 1) % 256 /\ Reaches(3, 2 + 6 * k + Nops(k))
          /\ UNCHANGED <<iYIndex, iStackPointer, aBytes>>
      BY <2>1, <3>1, CountSteps
    <3>3. BranchRound(k)'
      BY <2>1, <3>2, RoundsUp DEF BranchRound, AtCode, Reaches
    <3>. QED
      BY <3>2, <3>3 DEF BranchRun, CodeKept
  <2>2. CASE iXIndex = Up(k) /\ iYIndex = Down(k) /\ AtCode(3, 2 + 6 * k + Nops(k))
    <3>1. Quiet /\ Reaches(4, 3 + 6 * k + Nops(k))
      BY <2>2, BranchCode, QuietAt DEF Reaches
    <3>2. Instruction /\ opcode = 138
      BY <2>2, BranchCode, StepAt
    <3>3. iAccumulator' = Up(k)
      BY <2>2, <3>2, LowestBitSteps
    <3>4. BranchRound(k)'
      BY <2>2, <3>1, <3>3 DEF BranchRound, Quiet, AtCode, Reaches
    <3>. QED
      BY <3>1, <3>4, QuietKeeps DEF BranchRun, Quiet
  <2>3. CASE /\ iXIndex = Up(k) /\ iYIndex = Down(k) /\ iAccumulator = Up(k)
             /\ AtCode(4, 3 + 6 * k + Nops(k))
    <3>1. Quiet /\ Reaches(6, 4 + 6 * k + Nops(k))
      BY <2>3, BranchCode, QuietAt DEF Reaches
    <3>2. Instruction /\ opcode = 41 /\ readByte(aBytes, iProgramCounter + 1) = 1
      BY <2>3, BranchCode, StepAt
    <3>3. Zero(Up(k) % 2)'
      BY <2>3, <3>2, LowestBitSteps DEF Zero, ZeroIs
    <3>4. BranchRound(k)'
      BY <2>3, <3>1, <3>3 DEF BranchRound, Quiet, AtCode, Reaches
    <3>. QED
      BY <3>1, <3>4, QuietKeeps DEF BranchRun, Quiet
  <2>4. CASE /\ iXIndex = Up(k) /\ iYIndex = Down(k) /\ Zero(Up(k) % 2)
             /\ AtCode(6, 4 + 6 * k + Nops(k))
    <3>1. /\ Instruction /\ InCode /\ opcode = 240
          /\ Signed(readByte(aBytes, iProgramCounter + 1)) = 1
          /\ Goto(3) => Reaches(9, 5 + 6 * k + Nops(k))
          /\ Goto(2) => Reaches(8, 5 + 6 * k + Nops(k))
      BY <2>4, BranchCode, StepAt DEF Reaches, Signed
    <3>2. Quiet /\ IF Up(k) % 2 = 0 THEN Goto(3) ELSE Goto(2)
      BY <2>4, <3>1, BranchSteps DEF Zero
    <3>3. CASE Up(k) % 2 = 0
      <4>1. Quiet /\ Reaches(9, 5 + 6 * k + Nops(k + 1))
        BY <2>0, <3>1, <3>2, <3>3
      <4>2. BranchRound(k)'
        BY <2>4, <4>1 DEF BranchRound, Quiet, AtCode, Reaches
      <4>. QED
        BY <4>1, <4>2, QuietKeeps DEF BranchRun, Quiet
    <3>4. CASE Up(k) % 2 = 1
      <4>1. Quiet /\ Reaches(8, 5 + 6 * k + Nops(k))
        BY <3>1, <3>2, <3>4
      <4>2. BranchRound(k)'
        BY <2>4, <3>4, <4>1 DEF BranchRound, Quiet, AtCode, Reaches
      <4>. QED
        BY <4>1, <4>2, QuietKeeps DEF BranchRun, Quiet
    <3>. QED
      BY <2>0, <3>3, <3>4
  <2>5. CASE /\ iXIndex = Up(k) /\ iYIndex = Down(k) /\ Up(k) % 2 = 1
             /\ AtCode(8, 5 + 6 * k + Nops(k))
    <3>1. Quiet /\ Reaches(9, 6 + 6 * k + Nops(k))
      BY <2>5, BranchCode, QuietAt DEF Reaches
    <3>2. Reaches(9, 5 + 6 * k + Nops(k + 1))
      BY <2>0, <2>5, <3>1 DEF Reaches
    <3>3. BranchRound(k)'
      BY <2>5, <3>1, <3>2 DEF BranchRound, Quiet, AtCode, Reaches
    <3>. QED
      BY <3>1, <3>3, QuietKeeps DEF BranchRun, Quiet
  <2>6. CASE iXIndex = Up(k) /\ iYIndex = Down(k) /\ AtCode(9, 5 + 6 * k + Nops(k + 1))
    <3>1. /\ Instruction /\ InCode /\ opcode = 136
          /\ Goto(1) => Reaches(10, 6 + 6 * k + Nops(k + 1))
      BY <2>0, <2>6, BranchCode, StepAt DEF Reaches
    <3>2. /\ iYIndex' = (Down(k) - 1) % 256 /\ ZeroIs(iYIndex')
          /\ Reaches(10, 6 + 6 * k + Nops(k + 1))
          /\ UNCHANGED <<iXIndex, iStackPointer, aBytes>>
      BY <2>6, <3>1, CountSteps
    <3>3. BranchRound(k)'
      BY <2>6, <3>2, Rounds DEF BranchRound, AtCode, Reaches, Zero, ZeroIs
    <3>. QED
      BY <3>2, <3>3 DEF BranchRun, CodeKept
  <2>7. CASE /\ iXIndex = Up(k) /\ iYIndex = 255 - k /\ Zero(iYIndex)
             /\ AtCode(10, 6 + 6 * k + Nops(k + 1))
    <3>1. /\ Instruction /\ InCode /\ opcode = 208
          /\ Signed(readByte(aBytes, iProgramCounter + 1)) = -10
          /\ Goto(-8) => Reaches(2, 7 + 6 * k + Nops(k + 1))
          /\ Goto(2) => Reaches(12, 7 + 6 * k + Nops(k + 1))
      BY <2>0, <2>7, BranchCode, StepAt DEF Reaches, Signed
    <3>2. Quiet /\ IF iYIndex = 0 THEN Goto(2) ELSE Goto(-8)
      BY <2>7, <3>1, BranchSteps DEF Zero
    <3>3. CASE k = 255
      <4>1. Quiet /\ Reaches(12, 1665)
        BY <2>7, <3>1, <3>2, <3>3, NopRounds
      <4>. QED
        BY <2>7, <3>3, <4>1, QuietKeeps DEF BranchRun, Quiet, AtCode, Reaches
    <3>4. CASE k # 255
      <4>1. k + 1 \in Byte /\ Up(k) = k + 1 /\ 255 - k = Down(k + 1)
        BY <3>4, Rounds, RoundsUp
      <4>2. Quiet /\ Reaches(2, 1 + 6 * (k + 1) + Nops(k + 1))
        BY <2>7, <3>1, <3>2, <3>4
      <4>3. BranchRound(k + 1)'
        BY <2>7, <4>1, <4>2 DEF BranchRound, Quiet, AtCode, Reaches
      <4>. QED
        BY <4>1, <4>2, <4>3, QuietKeeps DEF BranchRun, Quiet
    <3>. QED
      BY <3>3, <3>4
  <2>. QED
    BY <1>2, <2>1, <2>2, <2>3, <2>4, <2>5, <2>6, <2>7 DEF BranchRound
<1>3. CASE iYIndex = 0 /\ AtCode(12, 1665)
  <2>1. opcode = 2
    BY <1>3, BranchCode DEF AtCode, opcode, Code
  <2>. QED
    BY <2>1, IllegalEnds DEF Counts
<1>. QED
  BY <1>1, <1>2, <1>3 DEF BranchRun
-----------------------------------------------------------------------------
(***************************************************************************)
(* Every run of a program.                                                 *)
(***************************************************************************)
LEMMA RunStep ==
  ASSUME Inv, Counts, NEW b \in Benchmark, Loaded(b), RunOf(b)
  PROVE  RunOf(b)' /\ CodeKept
<1>1. CASE b = "alu"
  BY <1>1, AluStep DEF RunOf
<1>2. CASE b = "memory"
  BY <1>2, MemoryStep DEF RunOf
<1>3. CASE b = "call"
  BY <1>3, CallRunStep DEF RunOf
<1>4. CASE b = "branch"
  BY <1>4, BranchRunStep DEF RunOf
<1>5. CASE b = "mixed"
  BY <1>5, MixedStep DEF RunOf
<1>. QED
  BY <1>1, <1>2, <1>3, <1>4, <1>5 DEF Benchmark

LEMMA AtOpcode ==
  ASSUME NEW o, NEW n, AtCode(o, n)
  PROVE  opcode = Code(o)
  BY DEF AtCode, opcode, Code

LEMMA Ends ==
  /\ End["alu"] = 18 /\ Executed["alu"] = 2306
  /\ End["memory"] = 9 /\ Executed["memory"] = 1025
  /\ End["call"] = 8 /\ Executed["call"] = 1281
  /\ End["branch"] = 12 /\ Executed["branch"] = 1665
  /\ End["mixed"] = 15 /\ Executed["mixed"] = 1794
  BY DEF End, Executed, InstrPerOp

\* A run goes on at every byte but the last.
LEMMA RunEnds ==
  ASSUME NEW b \in Benchmark, Loaded(b), RunOf(b), opcode \notin Used
  PROVE  Ended(b)
<1>1. CASE b = "alu"
  <2>1. \A o \in {0, 2, 4, 6, 8, 10, 12, 13, 14, 15, 16} : Code(o) \in Used
    BY <1>1, AluCode DEF Used
  <2>2. \A k \in Byte : ~ AluRound(k)
    BY <2>1, AtOpcode DEF AluRound
  <2>. QED
    BY <1>1, <2>1, <2>2, AtOpcode, Ends DEF RunOf, AluRun, Ended
<1>2. CASE b = "memory"
  <2>1. \A o \in {0, 2, 4, 6, 7} : Code(o) \in Used
    BY <1>2, MemoryCode DEF Used
  <2>2. \A k \in Byte : ~ MemoryRound(k)
    BY <2>1, AtOpcode DEF MemoryRound
  <2>. QED
    BY <1>2, <2>1, <2>2, AtOpcode, Ends DEF RunOf, MemoryRun, Ended
<1>3. CASE b = "call"
  <2>1. \A o \in {0, 2, 5, 6, 16, 17} : Code(o) \in Used
    BY <1>3, CallCode DEF Used
  <2>2. \A k \in Byte : ~ CallRound(k)
    BY <2>1, AtOpcode DEF CallRound
  <2>. QED
    BY <1>3, <2>1, <2>2, AtOpcode, Ends DEF RunOf, CallRun, Ended
<1>4. CASE b = "branch"
  <2>1. \A o \in {0, 2, 3, 4, 6, 8, 9, 10} : Code(o) \in Used
    BY <1>4, BranchCode DEF Used
  <2>2. \A k \in Byte : ~ BranchRound(k)
    BY <2>1, AtOpcode DEF BranchRound
  <2>. QED
    BY <1>4, <2>1, <2>2, AtOpcode, Ends DEF RunOf, BranchRun, Settled, Ended
<1>5. CASE b = "mixed"
  <2>1. \A o \in {0, 2, 4, 6, 7, 9, 11, 12, 13} : Code(o) \in Used
    BY <1>5, MixedCode DEF Used
  <2>2. \A k \in Byte : ~ MixedRound(k)
    BY <2>1, AtOpcode DEF MixedRound
  <2>. QED
    BY <1>5, <2>1, <2>2, AtOpcode, Ends DEF RunOf, MixedRun, Settled, Ended
<1>. QED
  BY <1>1, <1>2, <1>3, <1>4, <1>5 DEF Benchmark

LEMMA NothingEnded ==
  ASSUME NEW b \in Benchmark, Loaded(b), Ended(b)
  PROVE  ~Instruction
<1>1. Code(End[b]) = 2
  BY Ends, AluCode, MemoryCode, CallCode, BranchCode, MixedCode DEF Benchmark
<1>. QED
  BY <1>1, AtOpcode, IllegalEnds DEF Ended

\* A program is told from the others by its first three bytes.
LEMMA OneLoaded ==
  ASSUME NEW b \in Benchmark, NEW c \in Benchmark, Loaded(b), Loaded(c)
  PROVE  b = c
<1>. DEFINE m == <<Code(0), Code(2)>>
<1>1. \A d \in Benchmark :
        Loaded(d) => m = [alu |-> <<169, 162>>, memory |-> <<162, 181>>, call |-> <<162, 32>>,
                          branch |-> <<162, 232>>, mixed |-> <<162, 169>>][d]
  BY AluCode, MemoryCode, CallCode, BranchCode, MixedCode DEF Benchmark
<1>. HIDE DEF m
<1>. QED
  BY <1>1 DEF Benchmark

\* Programs are short, and lie behind the stack.
LEMMA Lengths ==
  \A b \in Benchmark : Len(Program[b]) \in 10 .. 19 /\ DOMAIN Program[b] = 1 .. Len(Program[b])
<1>1. \A b \in Benchmark : DOMAIN Program[b] = 1 .. Len(Program[b])
  BY DEF Program, Benchmark
<1>2. Len(Program["alu"]) = 19 /\ Len(Program["memory"]) = 10 /\ Len(Program["call"]) = 18
  BY DEF Program
<1>3. Len(Program["branch"]) = 13 /\ Len(Program["mixed"]) = 16
  BY DEF Program
<1>. QED
  BY <1>1, <1>2, <1>3 DEF Benchmark

LEMMA CodeCell ==
  ASSUME NEW c \in Int, 1536 <= c, c < 1555
  PROVE  /\ c \in Address /\ c >= 512
         /\ c % MEM_SIZE = c
         /\ c \in ORIGIN .. MEM_SIZE - 1
<1>1. MEM_SIZE \in Int /\ 0 <= c /\ c <= MEM_SIZE - 1
  BY DEF MEM_SIZE
<1>2. c \in Address
  BY <1>1 DEF Address
<1>3. c \in ORIGIN .. MEM_SIZE - 1
  BY <1>1 DEF ORIGIN
<1>. QED
  BY <1>2, <1>3, AddressFits
LEMMA LoadedKept ==
  ASSUME NEW b \in Benchmark, Loaded(b), CodeKept
  PROVE  Loaded(b)'
<1>. SUFFICES ASSUME NEW i \in DOMAIN Program[b]
              PROVE  readByte(aBytes', ORIGIN + i - 1) = Program[b][i]
  BY DEF Loaded
<1>1. i \in Int /\ 1 <= i /\ i <= 19
  BY Lengths
<1>2. PICK c \in Int : c = ORIGIN + i - 1 /\ 1536 <= c /\ c < 1555
  BY <1>1 DEF ORIGIN
<1>3. c \in Address /\ c >= 512
  BY <1>2, CodeCell
<1>4. readByte(aBytes', c) = readByte(aBytes, c)
  BY <1>3 DEF CodeKept
<1>. QED
  BY <1>2, <1>4 DEF Loaded
LEMMA LoadedIsMemory ==
  ASSUME IsMemory(aBytes), NEW p \in Files, aBytes' = loadImage(aBytes, p, ORIGIN)
  PROVE  IsMemory(aBytes')
<1>. DEFINE loaded == {a \in ORIGIN .. MEM_SIZE - 1 : a - ORIGIN < Len(p)}
<1>1. aBytes' = [a \in DOMAIN aBytes \cup loaded |->
                   IF a \in loaded THEN p[a - ORIGIN + 1] ELSE aBytes[a]]
  BY DEF loadImage
<1>2. Len(p) \in Nat /\ \A i \in 1 .. Len(p) : p[i] \in Byte
  <2>1. p \in Seq(Byte)
    BY HarnessAssumption
  <2>. QED
    BY <2>1
<1>3. ASSUME NEW a \in loaded PROVE a \in 0 .. MEM_SIZE - 1 /\ p[a - ORIGIN + 1] \in 0 .. 255
  <2>1. MEM_SIZE \in Int /\ ORIGIN \in Int /\ ORIGIN >= 0
    BY DEF ORIGIN, MEM_SIZE
  <2>2. a \in Int /\ a >= ORIGIN /\ a <= MEM_SIZE - 1 /\ a - ORIGIN < Len(p)
    BY <2>1
  <2>3. PICK i \in Int : i = a - ORIGIN + 1 /\ 1 <= i /\ i <= Len(p)
    BY <1>2, <2>1, <2>2
  <2>4. a \in 0 .. MEM_SIZE - 1
    BY <2>1, <2>2
  <2>5. i \in 1 .. Len(p)
    BY <1>2, <2>3
  <2>6. p[i] \in 0 .. 255
    BY <1>2, <2>5 DEF Byte
  <2>. QED
    BY <2>3, <2>4, <2>6
<1>. HIDE DEF loaded
<1>. QED
  BY <1>1, <1>3 DEF IsMemory

LEMMA LoadedThere ==
  ASSUME NEW b \in Benchmark, aBytes' = loadImage(aBytes, Program[b], ORIGIN)
  PROVE  Loaded(b)'
<1>. DEFINE p      == Program[b]
            loaded == {a \in ORIGIN .. MEM_SIZE - 1 : a - ORIGIN < Len(p)}
<1>1. Len(p) \in 10 .. 19 /\ DOMAIN p = 1 .. Len(p)
  BY Lengths
<1>. HIDE DEF p
<1>2. aBytes' = [a \in DOMAIN aBytes \cup loaded |->
                   IF a \in loaded THEN p[a - ORIGIN + 1] ELSE aBytes[a]]
  BY DEF loadImage, p
<1>3. ASSUME NEW i \in DOMAIN p PROVE readByte(aBytes', ORIGIN + i - 1) = p[i]
  <2>1. i \in Int /\ 1 <= i /\ i <= Len(p) /\ i <= 19
    BY <1>1
  <2>2. PICK c \in Int : /\ c = ORIGIN + i - 1 /\ c - ORIGIN = i - 1 /\ c - ORIGIN + 1 = i
                         /\ 1536 <= c /\ c < 1555
    BY <2>1 DEF ORIGIN
  <2>3. c \in ORIGIN .. MEM_SIZE - 1 /\ c % MEM_SIZE = c
    BY <2>2, CodeCell
  <2>4. c - ORIGIN < Len(p)
    BY <1>1, <2>1, <2>2
  <2>5. c \in loaded
    BY <2>3, <2>4
  <2>. HIDE DEF loaded
  <2>6. c \in DOMAIN aBytes' /\ aBytes'[c] = p[i]
    BY <1>2, <2>2, <2>5
  <2>7. readByte(aBytes', c) = p[i]
    BY <2>3, <2>6 DEF readByte
  <2>. QED
    BY <2>2, <2>7
<1>. QED
  BY <1>3 DEF Loaded, p

-----------------------------------------------------------------------------
(***************************************************************************)
(* Every op.                                                               *)
(***************************************************************************)
LEMMA BenchInit == HarnessInit => BenchInv
<1>. SUFFICES ASSUME HarnessInit PROVE BenchInv
  OBVIOUS
<1>1. Init /\ at = "loadImage"
  BY DEF HarnessInit, HostInit
<1>2. Inv /\ ~running /\ Settled
  BY <1>1, InitInv DEF Init, Settled, STACK_TOP, STACK_BASE
<1>. QED
  BY <1>1, <1>2 DEF BenchInv

\* The steps of main() that leave the program where it is.
LEMMA LoadedStays ==
  ASSUME UNCHANGED aBytes
  PROVE  \A b : Loaded(b) => Loaded(b)'
  BY DEF Loaded

LEMMA RunBegins ==
  ASSUME Settled, runFrom(ORIGIN)
  PROVE  \A b : RunOf(b)'
<1>1. iProgramCounter' = ORIGIN + 0 /\ instrs' = 0
  BY DEF runFrom, ORIGIN
<1>2. AtCode(0, 0)' /\ Settled'
  BY <1>1 DEF AtCode, Settled, runFrom, registers
<1>3. AluRun' /\ MemoryRun' /\ CallRun'
  BY <1>2 DEF AluRun, MemoryRun, CallRun
<1>4. BranchRun' /\ MixedRun'
  BY <1>2 DEF BranchRun, MixedRun, Settled
<1>. QED
  BY <1>3, <1>4 DEF RunOf

LEMMA EndedStays ==
  ASSUME UNCHANGED <<iProgramCounter, registers, instrs>>
  PROVE  (Settled => Settled') /\ \A b : Ended(b) => Ended(b)'
  BY DEF Ended, Settled, AtCode, registers

LEMMA BenchStep ==
  ASSUME Files \subseteq MCFiles, MaxInstrs >= 2306, BenchInv, [HarnessNext]_harness
  PROVE  BenchInv'
<1>. USE DEF BenchInv
<1>1. CASE loadProgram
  <2>1. PICK binFile \in Files :
          /\ Goes("loadImage", IF loadedBytes(binFile, ORIGIN) = 0 THEN "failed" ELSE "runFrom")
          /\ aBytes' = loadImage(aBytes, binFile, ORIGIN)
          /\ UNCHANGED <<iProgramCounter, registers, host, instrs, totalOps>>
    BY <1>1 DEF loadProgram
  <2>2. IsMemory(aBytes) /\ iProgramCounter \in Address
    BY Registers
  <2>3. ~running' /\ Settled' /\ at = "loadImage"
    BY <2>1, EndedStays DEF Goes, host
  <2>4. Inv'
    <3>1. IsMemory(aBytes')
      BY <2>1, <2>2, LoadedIsMemory
    <3>. QED
      BY <2>1, <3>1, Registers, HandlerStep DEF registers
  <2>5. CASE binFile = <<>>
    <3>1. loadedBytes(binFile, ORIGIN) = 0
      BY <2>5 DEF loadedBytes, ORIGIN, MEM_SIZE
    <3>2. at' = "failed"
      BY <2>1, <3>1 DEF Goes
    <3>. QED
      BY <2>3, <2>4, <3>2
  <2>6. CASE \E b \in Benchmark : binFile = Program[b]
    <3>1. PICK b \in Benchmark : binFile = Program[b]
      BY <2>6
    <3>2. Loaded(b)'
      BY <2>1, <3>1, LoadedThere
    <3>3. at' \in {"failed", "runFrom"}
      BY <2>1 DEF Goes
    <3>. QED
      BY <2>3, <2>4, <3>2, <3>3
  <2>. QED
    BY <2>5, <2>6 DEF MCFiles
<1>2. CASE beginOp
  <2>1. at = "runFrom" /\ at' = "run" /\ runFrom(ORIGIN) /\ Settled
    BY <1>2 DEF beginOp, Goes
  <2>2. PICK b \in Benchmark : Loaded(b)
    BY <2>1
  <2>3. Loaded(b)' /\ RunOf(b)' /\ running'
    BY <2>1, <2>2, LoadedStays, RunBegins DEF runFrom
  <2>4. iProgramCounter' \in Address /\ UNCHANGED <<registers, aBytes>>
    <3>1. 1536 \in Int /\ 1536 <= 1536 /\ 1536 < 1555
      OBVIOUS
    <3>. QED
      BY <2>1, <3>1, CodeCell DEF runFrom, ORIGIN
  <2>5. Inv'
    BY <2>4, SameMachine
  <2>. QED
    BY <2>1, <2>3, <2>5
<1>3. CASE runAgain
  <2>1. /\ at = "run" /\ ~running /\ at' = "count"
        /\ UNCHANGED <<iProgramCounter, registers, aBytes, instrs>>
    BY <1>3 DEF runAgain, Goes, run
  <2>2. PICK b \in Benchmark : Loaded(b) /\ Ended(b)
    BY <2>1
  <2>3. Loaded(b)' /\ Ended(b)'
    BY <2>1, <2>2, LoadedStays, EndedStays
  <2>4. Inv'
    BY <2>1, Registers, SameMachine
  <2>. QED
    BY <2>1, <2>3, <2>4
<1>4. CASE countOp
  <2>1. /\ at = "count" /\ ~running' /\ at' = "runFrom"
        /\ UNCHANGED <<iProgramCounter, registers, aBytes, instrs>>
    BY <1>4 DEF countOp, Goes, vars, host
  <2>2. PICK b \in Benchmark : Loaded(b) /\ Ended(b)
    BY <2>1
  <2>3. Loaded(b)' /\ Settled'
    BY <2>1, <2>2, LoadedStays, EndedStays DEF Ended
  <2>4. Inv'
    BY <2>1, Registers, SameMachine
  <2>. QED
    BY <2>1, <2>3, <2>4
<1>5. CASE execute
  <2>1. Counts /\ Instruction /\ at' = at /\ running /\ running'
    BY <1>5, ExecuteCounts, InstructionStaysIn DEF execute, host
  <2>2. Inv'
    BY <2>1, InstructionStep
  <2>3. CASE at = "run"
    <3>1. PICK b \in Benchmark : Loaded(b) /\ RunOf(b)
      BY <2>1, <2>3
    <3>2. RunOf(b)' /\ Loaded(b)'
      BY <2>1, <3>1, RunStep, LoadedKept
    <3>. QED
      BY <2>1, <2>2, <2>3, <3>2
  <2>4. CASE at = "count"
    BY <2>1, <2>4, NothingEnded
  <2>5. CASE at \notin {"run", "count"}
    BY <2>1, <2>2, <2>5
  <2>. QED
    BY <2>3, <2>4, <2>5
<1>6. CASE stop
  <2>1. /\ Exit /\ running /\ ~running' /\ at' = at
        /\ UNCHANGED <<iProgramCounter, registers, aBytes, instrs>>
    BY <1>6, ExitIsThere DEF stop, Exit, JumpToSelf, illegal, return, Fetched
  <2>2. Inv'
    BY <2>1, ExitStep
  <2>3. CASE at = "run"
    <3>1. PICK b \in Benchmark : Loaded(b) /\ RunOf(b)
      BY <2>1, <2>3
    <3>2. Ended(b)
      BY <2>1, <3>1, UsedRuns, RunEnds
    <3>3. Ended(b)' /\ Loaded(b)'
      BY <2>1, <3>1, <3>2, LoadedStays, EndedStays
    <3>. QED
      BY <2>1, <2>2, <2>3, <3>3
  <2>4. CASE at = "count"
    <3>1. PICK b \in Benchmark : Loaded(b) /\ Ended(b)
      BY <2>4
    <3>2. Ended(b)' /\ Loaded(b)'
      BY <2>1, <3>1, LoadedStays, EndedStays
    <3>. QED
      BY <2>1, <2>2, <2>4, <3>2
  <2>5. CASE at \notin {"run", "count"}
    BY <2>1, <2>2, <2>5
  <2>. QED
    BY <2>3, <2>4, <2>5
<1>7. CASE UNCHANGED harness
  <2>1. UNCHANGED <<at, running, iProgramCounter, registers, aBytes, instrs>>
    BY <1>7 DEF harness, vars, host
  <2>2. Inv'
    BY <2>1, Registers, SameMachine
  <2>3. \A b : RunOf(b) => RunOf(b)'
    BY <2>1 DEF RunOf, AluRun, MemoryRun, CallRun, BranchRun, MixedRun, AluRound, MemoryRound,
           CallRound, BranchRound, MixedRound, AtCode, Settled, Called, Zero, registers
  <2>. QED
    BY <2>1, <2>2, <2>3, LoadedStays, EndedStays
<1>. QED
  BY <1>1, <1>2, <1>3, <1>4, <1>5, <1>6, <1>7 DEF HarnessNext

LEMMA BenchInvariant ==
  ASSUME Files \subseteq MCFiles, MaxInstrs >= 2306
  PROVE  HarnessSpec => []BenchInv
<1>1. BenchInv /\ [HarnessNext]_harness => BenchInv'
  BY BenchStep
<1>. QED
  BY <1>1, BenchInit, PTL DEF HarnessSpec

\* Every op of a benchmark program, the first as much as those that start from
\* what their predecessors left, executes the number of instructions that
\* Executed gives: for any number of ops and whatever memory held before.  The
\* history that counts them must reach that far.
THEOREM OpsCost ==
  ASSUME Files \subseteq MCFiles, MaxInstrs >= 2306
  PROVE  HarnessSpec => []EveryOpCosts
<1>1. BenchInv => EveryOpCosts
  BY OneLoaded DEF BenchInv, EveryOpCosts, Ended, AtCode
<1>. QED
  BY <1>1, BenchInvariant, PTL

\* Every op of a benchmark program starts with the stack pointer and with Y
\* where the constructor put them, although nothing resets them in between.
THEOREM OpsAlike ==
  ASSUME Files \subseteq MCFiles, MaxInstrs >= 2306
  PROVE  HarnessSpec => []OpsStartAlike
<1>1. BenchInv => OpsStartAlike
  BY DEF BenchInv, OpsStartAlike, Settled
<1>. QED
  BY <1>1, BenchInvariant, PTL
=============================================================================
