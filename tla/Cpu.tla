-------------------------------- MODULE Cpu --------------------------------
(***************************************************************************)
(* The processor (class MOS6502 of src/include/cpu.hpp and its interpreter *)
(* loop in src/include/internals/run.hpp) together with the memory on its  *)
(* bus.  One action is one whole handler: the fetch that dispatched it,    *)
(* its reads and writes in their order, and the move of the program        *)
(* counter that leads to the next dispatch.  The host that owns the        *)
(* processor sets the program counter and calls run() between runs.        *)
(*                                                                         *)
(* The registers are those the handlers work on: the members of the class  *)
(* when the interpreter is compiled with UNPINNED.                         *)
(***************************************************************************)
EXTENDS Alu, Addressing

CONSTANTS
  Images,       \* the contents memory may have when the host starts
  EntryPoints,  \* the addresses the host may run from
  MaxRuns       \* bound on the calls of run()

ASSUME CpuAssumption ==
  /\ \A image \in Images : IsMemory(image)
  /\ EntryPoints \subseteq Address
  /\ MaxRuns \in Nat

VARIABLES
  iProgramCounter,
  iAccumulator,
  iStatus,
  iXIndex,
  iYIndex,
  iStackPointer,
  aBytes,        \* the memory on the bus
  running,       \* is the host inside run()?
  runs           \* how often it has called run()

registers == <<iAccumulator, iStatus, iXIndex, iYIndex, iStackPointer>>
host      == <<running, runs>>
vars      == <<iProgramCounter, registers, aBytes, host>>

\* Constructed, with an image in memory, and not yet run.
Init == /\ iProgramCounter = 0
        /\ iAccumulator = 0
        /\ iStatus = {F_ZERO}
        /\ iXIndex = 0
        /\ iYIndex = 0
        /\ iStackPointer = STACK_TOP - STACK_BASE
        /\ aBytes \in Images
        /\ running = FALSE
        /\ runs = 0

-----------------------------------------------------------------------------
(***************************************************************************)
(* The host.                                                               *)
(***************************************************************************)
setProgramCounter(iAddress) ==
  /\ ~running
  /\ iProgramCounter' = iAddress
  /\ UNCHANGED <<registers, aBytes, host>>

run == /\ ~running
       /\ runs < MaxRuns
       /\ running' = TRUE
       /\ runs' = runs + 1
       /\ UNCHANGED <<iProgramCounter, registers, aBytes>>

return == /\ running' = FALSE
          /\ UNCHANGED <<iProgramCounter, registers, aBytes, runs>>

-----------------------------------------------------------------------------
(***************************************************************************)
(* Dispatch.  Fetched(op) is the set that holds the mode in which the      *)
(* instruction op has been fetched, or is empty when it has not.           *)
(***************************************************************************)
opcode == readByte(aBytes, iProgramCounter)

Fetched(op) == {mode \in DOMAIN Opcode[op] : running /\ Opcode[op][mode] = opcode}

address(mode) ==
  CASE mode = "IM"  -> iProgramCounter + 1
    [] mode = "ZP"  -> addrZeroPageByte(aBytes, iProgramCounter)
    [] mode = "ZPX" -> addrZeroPageXByte(aBytes, iProgramCounter, iXIndex)
    [] mode = "ZPY" -> addrZeroPageYByte(aBytes, iProgramCounter, iYIndex)
    [] mode = "AB"  -> addrAbsoluteByte(aBytes, iProgramCounter)
    [] mode = "ABX" -> addrAbsoluteXByte(aBytes, iProgramCounter, iXIndex)
    [] mode = "ABY" -> addrAbsoluteYByte(aBytes, iProgramCounter, iYIndex)
    [] mode = "IX"  -> addrPreIndexZeroPageXByte(aBytes, iProgramCounter, iXIndex)
    [] mode = "IY"  -> addrPostIndexZeroPageYByte(aBytes, iProgramCounter, iYIndex)

load(mode) == readByte(aBytes, address(mode))

goto(iAddress) == iProgramCounter' = iAddress % MEM_SIZE

size(mode) == goto(iProgramCounter + SIZE[mode])

(***************************************************************************)
(* What most handlers do, by what they write besides the status register   *)
(* before they step over their operands.                                   *)
(***************************************************************************)
SetStatus(mode, status) ==
  /\ iStatus' = status
  /\ size(mode)
  /\ UNCHANGED <<iAccumulator, iXIndex, iYIndex, iStackPointer, aBytes, host>>

SetAccumulator(mode, iValue, status) ==
  /\ iAccumulator' = iValue
  /\ iStatus' = status
  /\ size(mode)
  /\ UNCHANGED <<iXIndex, iYIndex, iStackPointer, aBytes, host>>

\* With a fault, for the runs to find: flags of the value the register had, or
\* of an earlier result.
SetXStaleFlags(mode, iValue) ==
  /\ iXIndex' = iValue
  /\ iStatus' = updateNZ(iStatus, iXIndex)
  /\ size(mode)
  /\ UNCHANGED <<iAccumulator, iYIndex, iStackPointer, aBytes, host>>
SetXKeepsFlags(mode, iValue) ==
  /\ iXIndex' = iValue
  /\ size(mode)
  /\ UNCHANGED <<iAccumulator, iStatus, iYIndex, iStackPointer, aBytes, host>>

SetX(mode, iValue) ==
  /\ iXIndex' = iValue
  /\ iStatus' = updateNZ(iStatus, iValue)
  /\ size(mode)
  /\ UNCHANGED <<iAccumulator, iYIndex, iStackPointer, aBytes, host>>

SetY(mode, iValue) ==
  /\ iYIndex' = iValue
  /\ iStatus' = updateNZ(iStatus, iValue)
  /\ size(mode)
  /\ UNCHANGED <<iAccumulator, iXIndex, iStackPointer, aBytes, host>>

store(mode, iValue, status) ==
  /\ aBytes' = writeByte(aBytes, address(mode), iValue)
  /\ iStatus' = status
  /\ size(mode)
  /\ UNCHANGED <<iAccumulator, iXIndex, iYIndex, iStackPointer, host>>

\* Shifts of the accumulator and shifts of a memory cell in place.
target(mode) == IF mode = "A" THEN iAccumulator ELSE load(mode)

Shift(mode, result) ==
  IF mode = "A" THEN SetAccumulator(mode, result.iValue, result.iStatus)
                ELSE store(mode, result.iValue, result.iStatus)

Branch(op, taken) ==
  \E mode \in Fetched(op) :
    /\ goto(iProgramCounter + SIZE[mode]
              + (IF taken THEN Signed(readByte(aBytes, iProgramCounter + 1)) ELSE 0))
    /\ UNCHANGED <<registers, aBytes, host>>

(***************************************************************************)
(* The stack grows downwards in the page at STACK_BASE; its pointer is a   *)
(* byte and wraps.  push yields the stack after the push, pull(n) the      *)
(* byte the n-th pull of a handler returns.                                *)
(***************************************************************************)
Stack == [aBytes |-> aBytes, iStackPointer |-> iStackPointer]

\* With a fault, for the runs to find: the pointer moves before the byte is written.
pushBelow(stack, iValue) ==
  [aBytes |-> writeByte(stack.aBytes, STACK_BASE + ((stack.iStackPointer - 1) % 256), iValue),
   iStackPointer |-> (stack.iStackPointer - 1) % 256]

push(stack, iValue) ==
  [aBytes |-> writeByte(stack.aBytes, STACK_BASE + stack.iStackPointer, iValue),
   iStackPointer |-> (stack.iStackPointer - 1) % 256]

pull(n) == readByte(aBytes, STACK_BASE + ((iStackPointer + n) % 256))

Pushed(stack) == /\ aBytes' = stack.aBytes
                 /\ iStackPointer' = stack.iStackPointer

Pulled(n) == /\ iStackPointer' = (iStackPointer + n) % 256
             /\ UNCHANGED aBytes

-----------------------------------------------------------------------------
(***************************************************************************)
(* Loads, stores and transfers.                                            *)
(***************************************************************************)
LDA == \E mode \in Fetched("LDA") :
         SetAccumulator(mode, load(mode), updateNZ(iStatus, load(mode)))
STA == \E mode \in Fetched("STA") : store(mode, iAccumulator, iStatus)
LDX == \E mode \in Fetched("LDX") : SetX(mode, load(mode))
STX == \E mode \in Fetched("STX") : store(mode, iXIndex, iStatus)
LDY == \E mode \in Fetched("LDY") : SetY(mode, load(mode))
STY == \E mode \in Fetched("STY") : store(mode, iYIndex, iStatus)

TAX == \E mode \in Fetched("TAX") : SetX(mode, iAccumulator)
TAY == \E mode \in Fetched("TAY") : SetY(mode, iAccumulator)
TSX == \E mode \in Fetched("TSX") : SetX(mode, iStackPointer)
TXA == \E mode \in Fetched("TXA") :
         SetAccumulator(mode, iXIndex, updateNZ(iStatus, iXIndex))
TYA == \E mode \in Fetched("TYA") :
         SetAccumulator(mode, iYIndex, updateNZ(iStatus, iYIndex))

\* Alone among the transfers it leaves the flags as they are.
TXS == \E mode \in Fetched("TXS") :
         /\ iStackPointer' = iXIndex
         /\ size(mode)
         /\ UNCHANGED <<iAccumulator, iStatus, iXIndex, iYIndex, aBytes, host>>

Transfer == \/ LDA \/ STA \/ LDX \/ STX \/ LDY \/ STY
            \/ TAX \/ TAY \/ TSX \/ TXA \/ TYA \/ TXS

(***************************************************************************)
(* Arithmetic, logic and comparisons.                                      *)
(***************************************************************************)
ADC == \E mode \in Fetched("ADC") :
         LET sum == addByteWithCarry(iStatus, iAccumulator, load(mode))
         IN  SetAccumulator(mode, sum.iValue, sum.iStatus)
SBC == \E mode \in Fetched("SBC") :
         LET diff == subByteWithCarry(iStatus, iAccumulator, load(mode))
         IN  SetAccumulator(mode, diff.iValue, diff.iStatus)

Logic(mode, iValue) == SetAccumulator(mode, iValue, updateNZ(iStatus, iValue))

AND == \E mode \in Fetched("AND") : Logic(mode, And(iAccumulator, load(mode)))
ORA == \E mode \in Fetched("ORA") : Logic(mode, Or(iAccumulator, load(mode)))
EOR == \E mode \in Fetched("EOR") : Logic(mode, Xor(iAccumulator, load(mode)))

CMP == \E mode \in Fetched("CMP") :
         SetStatus(mode, cmpByte(iStatus, iAccumulator, load(mode)))
CPX == \E mode \in Fetched("CPX") :
         SetStatus(mode, cmpByte(iStatus, iXIndex, load(mode)))
CPY == \E mode \in Fetched("CPY") :
         SetStatus(mode, cmpByte(iStatus, iYIndex, load(mode)))
BIT == \E mode \in Fetched("BIT") :
         SetStatus(mode, bitTest(iStatus, iAccumulator, load(mode)))

Arithmetic == ADC \/ SBC \/ AND \/ ORA \/ EOR \/ CMP \/ CPX \/ CPY \/ BIT

(***************************************************************************)
(* Counting and shifting.  The handlers on memory compute the address      *)
(* once, read the cell, set the flags and write it back.                   *)
(***************************************************************************)
Update(mode, iValue) == store(mode, iValue, updateNZ(iStatus, iValue))

\* With a fault, for the runs to find: the register is wider than a byte.
INXWide == \E mode \in Fetched("INX") : SetX(mode, iXIndex + 1)

DEX == \E mode \in Fetched("DEX") : SetX(mode, (iXIndex - 1) % 256)
DEY == \E mode \in Fetched("DEY") : SetY(mode, (iYIndex - 1) % 256)
DEC == \E mode \in Fetched("DEC") : Update(mode, (load(mode) - 1) % 256)
INX == \E mode \in Fetched("INX") : SetX(mode, (iXIndex + 1) % 256)
INY == \E mode \in Fetched("INY") : SetY(mode, (iYIndex + 1) % 256)
INC == \E mode \in Fetched("INC") : Update(mode, (load(mode) + 1) % 256)

ASL == \E mode \in Fetched("ASL") :
         Shift(mode, shiftLeftWithCarry(iStatus, target(mode)))
LSR == \E mode \in Fetched("LSR") :
         Shift(mode, shiftRightWithCarry(iStatus, target(mode)))
ROL == \E mode \in Fetched("ROL") :
         Shift(mode, rotateLeftWithCarry(iStatus, target(mode)))
ROR == \E mode \in Fetched("ROR") :
         Shift(mode, rotateRightWithCarry(iStatus, target(mode)))

Count == DEX \/ DEY \/ DEC \/ INX \/ INY \/ INC \/ ASL \/ LSR \/ ROL \/ ROR

(***************************************************************************)
(* Flags and branches.  A branch adds the signed operand to the address of *)
(* the next instruction.                                                   *)
(***************************************************************************)
Clear(op, f) == \E mode \in Fetched(op) : SetStatus(mode, iStatus \ {f})
Set(op, f)   == \E mode \in Fetched(op) : SetStatus(mode, iStatus \cup {f})

CLC == Clear("CLC", F_CARRY)
CLD == Clear("CLD", F_DECIMAL)
CLI == Clear("CLI", F_INTERRUPT)
CLV == Clear("CLV", F_OVERFLOW)
SEC == Set("SEC", F_CARRY)
SED == Set("SED", F_DECIMAL)
SEI == Set("SEI", F_INTERRUPT)

\* With a fault, for the runs to find: the operation is not stepped over.
NOPStays == /\ Fetched("NOP") # {}
            /\ UNCHANGED <<iProgramCounter, registers, aBytes, host>>

NOP == \E mode \in Fetched("NOP") : SetStatus(mode, iStatus)

BCC == Branch("BCC", F_CARRY \notin iStatus)
BCS == Branch("BCS", F_CARRY \in iStatus)
BEQ == Branch("BEQ", F_ZERO \in iStatus)
BNE == Branch("BNE", F_ZERO \notin iStatus)
BMI == Branch("BMI", F_NEGATIVE \in iStatus)
BPL == Branch("BPL", F_NEGATIVE \notin iStatus)
BVC == Branch("BVC", F_OVERFLOW \notin iStatus)
BVS == Branch("BVS", F_OVERFLOW \in iStatus)

Flow == \/ CLC \/ CLD \/ CLI \/ CLV \/ SEC \/ SED \/ SEI \/ NOP
        \/ BCC \/ BCS \/ BEQ \/ BNE \/ BMI \/ BPL \/ BVC \/ BVS

(***************************************************************************)
(* The stack.  The copies of the status register that are pushed carry the *)
(* break and unused flags; a copy that is pulled never sets them.          *)
(***************************************************************************)
PushedStatus == ToByte(iStatus \cup {F_BREAK, F_UNUSED})

\* With a fault, for the runs to find: every bit is pulled.
PulledStatusUnmasked(iValue) == Bits(iValue)

PulledStatus(iValue) ==
  (iStatus \cap {F_BREAK, F_UNUSED}) \cup (Bits(iValue) \ {F_BREAK, F_UNUSED})

PHA == \E mode \in Fetched("PHA") :
         /\ Pushed(push(Stack, iAccumulator))
         /\ size(mode)
         /\ UNCHANGED <<iAccumulator, iStatus, iXIndex, iYIndex, host>>

PHP == \E mode \in Fetched("PHP") :
         /\ Pushed(push(Stack, PushedStatus))
         /\ size(mode)
         /\ UNCHANGED <<iAccumulator, iStatus, iXIndex, iYIndex, host>>

PLA == \E mode \in Fetched("PLA") :
         /\ iAccumulator' = pull(1)
         /\ iStatus' = updateNZ(iStatus, pull(1))
         /\ Pulled(1)
         /\ size(mode)
         /\ UNCHANGED <<iXIndex, iYIndex, host>>

PLP == \E mode \in Fetched("PLP") :
         /\ iStatus' = PulledStatus(pull(1))
         /\ Pulled(1)
         /\ size(mode)
         /\ UNCHANGED <<iAccumulator, iXIndex, iYIndex, host>>

(***************************************************************************)
(* Jumps and calls.                                                        *)
(***************************************************************************)
operand == readWord(aBytes, iProgramCounter + 1)

JMP_AB == /\ "AB" \in Fetched("JMP")
          /\ operand # iProgramCounter
          /\ goto(operand)
          /\ UNCHANGED <<registers, aBytes, host>>

\* With a fault, for the runs to find: it is executed like any other jump.
JumpToSelfStays == /\ "AB" \in Fetched("JMP")
                   /\ operand = iProgramCounter
                   /\ UNCHANGED vars

\* A jump to itself can never be left: run() returns.
JumpToSelf == /\ "AB" \in Fetched("JMP")
              /\ operand = iProgramCounter
              /\ return

\* With a fault, for the runs to find: the pointer leaves its page.
JMP_INCrossing == /\ "IND" \in Fetched("JMP")
                  /\ goto(readWord(aBytes, operand))
                  /\ UNCHANGED <<registers, aBytes, host>>

\* The high byte of the target never comes from the page after the pointer's.
JMP_IN ==
  /\ "IND" \in Fetched("JMP")
  /\ goto(IF LowByte(operand) = 255
          THEN readByte(aBytes, operand) + 256 * readByte(aBytes, operand - 255)
          ELSE readWord(aBytes, operand))
  /\ UNCHANGED <<registers, aBytes, host>>

\* With a fault, for the runs to find: low byte first.
PushedAddressSwapped(stack, iAddress) ==
  push(push(stack, LowByte(iAddress)), HighByte(iAddress))

PushedAddress(stack, iAddress) ==
  push(push(stack, HighByte(iAddress)), LowByte(iAddress))

\* The address of the last byte of the instruction is pushed, and only then
\* is the operand read.
JSR == /\ "AB" \in Fetched("JSR")
       /\ Pushed(PushedAddress(Stack, iProgramCounter + 2))
       /\ goto(readWord(aBytes', iProgramCounter + 1))
       /\ UNCHANGED <<iAccumulator, iStatus, iXIndex, iYIndex, host>>

RTS == /\ "IMP" \in Fetched("RTS")
       /\ goto(pull(1) + 256 * pull(2) + 1)
       /\ Pulled(2)
       /\ UNCHANGED <<iAccumulator, iStatus, iXIndex, iYIndex, host>>

BRK == /\ "IMP" \in Fetched("BRK")
       /\ Pushed(push(PushedAddress(Stack, iProgramCounter + 2), PushedStatus))
       /\ goto(readWord(aBytes', VEC_IRQ))
       /\ iStatus' = iStatus \cup {F_INTERRUPT}
       /\ UNCHANGED <<iAccumulator, iXIndex, iYIndex, host>>

RTI == /\ "IMP" \in Fetched("RTI")
       /\ iStatus' = PulledStatus(pull(1))
       /\ goto(pull(2) + 256 * pull(3))
       /\ Pulled(3)
       /\ UNCHANGED <<iAccumulator, iXIndex, iYIndex, host>>

Jump == \/ PHA \/ PHP \/ PLA \/ PLP
        \/ JMP_AB \/ JMP_IN \/ JSR \/ RTS \/ BRK \/ RTI

\* With a fault, for the runs to find: the byte is stepped over.
illegalSkipped == /\ running
                  /\ \A op \in DOMAIN Opcode : Fetched(op) = {}
                  /\ running' = FALSE
                  /\ goto(iProgramCounter + 1)
                  /\ UNCHANGED <<registers, aBytes, runs>>

\* A byte that is no opcode: the handler BAD or the default case.
illegal == /\ running
           /\ \A op \in DOMAIN Opcode : Fetched(op) = {}
           /\ return

-----------------------------------------------------------------------------
Instruction == Transfer \/ Arithmetic \/ Count \/ Flow \/ Jump

Exit == JumpToSelf \/ illegal

Next == \/ \E iAddress \in EntryPoints : setProgramCounter(iAddress)
        \/ run
        \/ Instruction
        \/ Exit

\* run() is a loop that nothing can block: while the host is in it, it goes on.
Fairness == WF_vars(Instruction \/ Exit)

Spec == Init /\ [][Next]_vars /\ Fairness

-----------------------------------------------------------------------------
(***************************************************************************)
(* Properties.                                                             *)
(***************************************************************************)

MachineOK == /\ iProgramCounter \in Address
             /\ iAccumulator \in Byte
             /\ iStatus \subseteq Flag
             /\ iXIndex \in Byte
             /\ iYIndex \in Byte
             /\ iStackPointer \in Byte
             /\ IsMemory(aBytes)

\* What run() stays at once it has returned: a byte that is no opcode, or a jump to itself.
AtExit == \/ \A op \in DOMAIN Opcode : \A mode \in DOMAIN Opcode[op] : Opcode[op][mode] # opcode
          \/ Opcode["JMP"]["AB"] = opcode /\ operand = iProgramCounter

\* Every register keeps its width, whatever the program, and memory holds
\* bytes at addresses.
TypeOK == /\ MachineOK
          /\ running \in BOOLEAN
          /\ runs \in 0 .. MaxRuns

\* The break and unused flags exist only in the copies of the status register
\* that PHP and BRK push: no sequence of pushes, pulls, interrupts and returns
\* brings either into the register itself.
BreakNeverInStatus == iStatus \cap {F_BREAK, F_UNUSED} = {}

\* The cells a step changes.
Changed == {a \in DOMAIN aBytes \cup DOMAIN aBytes' : readByte(aBytes', a) # readByte(aBytes, a)}

\* The cells of the stack page that the pointer passes in a step that pushes.
PushedCells ==
  LET pushed == (iStackPointer - iStackPointer') % 256
  IN  {STACK_BASE + ((iStackPointer - k) % 256) : k \in 0 .. pushed - 1}

Storing == (UNION {Fetched(op) : op \in {"STA", "STX", "STY", "DEC", "INC",
                                         "ASL", "LSR", "ROL", "ROR"}}) \ {"A"}

Pushing == UNION {Fetched(op) : op \in {"PHA", "PHP", "JSR", "BRK"}}

\* The cells a step may write.
Written == {address(mode) : mode \in Storing} \cup (IF Pushing = {} THEN {} ELSE PushedCells)

zeroPage == readByte(aBytes, iProgramCounter + 1)

\* Does a store belong to cell a?  Told without the address functions: one who
\* goes back from a by the index, in page zero round the page and elsewhere
\* round all memory, is at the operand or at the word it points to.
StoresTo(a) ==
  \/ "ZP"  \in Storing /\ a = zeroPage
  \/ "ZPX" \in Storing /\ a \in Byte /\ (a - iXIndex) % 256 = zeroPage
  \/ "ZPY" \in Storing /\ a \in Byte /\ (a - iYIndex) % 256 = zeroPage
  \/ "AB"  \in Storing /\ a = operand
  \/ "ABX" \in Storing /\ (a - iXIndex) % MEM_SIZE = operand
  \/ "ABY" \in Storing /\ (a - iYIndex) % MEM_SIZE = operand
  \/ "IX"  \in Storing /\ \E p \in Byte : (p - iXIndex) % 256 = zeroPage /\ a = readWord(aBytes, p)
  \/ "IY"  \in Storing /\ (a - iYIndex) % MEM_SIZE = readWord(aBytes, zeroPage)

FrameStep == \A a \in Changed : StoresTo(a) \/ (Pushing # {} /\ a \in PushedCells)

\* The frame rule of memory: a step changes no cell but the one its store is
\* for and, when it pushes, those of the stack page that the pointer leaves
\* above it.  A push at the bottom of the stack stays in the page, a page zero
\* index that passes 255 stays in page zero, any other goes on to the next page
\* and from the last to the first.
MemoryFrame == [][FrameStep]_vars

\* What a shift leaves where it found its operand.
shifted(mode) == IF mode = "A" THEN iAccumulator' ELSE readByte(aBytes', address(mode))

ShiftStep ==
  /\ \A mode \in Fetched("ASL") : shifted(mode) + 256 * Carry(iStatus') = 2 * target(mode)
  /\ \A mode \in Fetched("ROL") :
       shifted(mode) + 256 * Carry(iStatus') = 2 * target(mode) + Carry(iStatus)
  /\ \A mode \in Fetched("LSR") : 2 * shifted(mode) + Carry(iStatus') = target(mode)
  /\ \A mode \in Fetched("ROR") :
       2 * shifted(mode) + Carry(iStatus') = target(mode) + 256 * Carry(iStatus)

\* A shift doubles or halves the number it finds, in the accumulator or in the
\* one cell it reads and writes, and loses no bit: the one that is shifted out
\* is the new carry, and what a rotation shifts in is the carry before that.
ShiftsExact == [][ShiftStep]_vars

ResultStep ==
  F_NZ \subseteq iStatus' /\ ~ (F_NZ \subseteq iStatus)
    => \E op \in {"BIT", "PLP", "RTI"} : Fetched(op) # {}

\* N and Z describe one result and exclude each other; only the instructions
\* that copy them from memory may set both.
ResultFlags == [][ResultStep]_vars

ModeStep ==
  /\ iStatus \cap {F_DECIMAL} # iStatus' \cap {F_DECIMAL}
       => \E op \in {"CLD", "SED", "PLP", "RTI"} : Fetched(op) # {}
  /\ iStatus \cap {F_INTERRUPT} # iStatus' \cap {F_INTERRUPT}
       => \E op \in {"CLI", "SEI", "PLP", "RTI", "BRK"} : Fetched(op) # {}

\* The decimal and interrupt flags belong to the program: no arithmetic and
\* no result changes them.  BRK leaves decimal mode on for its handler.
ModeFlags == [][ModeStep]_vars

\* The number a byte stands for in the mode of the arithmetic, how many such
\* numbers there are, and whether its nybbles are digits of one.
NumberOf(iByte) == IF F_DECIMAL \in iStatus THEN 10 * (iByte \div 16) + (iByte % 16) ELSE iByte
Numbers         == IF F_DECIMAL \in iStatus THEN 100 ELSE 256
IsNumber(iByte) == F_DECIMAL \in iStatus => iByte % 16 < 10 /\ iByte \div 16 < 10

SumStep ==
  \A mode \in Fetched("ADC") : IsNumber(iAccumulator) /\ IsNumber(load(mode)) =>
    /\ IsNumber(iAccumulator')
    /\ NumberOf(iAccumulator') + Numbers * Carry(iStatus')
         = NumberOf(iAccumulator) + NumberOf(load(mode)) + Carry(iStatus)
    /\ F_DECIMAL \notin iStatus =>
         (F_OVERFLOW \in iStatus'
            <=> Signed(iAccumulator) + Signed(load(mode)) + Carry(iStatus) \notin -128 .. 127)

DifferenceStep ==
  \A mode \in Fetched("SBC") : IsNumber(iAccumulator) /\ IsNumber(load(mode)) =>
    /\ IsNumber(iAccumulator')
    /\ NumberOf(iAccumulator') - Numbers * (1 - Carry(iStatus'))
         = NumberOf(iAccumulator) - NumberOf(load(mode)) - (1 - Carry(iStatus))
    /\ F_DECIMAL \notin iStatus =>
         (F_OVERFLOW \in iStatus'
            <=> Signed(iAccumulator) - Signed(load(mode)) - (1 - Carry(iStatus)) \notin -128 .. 127)

\* The nybbles, bits and adjustments of ADC and SBC amount to arithmetic: with
\* the carry as its highest digit the accumulator is the sum, and without the
\* borrow it is the difference, in binary and for decimal digits; in binary V
\* tells that the signed result has left the byte.
ArithmeticExact == [][SumStep /\ DifferenceStep]_vars

\* The word at p when the pointer that fetches it counts in its low byte only.
WordInPage(p) == readByte(aBytes, p) + 256 * readByte(aBytes, p - (p % 256) + ((p + 1) % 256))

IndirectStep == Fetched("JMP") = {"IND"} => iProgramCounter' = WordInPage(operand)

\* run.hpp: "Emulate the 6502 indirect jump bug with respect to page boundaries."
\* An indirect jump goes to the word its pointer finds without leaving its page,
\* which for any pointer but one at the end of a page is the word it points to.
JumpPointerInPage == [][IndirectStep]_vars

\* run() returns: a program whose loops count down to an exit reaches it.
RunReturns == running ~> ~running
=============================================================================
