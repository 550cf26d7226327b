----------------------------- MODULE StepProofs -----------------------------
(***************************************************************************)
(* What a step may touch, for every program.                               *)
(*                                                                         *)
(* Memory: a step changes the cell its store is for, or the cells of the   *)
(* stack page its pushes pass, and no other.  This rests on the invariant  *)
(* of CpuProofs, without which neither the address of a store nor the      *)
(* stack pointer would be in range, and on what the address functions come *)
(* to: from the cell they yield, back by the index, is the operand.        *)
(*                                                                         *)
(* Flags: what the ALU does to a status keeps the mode flags and never     *)
(* sets N and Z together, and every handler but those that copy or name    *)
(* these flags uses nothing else.                                          *)
(*                                                                         *)
(* Sums: ADC and SBC leave the exact sum and difference, in binary and in  *)
(* decimal mode.  Shifts lose no bit.                                      *)
(*                                                                         *)
(* The last part is about one instruction of a program whose code is       *)
(* known, for the proofs about programs.                                   *)
(***************************************************************************)
EXTENDS CpuProofs

\* From memory m to memory n, no cell outside S reads differently.
WritesOnly(m, n, S) ==
  /\ IsMemory(n)
  /\ \A a \in Address : a \notin S => readByte(n, a) = readByte(m, a)

LEMMA Remainder ==
  ASSUME NEW a \in Int, NEW n \in Nat \ {0}, 0 <= a, a < n
  PROVE  a % n = a
  OBVIOUS

LEMMA AddressFits ==
  ASSUME NEW a \in Address
  PROVE  a % MEM_SIZE = a
<1>1. MEM_SIZE \in Nat \ {0}
  BY DEF MEM_SIZE
<1>. QED
  BY <1>1, Remainder DEF Address

LEMMA ReadWritten ==
  ASSUME NEW m, NEW c \in Address, NEW v, NEW a \in Address
  PROVE  readByte(writeByte(m, c, v), a) = IF a = c THEN v ELSE readByte(m, a)
<1>1. a % MEM_SIZE = a /\ c % MEM_SIZE = c
  BY AddressFits
<1>. QED
  BY <1>1 DEF readByte, writeByte

LEMMA WriteByteWrites ==
  ASSUME NEW m, IsMemory(m), NEW a \in Address, NEW v \in Byte
  PROVE  WritesOnly(m, writeByte(m, a, v), {a})
<1>1. IsMemory(writeByte(m, a, v))
  BY AddressIsInt, WriteByteType
<1>2. \A b \in Address : b % MEM_SIZE = b
  BY AddressFits
<1>3. \A b \in Address : b # a => readByte(writeByte(m, a, v), b) = readByte(m, b)
  BY <1>2 DEF readByte, writeByte
<1>. QED
  BY <1>1, <1>3 DEF WritesOnly

LEMMA WritesCompose ==
  ASSUME NEW m, NEW n, NEW p, NEW S, NEW T, WritesOnly(m, n, S), WritesOnly(n, p, T)
  PROVE  WritesOnly(m, p, S \cup T)
  BY DEF WritesOnly

LEMMA WritesChange ==
  ASSUME NEW S, IsMemory(aBytes), WritesOnly(aBytes, aBytes', S)
  PROVE  Changed \subseteq S
<1>1. DOMAIN aBytes \cup DOMAIN aBytes' \subseteq Address
  BY DEF WritesOnly, IsMemory, Address
<1>. QED
  BY <1>1 DEF WritesOnly, Changed

\* A step changes only what it may write.
WrittenStep == Changed \subseteq Written

LEMMA NothingWritten ==
  ASSUME Inv, UNCHANGED aBytes
  PROVE  WrittenStep
<1>1. WritesOnly(aBytes, aBytes', {})
  BY Registers DEF WritesOnly
<1>. QED
  BY <1>1, Registers, WritesChange DEF WrittenStep, Written

LEMMA StoreWrites ==
  ASSUME Inv, NEW mode \in CellMode, NEW v \in Byte, NEW s, store(mode, v, s),
         mode \in Storing
  PROVE  WrittenStep
<1>1. WritesOnly(aBytes, aBytes', {address(mode)})
  BY Registers, AddressType, WriteByteWrites DEF store
<1>. QED
  BY <1>1, Registers, WritesChange DEF WrittenStep, Written

-----------------------------------------------------------------------------
(***************************************************************************)
(* Pushes.                                                                 *)
(***************************************************************************)
\* Where the stack pointer is n pushes later, and the cells it passes.
Below(iPointer, n) == (iPointer - n) % 256

Cells(iPointer, n) == {STACK_BASE + Below(iPointer, k) : k \in 0 .. n - 1}

\* From stack s to stack t, n bytes have been pushed.
PushesTo(s, t, n) == /\ IsStack(t)
                     /\ t.iStackPointer = Below(s.iStackPointer, n)
                     /\ WritesOnly(s.aBytes, t.aBytes, Cells(s.iStackPointer, n))

LEMMA PointerSteps ==
  ASSUME NEW p \in Byte, NEW n \in {0, 1, 2, 3}
  PROVE  /\ Below(p, 0) = p
         /\ Below(Below(p, n), 1) = Below(p, n + 1)
         /\ (p - Below(p, n)) % 256 = n
         /\ STACK_BASE + Below(p, n) \in Address
<1>1. p \in 0 .. 255
  BY DEF Byte
<1>2. \A k \in {0, 1, 2, 3, 4} : (p - k) % 256 = IF p < k THEN 256 + p - k ELSE p - k
  <2>1. (p - 0) % 256 = p
    BY <1>1
  <2>2. (p - 1) % 256 = IF p < 1 THEN 255 + p ELSE p - 1
    BY <1>1
  <2>3. (p - 2) % 256 = IF p < 2 THEN 254 + p ELSE p - 2
    BY <1>1
  <2>4. (p - 3) % 256 = IF p < 3 THEN 253 + p ELSE p - 3
    BY <1>1
  <2>5. (p - 4) % 256 = IF p < 4 THEN 252 + p ELSE p - 4
    BY <1>1
  <2>. QED
    BY <1>1, <2>1, <2>2, <2>3, <2>4, <2>5
<1>. DEFINE q == (p - n) % 256
<1>3. q = IF p < n THEN 256 + p - n ELSE p - n
  BY <1>1, <1>2
<1>4. q \in 0 .. 255
  BY <1>1, <1>3
<1>. HIDE DEF q
<1>5. (q - 1) % 256 = IF q < 1 THEN 255 ELSE q - 1
  BY <1>4
<1>6. (q - 1) % 256 = (p - (n + 1)) % 256
  <2>1. (p - (n + 1)) % 256 = IF p < n + 1 THEN 256 + p - (n + 1) ELSE p - (n + 1)
    <3>1. n + 1 \in {0, 1, 2, 3, 4}
      OBVIOUS
    <3>. HIDE DEF q
    <3>. QED
      BY <1>2, <3>1
  <2>. QED
    BY <1>1, <1>3, <1>5, <2>1
<1>7. (p - q) % 256 = n
  <2>1. CASE p < n
    <3>1. p - q = n - 256
      BY <1>1, <1>3, <2>1
    <3>2. (n - 256) % 256 = n
      OBVIOUS
    <3>. QED
      BY <3>1, <3>2
  <2>2. CASE ~ (p < n)
    <3>1. p - q = n
      BY <1>1, <1>3, <2>2
    <3>. QED
      BY <3>1
  <2>. QED
    BY <2>1, <2>2
<1>8. STACK_BASE + q \in Address
  <2>1. MEM_SIZE \in Int /\ 511 <= MEM_SIZE - 1
    BY DEF MEM_SIZE
  <2>2. STACK_BASE + q \in Int /\ 0 <= STACK_BASE + q /\ STACK_BASE + q <= 511
    BY <1>4 DEF STACK_BASE
  <2>. QED
    BY <2>1, <2>2 DEF Address
<1>. QED
  BY <1>1, <1>2, <1>6, <1>7, <1>8 DEF q, Below

LEMMA CellsGrow ==
  ASSUME NEW p \in Byte, NEW n \in {0, 1, 2, 3}
  PROVE  Cells(p, n + 1) = Cells(p, n) \cup {STACK_BASE + Below(p, n)}
<1>1. 0 .. (n + 1) - 1 = (0 .. n - 1) \cup {n}
  OBVIOUS
<1>. QED
  BY <1>1, Zenon DEF Cells

LEMMA NoPush ==
  ASSUME NEW s, IsStack(s)
  PROVE  PushesTo(s, s, 0)
<1>1. Below(s.iStackPointer, 0) = s.iStackPointer
  BY PointerSteps DEF IsStack
<1>. QED
  BY <1>1 DEF PushesTo, WritesOnly, IsStack

LEMMA OnePush ==
  ASSUME NEW s, IsStack(s), NEW t, NEW n \in {0, 1, 2}, PushesTo(s, t, n), NEW v \in Byte
  PROVE  PushesTo(s, push(t, v), n + 1)
<1>. DEFINE u == push(t, v)
            p == s.iStackPointer
            a == STACK_BASE + t.iStackPointer
<1>1. p \in Byte /\ IsStack(t) /\ t.iStackPointer = Below(p, n)
  BY DEF IsStack, PushesTo
<1>2. /\ a = STACK_BASE + Below(p, n)
      /\ a \in Address
      /\ Below(Below(p, n), 1) = Below(p, n + 1)
  BY <1>1, PointerSteps
<1>3. IsStack(u)
  BY <1>1, PushType
<1>4. u.aBytes = writeByte(t.aBytes, a, v) /\ u.iStackPointer = Below(t.iStackPointer, 1)
  BY DEF push, Below
<1>5. u.iStackPointer = Below(p, n + 1)
  BY <1>1, <1>2, <1>4
<1>6. WritesOnly(t.aBytes, u.aBytes, {a})
  BY <1>1, <1>2, <1>4, WriteByteWrites DEF IsStack
<1>7. WritesOnly(s.aBytes, u.aBytes, Cells(p, n) \cup {a})
  BY <1>6, WritesCompose DEF PushesTo
<1>8. Cells(p, n + 1) = Cells(p, n) \cup {a}
  BY <1>1, <1>2, CellsGrow
<1>. HIDE DEF u, p, a
<1>9. WritesOnly(s.aBytes, u.aBytes, Cells(p, n + 1))
  BY <1>7, <1>8, Zenon
<1>. QED
  BY <1>3, <1>5, <1>9 DEF PushesTo, p, u

LEMMA AddressPush ==
  ASSUME NEW s, IsStack(s), NEW i \in Int
  PROVE  PushesTo(s, PushedAddress(s, i), 2)
<1>1. PushesTo(s, push(s, HighByte(i)), 1)
  BY NoPush, OnePush, ByteOfWord
<1>. QED
  BY <1>1, OnePush, ByteOfWord DEF PushedAddress

LEMMA PushWrites ==
  ASSUME Inv, NEW t, NEW n \in {1, 2, 3}, PushesTo(Stack, t, n), Pushed(t), Pushing # {}
  PROVE  WrittenStep
<1>1. /\ iStackPointer' = Below(iStackPointer, n)
      /\ WritesOnly(aBytes, aBytes', Cells(iStackPointer, n))
  BY DEF PushesTo, Pushed, Stack
<1>2. (iStackPointer - iStackPointer') % 256 = n
  BY <1>1, Registers, PointerSteps
<1>3. PushedCells = Cells(iStackPointer, n)
  BY <1>2 DEF PushedCells, Cells, Below
<1>. QED
  BY <1>1, <1>3, Registers, WritesChange DEF WrittenStep, Written

-----------------------------------------------------------------------------
(***************************************************************************)
(* The handlers.                                                           *)
(***************************************************************************)
LEMMA IsStoring ==
  ASSUME NEW op \in {"STA", "STX", "STY", "DEC", "INC", "ASL", "LSR", "ROL", "ROR"},
         NEW mode \in Fetched(op), mode # "A"
  PROVE  mode \in CellMode /\ mode \in Storing
  BY StoreMode DEF Storing

LEMMA InRegister ==
  ASSUME Inv, NEW mode, NEW v, NEW s,
         SetStatus(mode, s) \/ SetAccumulator(mode, v, s) \/ SetX(mode, v) \/ SetY(mode, v)
  PROVE  WrittenStep
  BY NothingWritten DEF SetStatus, SetAccumulator, SetX, SetY

LEMMA TransferFrame == ASSUME Inv, Transfer PROVE WrittenStep
<1>1. \A op \in {"STA", "STX", "STY"} : \A mode \in Fetched(op) : mode # "A"
  BY StoreMode DEF CellMode
<1>2. CASE STA \/ STX \/ STY
  BY <1>1, <1>2, IsStoring, Registers, StoreWrites DEF STA, STX, STY
<1>3. CASE LDA \/ TXA \/ TYA
  BY <1>3, InRegister DEF LDA, TXA, TYA
<1>4. CASE LDX \/ LDY \/ TAX \/ TAY \/ TSX
  BY <1>4, InRegister DEF LDX, LDY, TAX, TAY, TSX
<1>5. CASE TXS
  BY <1>5, NothingWritten DEF TXS
<1>. QED
  BY <1>2, <1>3, <1>4, <1>5 DEF Transfer

LEMMA ArithmeticFrame == ASSUME Inv, Arithmetic PROVE WrittenStep
<1>1. CASE ADC \/ SBC
  BY <1>1, InRegister, Zenon DEF ADC, SBC
<1>2. CASE AND \/ ORA \/ EOR
  BY <1>2, InRegister DEF AND, ORA, EOR, Logic
<1>3. CASE CMP \/ CPX \/ CPY \/ BIT
  BY <1>3, InRegister DEF CMP, CPX, CPY, BIT
<1>. QED
  BY <1>1, <1>2, <1>3 DEF Arithmetic

LEMMA UpdateFrame ==
  ASSUME Inv, NEW op \in {"DEC", "INC"}, NEW mode \in Fetched(op), NEW v \in Byte,
         Update(mode, v)
  PROVE  WrittenStep
<1>1. mode # "A"
  BY StoreMode DEF CellMode
<1>. QED
  BY <1>1, IsStoring, StoreWrites DEF Update

LEMMA ShiftFrame ==
  ASSUME Inv, NEW op \in {"ASL", "LSR", "ROL", "ROR"}, NEW mode \in Fetched(op),
         NEW r, IsResult(r), Shift(mode, r)
  PROVE  WrittenStep
<1>1. CASE mode = "A"
  BY <1>1, InRegister DEF Shift
<1>2. CASE mode # "A"
  BY <1>2, IsStoring, StoreWrites DEF Shift, IsResult
<1>. QED
  BY <1>1, <1>2

LEMMA CountFrame == ASSUME Inv, Count PROVE WrittenStep
<1>. USE Registers
<1>1. CASE DEX \/ DEY \/ INX \/ INY
  BY <1>1, InRegister DEF DEX, DEY, INX, INY
<1>2. CASE DEC \/ INC
  BY <1>2, LoadType, NextByte, UpdateFrame DEF DEC, INC
<1>3. \A mode : target(mode) \in Byte
  BY LoadType DEF target
<1>4. CASE ASL \/ LSR
  BY <1>3, <1>4, ShiftType, ShiftFrame DEF ASL, LSR
<1>5. CASE ROL \/ ROR
  BY <1>3, <1>5, ShiftType, ShiftFrame DEF ROL, ROR
<1>. QED
  BY <1>1, <1>2, <1>4, <1>5 DEF Count

LEMMA FlowFrame == ASSUME Inv, Flow PROVE WrittenStep
<1>1. CASE CLC \/ CLD \/ CLI \/ CLV
  BY <1>1, InRegister DEF CLC, CLD, CLI, CLV, Clear
<1>2. CASE SEC \/ SED \/ SEI \/ NOP
  BY <1>2, InRegister DEF SEC, SED, SEI, Set, NOP
<1>3. ASSUME NEW op, NEW taken, Branch(op, taken) PROVE WrittenStep
  BY <1>3, NothingWritten DEF Branch
<1>4. CASE BCC \/ BCS \/ BEQ \/ BNE
  BY <1>3, <1>4 DEF BCC, BCS, BEQ, BNE
<1>5. CASE BMI \/ BPL \/ BVC \/ BVS
  BY <1>3, <1>5 DEF BMI, BPL, BVC, BVS
<1>. QED
  BY <1>1, <1>2, <1>4, <1>5 DEF Flow

LEMMA JumpFrame == ASSUME Inv, Jump PROVE WrittenStep
<1>. USE StackType, Registers
<1>1. CASE PHA
  <2>1. PushesTo(Stack, push(Stack, iAccumulator), 0 + 1)
    BY NoPush, OnePush
  <2>2. Pushed(push(Stack, iAccumulator)) /\ Pushing # {}
    BY <1>1 DEF PHA, Pushing
  <2>. QED
    BY <2>1, <2>2, PushWrites
<1>2. CASE PHP
  <2>1. PushesTo(Stack, push(Stack, PushedStatus), 0 + 1)
    BY NoPush, OnePush, PushedStatusType
  <2>2. Pushed(push(Stack, PushedStatus)) /\ Pushing # {}
    BY <1>2 DEF PHP, Pushing
  <2>. QED
    BY <2>1, <2>2, PushWrites
<1>3. CASE JSR
  <2>1. PushesTo(Stack, PushedAddress(Stack, iProgramCounter + 2), 2)
    BY JumpTarget, AddressPush
  <2>2. Pushed(PushedAddress(Stack, iProgramCounter + 2)) /\ Pushing # {}
    BY <1>3 DEF JSR, Pushing
  <2>. QED
    BY <2>1, <2>2, PushWrites
<1>4. CASE BRK
  <2>. DEFINE t == PushedAddress(Stack, iProgramCounter + 2)
  <2>1. PushesTo(Stack, t, 2)
    BY JumpTarget, AddressPush
  <2>2. PushesTo(Stack, push(t, PushedStatus), 2 + 1)
    BY <2>1, OnePush, PushedStatusType
  <2>3. Pushed(push(t, PushedStatus)) /\ Pushing # {}
    BY <1>4 DEF BRK, Pushing
  <2>. QED
    BY <2>2, <2>3, PushWrites
<1>5. CASE PLA \/ PLP \/ RTS \/ RTI
  BY <1>5, NothingWritten DEF PLA, PLP, RTS, RTI, Pulled
<1>6. CASE JMP_AB \/ JMP_IN
  BY <1>6, NothingWritten DEF JMP_AB, JMP_IN
<1>. QED
  BY <1>1, <1>2, <1>3, <1>4, <1>5, <1>6 DEF Jump

LEMMA EveryWrittenStep == ASSUME Inv, [Next]_vars PROVE WrittenStep
<1>1. CASE Instruction
  BY <1>1, TransferFrame, ArithmeticFrame, CountFrame, FlowFrame, JumpFrame DEF Instruction
<1>2. CASE \E iAddress \in EntryPoints : setProgramCounter(iAddress)
  BY <1>2, NothingWritten DEF setProgramCounter
<1>3. CASE run \/ Exit
  BY <1>3, NothingWritten DEF run, Exit, JumpToSelf, illegal, return
<1>4. CASE UNCHANGED vars
  BY <1>4, NothingWritten DEF vars
<1>. QED
  BY <1>1, <1>2, <1>3, <1>4 DEF Next

-----------------------------------------------------------------------------
(***************************************************************************)
(* Where stores go.                                                        *)
(***************************************************************************)
\* Going back by the index undoes going on by it.
LEMMA BackByIndex ==
  ASSUME NEW n \in Int, NEW i \in Int
  PROVE  /\ n \in Byte => ((n + i) % 256) \in Byte /\ (((n + i) % 256) - i) % 256 = n
         /\ n \in Address => (((n + i) % MEM_SIZE) - i) % MEM_SIZE = n
<1>1. ASSUME NEW m \in {256, 65536}, 0 <= n, n < m
      PROVE  (((n + i) % m) - i) % m = n
  <2>1. CASE m = 256
    BY <1>1, <2>1
  <2>2. CASE m = 65536
    BY <1>1, <2>2
  <2>. QED
    BY <2>1, <2>2
<1>2. (n + i) % 256 \in Byte
  BY DEF Byte
<1>3. n \in Byte => (((n + i) % 256) - i) % 256 = n
  BY <1>1 DEF Byte
<1>4. n \in Address => (((n + i) % 65536) - i) % 65536 = n
  BY <1>1 DEF Address, MEM_SIZE
<1>. QED
  BY <1>2, <1>3, <1>4 DEF MEM_SIZE

\* The address functions lead a store to a cell it is for.
LEMMA StoreReaches ==
  ASSUME Inv, NEW mode \in Storing
  PROVE  StoresTo(address(mode))
<1>1. mode \in CellMode
  BY StoreMode DEF Storing
<1>2. /\ zeroPage \in Byte /\ zeroPage \in Int
      /\ iXIndex \in Int /\ iYIndex \in Int
  BY Registers, ReadByteType, ByteIsAddress DEF zeroPage
<1>3. /\ operand \in Address /\ operand \in Int
      /\ readWord(aBytes, zeroPage) \in Address /\ readWord(aBytes, zeroPage) \in Int
  BY Registers, ReadWordType, AddressIsInt DEF operand
<1>4. CASE mode = "ZP"
  BY <1>4 DEF StoresTo, zeroPage, address, addrZeroPageByte
<1>5. CASE mode = "ZPX"
  BY <1>2, <1>5, BackByIndex DEF StoresTo, zeroPage, address, addrZeroPageXByte
<1>6. CASE mode = "ZPY"
  BY <1>2, <1>6, BackByIndex DEF StoresTo, zeroPage, address, addrZeroPageYByte
<1>7. CASE mode = "AB"
  BY <1>7 DEF StoresTo, operand, address, addrAbsoluteByte
<1>8. CASE mode = "ABX"
  BY <1>2, <1>3, <1>8, BackByIndex DEF StoresTo, operand, address, addrAbsoluteXByte
<1>9. CASE mode = "ABY"
  BY <1>2, <1>3, <1>9, BackByIndex DEF StoresTo, operand, address, addrAbsoluteYByte
<1>10. CASE mode = "IX"
  BY <1>2, <1>10, BackByIndex DEF StoresTo, zeroPage, address, addrPreIndexZeroPageXByte
<1>11. CASE mode = "IY"
  BY <1>2, <1>3, <1>11, BackByIndex
  DEF StoresTo, zeroPage, address, addrPostIndexZeroPageYByte
<1>. QED
  BY <1>1, <1>4, <1>5, <1>6, <1>7, <1>8, <1>9, <1>10, <1>11 DEF CellMode

LEMMA EveryFrameStep == ASSUME Inv, [Next]_vars PROVE FrameStep
<1>. SUFFICES ASSUME NEW a \in Changed
              PROVE  StoresTo(a) \/ (Pushing # {} /\ a \in PushedCells)
  BY DEF FrameStep
<1>1. a \in Written
  BY EveryWrittenStep DEF WrittenStep
<1>2. CASE \E mode \in Storing : a = address(mode)
  BY <1>2, StoreReaches
<1>3. CASE Pushing # {} /\ a \in PushedCells
  BY <1>3
<1>. QED
  BY <1>1, <1>2, <1>3 DEF Written

\* In every program a step changes only the cell its store is for, found back
\* from the cell by the index and not by the address functions, and the cells
\* its pushes pass.
THEOREM Framed == Spec => MemoryFrame
<1>1. Inv /\ [Next]_vars => [FrameStep]_vars
  BY EveryFrameStep
<1>. QED
  BY <1>1, Invariance, PTL DEF Spec, MemoryFrame

-----------------------------------------------------------------------------
(***************************************************************************)
(* Flags.                                                                  *)
(***************************************************************************)
\* From status S to status T the mode flags stay and N and Z do not meet.
Keeps(S, T) == /\ S \cap {F_DECIMAL} = T \cap {F_DECIMAL}
               /\ S \cap {F_INTERRUPT} = T \cap {F_INTERRUPT}
               /\ F_NZ \subseteq T => F_NZ \subseteq S

\* The flags an ALU function may clear and set.
LEMMA Masks ==
  /\ F_NZ \subseteq F_NZC /\ F_NZC \subseteq F_NZCV /\ F_NZ \subseteq F_NZV
  /\ F_NZ = {F_NEGATIVE, F_ZERO}
  /\ F_DECIMAL \notin F_NZCV \cup F_NZV /\ F_INTERRUPT \notin F_NZCV \cup F_NZV
  /\ F_CARRY \notin F_NZ /\ F_OVERFLOW \notin F_NZ
  /\ F_CARRY \notin {F_DECIMAL, F_INTERRUPT} /\ F_OVERFLOW \notin {F_DECIMAL, F_INTERRUPT}
  /\ F_DECIMAL \notin F_NZ /\ F_INTERRUPT \notin F_NZ
  /\ F_DECIMAL \notin F_NZC /\ F_INTERRUPT \notin F_NZC
  /\ F_DECIMAL # F_INTERRUPT
  BY DEF F_NZ, F_NZC, F_NZV, F_NZCV, F_CARRY, F_ZERO, F_INTERRUPT, F_DECIMAL,
         F_OVERFLOW, F_NEGATIVE

\* No result is zero and negative.
LEMMA OneResult ==
  ASSUME NEW n
  PROVE  NZ(n) \subseteq F_NZ /\ ~ (F_NZ \subseteq NZ(n))
  BY DEF NZ, FlagIf, Negative, F_NZ, F_ZERO, F_NEGATIVE

LEMMA KeepsItself == ASSUME NEW S PROVE Keeps(S, S)
  BY DEF Keeps

LEMMA KeepsTransitive ==
  ASSUME NEW S, NEW T, NEW U, Keeps(S, T), Keeps(T, U)
  PROVE  Keeps(S, U)
  BY DEF Keeps

\* A handler that clears a mask with N and Z in it and sets flags by a result.
LEMMA KeepsResult ==
  ASSUME NEW S, NEW n, NEW M \in {F_NZ, F_NZC, F_NZCV}, NEW E \in SUBSET {F_CARRY, F_OVERFLOW}
  PROVE  Keeps(S, (S \ M) \cup NZ(n) \cup E)
<1>1. /\ F_NZ \subseteq M
      /\ F_DECIMAL \notin M /\ F_INTERRUPT \notin M
      /\ F_DECIMAL \notin E /\ F_INTERRUPT \notin E
      /\ E \cap F_NZ = {}
  BY Masks
<1>2. F_DECIMAL \notin NZ(n) /\ F_INTERRUPT \notin NZ(n)
  BY OneResult, Masks
<1>. DEFINE T == (S \ M) \cup NZ(n) \cup E
<1>3. T \cap {F_DECIMAL} = S \cap {F_DECIMAL} /\ T \cap {F_INTERRUPT} = S \cap {F_INTERRUPT}
  BY <1>1, <1>2
<1>4. ~ (F_NZ \subseteq T)
  BY <1>1, OneResult
<1>. QED
  BY <1>3, <1>4 DEF Keeps

LEMMA KeepsCarry ==
  ASSUME NEW S, NEW E \in SUBSET {F_CARRY, F_OVERFLOW}
  PROVE  Keeps(S, S \cup E) /\ Keeps(S, S \ E)
  BY Masks DEF Keeps

LEMMA UpdateNZKeeps ==
  ASSUME NEW S, NEW n
  PROVE  Keeps(S, updateNZ(S, n))
<1>1. Keeps(S, (S \ F_NZ) \cup NZ(n) \cup {})
  BY KeepsResult
<1>2. updateNZ(S, n) = (S \ F_NZ) \cup NZ(n) \cup {}
  BY DEF updateNZ
<1>. QED
  BY <1>1, <1>2, Zenon

LEMMA FlagIfCarry ==
  ASSUME NEW c
  PROVE  FlagIf(F_CARRY, c) \in SUBSET {F_CARRY, F_OVERFLOW}
  BY DEF FlagIf

LEMMA CmpByteKeeps ==
  ASSUME NEW S, NEW a, NEW b
  PROVE  Keeps(S, cmpByte(S, a, b))
  BY FlagIfCarry, KeepsResult, ZenonT(20) DEF cmpByte

LEMMA ShiftedKeeps ==
  ASSUME NEW S, NEW n, NEW c
  PROVE  Keeps(S, Shifted(S, n, c).iStatus)
<1>. DEFINE E == FlagIf(F_CARRY, c)
            T == (S \ {F_CARRY}) \cup E
<1>1. Keeps(S, S \ {F_CARRY}) /\ Keeps(S \ {F_CARRY}, T)
  BY KeepsCarry, FlagIfCarry
<1>2. Keeps(T, updateNZ(T, n))
  BY UpdateNZKeeps
<1>3. Shifted(S, n, c).iStatus = updateNZ(T, n)
  BY DEF Shifted
<1>. HIDE DEF T
<1>. QED
  BY <1>1, <1>2, <1>3, KeepsTransitive

\* ADC and SBC, in binary and in decimal.
LEMMA SumKeeps ==
  ASSUME NEW S, NEW n, NEW c, NEW v
  PROVE  Keeps(S, (S \ F_NZCV) \cup NZ(n) \cup FlagIf(F_CARRY, c) \cup FlagIf(F_OVERFLOW, v))
<1>. DEFINE E == FlagIf(F_CARRY, c) \cup FlagIf(F_OVERFLOW, v)
<1>1. E \in SUBSET {F_CARRY, F_OVERFLOW}
  BY DEF FlagIf
<1>2. (S \ F_NZCV) \cup NZ(n) \cup FlagIf(F_CARRY, c) \cup FlagIf(F_OVERFLOW, v)
        = (S \ F_NZCV) \cup NZ(n) \cup E
  OBVIOUS
<1>. HIDE DEF E
<1>3. Keeps(S, (S \ F_NZCV) \cup NZ(n) \cup E)
  BY <1>1, KeepsResult
<1>. QED
  BY <1>2, <1>3, Zenon

LEMMA AddKeeps ==
  ASSUME NEW S, NEW a, NEW b
  PROVE  Keeps(S, addByteWithCarry(S, a, b).iStatus)
<1>. DEFINE iSum == IF F_DECIMAL \in S THEN addBCDWithCarry(S, a, b) ELSE Carry(S) + b + a
            iRes == iSum % 256
            overflow == /\ Negative(b) = Negative(a)
                        /\ Negative(b) # Negative(iRes)
<1>1. addByteWithCarry(S, a, b).iStatus
        = (S \ F_NZCV) \cup NZ(iRes) \cup FlagIf(F_CARRY, Bit8(iSum))
            \cup FlagIf(F_OVERFLOW, overflow)
  BY Zenon DEF addByteWithCarry
<1>. HIDE DEF iRes, iSum, overflow
<1>. QED
  BY <1>1, SumKeeps

LEMMA SubKeeps ==
  ASSUME NEW S, NEW a, NEW b
  PROVE  Keeps(S, subByteWithCarry(S, a, b).iStatus)
<1>. DEFINE iDiff == IF F_DECIMAL \in S THEN subBCDWithCarry(S, a, b)
                     ELSE a - b - (1 - Carry(S))
            iRes == iDiff % 256
            overflow == /\ Negative(b) # Negative(a)
                        /\ Negative(a) # Negative(iRes)
<1>1. subByteWithCarry(S, a, b).iStatus
        = (S \ F_NZCV) \cup NZ(iRes) \cup FlagIf(F_CARRY, ~Bit8(iDiff))
            \cup FlagIf(F_OVERFLOW, overflow)
  BY Zenon DEF subByteWithCarry
<1>. HIDE DEF iRes, iDiff, overflow
<1>. QED
  BY <1>1, SumKeeps

-----------------------------------------------------------------------------
(***************************************************************************)
(* The handlers.                                                           *)
(***************************************************************************)
FlagStep == ResultStep /\ ModeStep

LEMMA KeepsStep ==
  ASSUME Keeps(iStatus, iStatus')
  PROVE  FlagStep
  BY DEF Keeps, FlagStep, ResultStep, ModeStep

LEMMA SetAccumulatorFlags ==
  ASSUME NEW mode, NEW v, NEW s, SetAccumulator(mode, v, s), Keeps(iStatus, s)
  PROVE  FlagStep
  BY KeepsStep DEF SetAccumulator

LEMMA SetStatusFlags ==
  ASSUME NEW mode, NEW s, SetStatus(mode, s), Keeps(iStatus, s)
  PROVE  FlagStep
  BY KeepsStep DEF SetStatus

LEMMA SetIndexFlags ==
  ASSUME NEW mode, NEW v, SetX(mode, v) \/ SetY(mode, v)
  PROVE  FlagStep
  BY UpdateNZKeeps, KeepsStep DEF SetX, SetY

LEMMA StoreFlags ==
  ASSUME NEW mode, NEW v, NEW s, store(mode, v, s), Keeps(iStatus, s)
  PROVE  FlagStep
  BY KeepsStep DEF store

LEMMA ShiftFlags ==
  ASSUME NEW mode, NEW r, Shift(mode, r), Keeps(iStatus, r.iStatus)
  PROVE  FlagStep
  BY SetAccumulatorFlags, StoreFlags DEF Shift

LEMMA SameFlags ==
  ASSUME UNCHANGED iStatus
  PROVE  FlagStep
  BY KeepsItself, KeepsStep

LEMMA TransferFlags == ASSUME Transfer PROVE FlagStep
<1>1. CASE LDA \/ TXA \/ TYA
  BY <1>1, UpdateNZKeeps, SetAccumulatorFlags DEF LDA, TXA, TYA
<1>2. CASE LDX \/ LDY
  BY <1>2, SetIndexFlags DEF LDX, LDY
<1>3. CASE TAX \/ TAY \/ TSX
  BY <1>3, SetIndexFlags DEF TAX, TAY, TSX
<1>4. CASE STA \/ STX \/ STY
  BY <1>4, KeepsItself, StoreFlags DEF STA, STX, STY
<1>5. CASE TXS
  BY <1>5, SameFlags DEF TXS
<1>. QED
  BY <1>1, <1>2, <1>3, <1>4, <1>5 DEF Transfer

LEMMA ArithmeticFlags == ASSUME Arithmetic PROVE FlagStep
<1>1. CASE ADC \/ SBC
  BY <1>1, AddKeeps, SubKeeps, SetAccumulatorFlags DEF ADC, SBC
<1>2. CASE AND \/ ORA \/ EOR
  BY <1>2, UpdateNZKeeps, SetAccumulatorFlags DEF AND, ORA, EOR, Logic
<1>3. CASE CMP \/ CPX \/ CPY
  BY <1>3, CmpByteKeeps, SetStatusFlags DEF CMP, CPX, CPY
<1>4. CASE BIT
  <2>1. PICK mode \in Fetched("BIT") : iStatus' = bitTest(iStatus, iAccumulator, load(mode))
    BY <1>4 DEF BIT, SetStatus
  <2>2. Fetched("BIT") # {}
    BY <2>1
  <2>3. \A S, a, b : /\ bitTest(S, a, b) \cap {F_DECIMAL} = S \cap {F_DECIMAL}
                     /\ bitTest(S, a, b) \cap {F_INTERRUPT} = S \cap {F_INTERRUPT}
    BY DEF bitTest, FlagIf, F_NZV, F_DECIMAL, F_INTERRUPT, F_NEGATIVE, F_ZERO, F_OVERFLOW
  <2>. QED
    BY <2>1, <2>2, <2>3 DEF FlagStep, ResultStep, ModeStep
<1>. QED
  BY <1>1, <1>2, <1>3, <1>4 DEF Arithmetic

LEMMA CountFlags == ASSUME Count PROVE FlagStep
<1>1. CASE DEX \/ DEY \/ INX \/ INY
  BY <1>1, SetIndexFlags DEF DEX, DEY, INX, INY
<1>2. CASE DEC \/ INC
  BY <1>2, UpdateNZKeeps, StoreFlags DEF DEC, INC, Update
<1>3. CASE ASL \/ LSR
  BY <1>3, ShiftedKeeps, ShiftFlags DEF ASL, LSR, shiftLeftWithCarry, shiftRightWithCarry
<1>4. CASE ROL \/ ROR
  BY <1>4, ShiftedKeeps, ShiftFlags DEF ROL, ROR, rotateLeftWithCarry, rotateRightWithCarry
<1>. QED
  BY <1>1, <1>2, <1>3, <1>4 DEF Count

\* An instruction that names a mode flag changes that one.
LEMMA FlowFlags == ASSUME Flow PROVE FlagStep
<1>1. CASE CLC \/ CLV \/ SEC
  BY <1>1, KeepsCarry, SetStatusFlags DEF CLC, CLV, SEC, Clear, Set
<1>2. CASE NOP
  BY <1>2, KeepsItself, SetStatusFlags DEF NOP
<1>3. CASE CLD \/ SED
  <2>1. PICK op \in {"CLD", "SED"} :
          Fetched(op) # {} /\ iStatus' \in {iStatus \ {F_DECIMAL}, iStatus \cup {F_DECIMAL}}
    BY <1>3 DEF CLD, SED, Clear, Set, SetStatus
  <2>. QED
    BY <2>1, Masks DEF FlagStep, ResultStep, ModeStep
<1>4. CASE CLI \/ SEI
  <2>1. PICK op \in {"CLI", "SEI"} :
          Fetched(op) # {} /\ iStatus' \in {iStatus \ {F_INTERRUPT}, iStatus \cup {F_INTERRUPT}}
    BY <1>4 DEF CLI, SEI, Clear, Set, SetStatus
  <2>. QED
    BY <2>1, Masks DEF FlagStep, ResultStep, ModeStep
<1>5. ASSUME NEW op, NEW taken, Branch(op, taken) PROVE FlagStep
  BY <1>5, SameFlags DEF Branch, registers
<1>6. CASE BCC \/ BCS \/ BEQ \/ BNE
  BY <1>5, <1>6 DEF BCC, BCS, BEQ, BNE
<1>7. CASE BMI \/ BPL \/ BVC \/ BVS
  BY <1>5, <1>7 DEF BMI, BPL, BVC, BVS
<1>. QED
  BY <1>1, <1>2, <1>3, <1>4, <1>6, <1>7 DEF Flow

LEMMA JumpFlags == ASSUME Jump PROVE FlagStep
<1>1. CASE PHA \/ PHP
  BY <1>1, SameFlags DEF PHA, PHP
<1>2. CASE PLA
  BY <1>2, UpdateNZKeeps, KeepsStep DEF PLA
<1>3. CASE PLP \/ RTI
  <2>1. PICK op \in {"PLP", "RTI"} : Fetched(op) # {}
    BY <1>3 DEF PLP, RTI
  <2>. QED
    BY <2>1 DEF FlagStep, ResultStep, ModeStep
<1>4. CASE JMP_AB \/ JMP_IN
  BY <1>4, SameFlags DEF JMP_AB, JMP_IN, registers
<1>5. CASE JSR \/ RTS
  BY <1>5, SameFlags DEF JSR, RTS
<1>6. CASE BRK
  <2>1. Fetched("BRK") # {} /\ iStatus' = iStatus \cup {F_INTERRUPT}
    BY <1>6 DEF BRK
  <2>. QED
    BY <2>1, Masks DEF FlagStep, ResultStep, ModeStep
<1>. QED
  BY <1>1, <1>2, <1>3, <1>4, <1>5, <1>6 DEF Jump

\* No assumption on the state is needed: the masks of the handlers suffice.
LEMMA EveryFlagStep == ASSUME [Next]_vars PROVE FlagStep
<1>1. CASE Instruction
  BY <1>1, TransferFlags, ArithmeticFlags, CountFlags, FlowFlags, JumpFlags DEF Instruction
<1>2. CASE \E iAddress \in EntryPoints : setProgramCounter(iAddress)
  BY <1>2, SameFlags DEF setProgramCounter, registers
<1>3. CASE run
  BY <1>3, SameFlags DEF run, registers
<1>4. CASE Exit
  BY <1>4, SameFlags DEF Exit, JumpToSelf, illegal, return, registers
<1>5. CASE UNCHANGED vars
  BY <1>5, SameFlags DEF vars, registers
<1>. QED
  BY <1>1, <1>2, <1>3, <1>4, <1>5 DEF Next

\* In every program the decimal and interrupt flags change by the instructions
\* that name them, by a pull of the status and by BRK only.
THEOREM ModesKept == Spec => ModeFlags
<1>1. [Next]_vars => [ModeStep]_vars
  BY EveryFlagStep DEF FlagStep
<1>. QED
  BY <1>1, PTL DEF Spec, ModeFlags

\* In every program N and Z are set together by BIT, PLP and RTI only.
THEOREM ResultsExclusive == Spec => ResultFlags
<1>1. [Next]_vars => [ResultStep]_vars
  BY EveryFlagStep DEF FlagStep
<1>. QED
  BY <1>1, PTL DEF Spec, ResultFlags

-----------------------------------------------------------------------------
(***************************************************************************)
(* Indirect jumps.                                                         *)
(***************************************************************************)
LEMMA NextInPage ==
  ASSUME NEW p \in Int
  PROVE  p - (p % 256) + ((p + 1) % 256) = IF p % 256 = 255 THEN p - 255 ELSE p + 1
<1>. DEFINE r == p % 256
            q == p \div 256
<1>1. p = 256 * q + r /\ r \in 0 .. 255 /\ q \in Int
  OBVIOUS
<1>. HIDE DEF r, q
<1>2. (256 * q + r + 1) % 256 = IF r = 255 THEN 0 ELSE r + 1
  BY <1>1
<1>3. (p + 1) % 256 = IF r = 255 THEN 0 ELSE r + 1
  BY <1>1, <1>2
<1>. QED
  BY <1>1, <1>3 DEF r

LEMMA IndirectStepHolds ==
  ASSUME Inv, [Next]_vars, ~ UNCHANGED vars
  PROVE  IndirectStep
<1>. SUFFICES ASSUME Fetched("JMP") = {"IND"} PROVE iProgramCounter' = WordInPage(operand)
  BY DEF IndirectStep
<1>. DEFINE low  == readByte(aBytes, operand)
            next == operand - (operand % 256) + ((operand + 1) % 256)
<1>1. JMP_IN
  BY HandlerTaken, OpcodeNames DEF Handler, JMP_AB, JumpToSelf
<1>2. next = IF LowByte(operand) = 255 THEN operand - 255 ELSE operand + 1
  BY JumpTarget, NextInPage DEF LowByte
<1>3. WordInPage(operand) = low + 256 * readByte(aBytes, next)
  BY DEF WordInPage
<1>4. WordInPage(operand) \in Address
  BY <1>3, Registers, ReadByteType, WordType
<1>5. iProgramCounter' = WordInPage(operand) % MEM_SIZE
  BY <1>1, <1>2, <1>3 DEF JMP_IN, goto, readWord
<1>. QED
  BY <1>4, <1>5, AddressFits

\* In every program the pointer of an indirect jump stays in its page.
THEOREM PointerInPage == Spec => JumpPointerInPage
<1>1. Inv /\ [Next]_vars => [IndirectStep]_vars
  BY IndirectStepHolds
<1>. QED
  BY <1>1, Invariance, PTL DEF Spec, JumpPointerInPage

-----------------------------------------------------------------------------
(***************************************************************************)
(* ADC and SBC compute sums and differences, for every accumulator,        *)
(* operand and carry: in binary for all bytes, with the overflow flag that *)
(* signed numbers need, and in decimal mode for all bytes that are digits. *)
(***************************************************************************)
\* What the code gets from the unadjusted sum n: bit 8, and the byte.
Over(n) == IF Bit8(n) THEN 1 ELSE 0

\* The byte and bit 8 of n are the sum of a, b and the carry c.
SumIs(n, a, b, c) ==
  /\ (n % 256) + 256 * Over(n) = a + b + c
  /\ (Negative(b) = Negative(a) /\ Negative(b) # Negative(n % 256))
       <=> Signed(a) + Signed(b) + c \notin -128 .. 127

\* The byte of n, and a borrow that is its bit 8, are a without b and the
\* borrow that a missing carry is.
DifferenceIs(n, a, b, c) ==
  /\ (n % 256) - 256 * Over(n) = a - b - (1 - c)
  /\ (Negative(b) # Negative(a) /\ Negative(a) # Negative(n % 256))
       <=> Signed(a) - Signed(b) - (1 - c) \notin -128 .. 127

LEMMA BinarySum ==
  ASSUME NEW a \in Byte, NEW b \in Byte, NEW c \in {0, 1}, NEW n, n = c + b + a
  PROVE  SumIs(n, a, b, c)
<1>1. n \in 0 .. 511
  BY DEF Byte
<1>2. n % 512 = n /\ n % 256 = IF n < 256 THEN n ELSE n - 256
  BY <1>1
<1>. QED
  BY <1>1, <1>2 DEF SumIs, Over, Bit8, Byte, Negative, Signed

LEMMA BinaryDifference ==
  ASSUME NEW a \in Byte, NEW b \in Byte, NEW c \in {0, 1}, NEW n, n = a - b - (1 - c)
  PROVE  DifferenceIs(n, a, b, c)
<1>1. n \in -256 .. 255
  BY DEF Byte
<1>2. /\ n % 512 = IF n < 0 THEN n + 512 ELSE n
      /\ n % 256 = IF n < 0 THEN n + 256 ELSE n
  BY <1>1
<1>. QED
  BY <1>1, <1>2 DEF DifferenceIs, Over, Bit8, Byte, Negative, Signed

-----------------------------------------------------------------------------
(***************************************************************************)
(* Decimal mode.                                                           *)
(***************************************************************************)
Digit == 0 .. 9

\* The byte that shows two digits.
Shown(h, l) == 16 * h + l

LEMMA ShownDigits ==
  ASSUME NEW h \in Digit, NEW l \in Digit
  PROVE  /\ Shown(h, l) \in Byte
         /\ LowNybble(Shown(h, l)) = l /\ HighNybble(Shown(h, l)) = 16 * h
         /\ Shown(h, l) \div 16 = h /\ Shown(h, l) % 16 = l
  BY DEF Digit, Shown, Byte, LowNybble, HighNybble

LEMMA DigitsShown ==
  ASSUME NEW a \in Byte, a % 16 < 10, a \div 16 < 10
  PROVE  \E h, l \in Digit : a = Shown(h, l)
<1>1. a \div 16 \in Digit /\ a % 16 \in Digit /\ a = 16 * (a \div 16) + (a % 16)
  BY DEF Byte, Digit
<1>. QED
  BY <1>1 DEF Shown

\* Two digits l and h, with bit 8 above them when k is 1.
LEMMA JoinedDigits ==
  ASSUME NEW m \in 0 .. 31, NEW n \in 0 .. 31
  PROVE  Joined(16 * m, n) = 16 * m + (n % 16)
<1>1. (16 * m) % 512 = 16 * m
  BY SMT
<1>2. (16 * m) % 16 = 0
  BY SMT
<1>. QED
  BY <1>1, <1>2 DEF Joined, HighNybble, LowNybble

LEMMA BytesOfDigits ==
  ASSUME NEW h \in Digit, NEW l \in Digit
  PROVE  /\ Shown(h, l) % 256 = Shown(h, l) /\ ~Bit8(Shown(h, l))
         /\ (256 + Shown(h, l)) % 256 = Shown(h, l) /\ Bit8(256 + Shown(h, l))
  BY DEF Digit, Shown, Bit8

\* n shows the digits of i, with bit 8 set when i is k hundreds above them.
ShowsSum(n, i) == \E h, l \in Digit : \E k \in {0, 1} :
                    n = 256 * k + Shown(h, l) /\ 10 * h + l + 100 * k = i

\* The same for i that many hundreds below them.
ShowsDifference(n, i) == \E h, l \in Digit : \E k \in {0, 1} :
                           n = 256 * k + Shown(h, l) /\ 10 * h + l - 100 * k = i

\* The adjusted sum of two digits and a carry, and of the digits above them.
LEMMA DecimalSum ==
  ASSUME NEW S, NEW ah \in Digit, NEW al \in Digit, NEW bh \in Digit, NEW bl \in Digit
  PROVE  ShowsSum(addBCDWithCarry(S, Shown(ah, al), Shown(bh, bl)),
                  10 * ah + al + 10 * bh + bl + Carry(S))
<1>. DEFINE c  == Carry(S)
            sl == al + bl + c
            i  == IF sl > 9 THEN 1 ELSE 0
            sh == ah + bh + i
            k  == IF sh > 9 THEN 1 ELSE 0
            l  == sl - 10 * i
            h  == sh - 10 * k
<1>1. c \in {0, 1}
  BY CarryType
<1>. HIDE DEF c
<1>2. /\ sl \in 0 .. 19 /\ i \in {0, 1} /\ l \in Digit
      /\ (IF sl > 9 THEN sl + 6 ELSE sl) = 16 * i + l
  BY <1>1 DEF Digit
<1>3. sl + 10 * ah + 10 * bh = 10 * ah + al + 10 * bh + bl + c
  BY <1>1 DEF Digit
<1>4. addBCDWithCarry(S, Shown(ah, al), Shown(bh, bl)) =
        Joined(IF 16 * sh > 144 THEN 16 * sh + 96 ELSE 16 * sh, IF sl > 9 THEN sl + 6 ELSE sl)
  <2>1. 16 * ah + 16 * bh + (IF sl > 9 THEN 16 ELSE 0) = 16 * sh
    BY <1>2 DEF Digit
  <2>. QED
    BY <2>1, ShownDigits DEF addBCDWithCarry, c
<1>. HIDE DEF sl
<1>5. sl = 10 * i + l
  BY <1>2
<1>. HIDE DEF i, l
<1>6. /\ sh \in 0 .. 19 /\ k \in {0, 1} /\ h \in Digit
      /\ (IF 16 * sh > 144 THEN 16 * sh + 96 ELSE 16 * sh) = 16 * (16 * k + h)
      /\ sh = 10 * k + h
  BY <1>2 DEF Digit
<1>7. 10 * h + l + 100 * k = 10 * ah + al + 10 * bh + bl + c
  <2>1. sh = ah + bh + i
    OBVIOUS
  <2>. QED
    BY <1>1, <1>2, <1>3, <1>5, <1>6, <2>1 DEF Digit
<1>. HIDE DEF sh, k, h
<1>8. 16 * k + h \in 0 .. 31 /\ 16 * i + l \in 0 .. 31 /\ (16 * i + l) % 16 = l
  BY <1>2, <1>6 DEF Digit
<1>9. Joined(16 * (16 * k + h), 16 * i + l) = 16 * (16 * k + h) + l
  BY <1>8, JoinedDigits
<1>10. 16 * (16 * k + h) + l = 256 * k + Shown(h, l)
  BY <1>2, <1>6 DEF Digit, Shown
<1>. QED
  BY <1>2, <1>4, <1>6, <1>7, <1>9, <1>10 DEF c, ShowsSum

\* The same with a borrow i taken from the digits before the low nybble is cut off.
LEMMA JoinedBorrow ==
  ASSUME NEW m \in -15 .. 9, NEW i \in {0, 1}, NEW n \in -16 .. 15
  PROVE  Joined(16 * m - i, n) = 16 * (IF m < i THEN m - i + 32 ELSE m - i) + (n % 16)
<1>. DEFINE q == (16 * m - i) % 512
            e == IF m < i THEN m - i + 32 ELSE m - i
<1>1. q = IF m < i THEN 16 * m - i + 512 ELSE 16 * m - i
  BY SMT
<1>2. q - (q % 16) = 16 * e
  <2>1. q = 16 * e + 15 * i
    BY <1>1
  <2>2. e \in 0 .. 31
    OBVIOUS
  <2>. HIDE DEF q, e
  <2>3. (16 * e + 15 * i) % 16 = 15 * i
    BY <2>2
  <2>. QED
    BY <2>1, <2>2, <2>3
<1>. HIDE DEF e
<1>. QED
  BY <1>2 DEF Joined, HighNybble, LowNybble, e

\* The adjusted difference of two digits with a borrow, and of the digits above them.
LEMMA DecimalDifference ==
  ASSUME NEW S, NEW ah \in Digit, NEW al \in Digit, NEW bh \in Digit, NEW bl \in Digit
  PROVE  ShowsDifference(subBCDWithCarry(S, Shown(ah, al), Shown(bh, bl)),
                         10 * ah + al - (10 * bh + bl) - (1 - Carry(S)))
<1>. DEFINE c  == Carry(S)
            dl == al - bl - (1 - c)
            i  == IF dl < 0 THEN 1 ELSE 0
            m  == ah - bh
            k  == IF m < i THEN 1 ELSE 0
            l  == dl + 10 * i
            h  == m - i + 10 * k
<1>1. c \in {0, 1}
  BY CarryType
<1>. HIDE DEF c
<1>2. /\ dl \in -10 .. 9 /\ i \in {0, 1} /\ l \in Digit
      /\ (dl % 32 >= 16) <=> i = 1
      /\ (dl < 0) <=> i = 1
  BY <1>1 DEF Digit
<1>3. m \in -9 .. 9 /\ k \in {0, 1} /\ h \in Digit
  BY <1>2 DEF Digit
<1>4. 10 * h + l - 100 * k = 10 * ah + al - (10 * bh + bl) - (1 - c)
  <2>1. 10 * h = 10 * ah - 10 * bh - 10 * i + 100 * k
    BY <1>2, <1>3 DEF Digit
  <2>2. l = al - bl - (1 - c) + 10 * i
    BY <1>2
  <2>. HIDE DEF l, h, k, i
  <2>. QED
    BY <1>1, <1>2, <1>3, <2>1, <2>2 DEF Digit
<1>. HIDE DEF dl
<1>5. (IF dl % 32 >= 16 THEN dl - 6 ELSE dl) = dl - 6 * i
  BY <1>2
<1>6. (dl - 6 * i) % 16 = l /\ dl - 6 * i \in -16 .. 15
  BY <1>2 DEF Digit
<1>. HIDE DEF i, l
<1>7. ((16 * m - i) % 512 >= 256) <=> k = 1
  BY <1>2, <1>3
<1>8. subBCDWithCarry(S, Shown(ah, al), Shown(bh, bl)) = Joined(16 * (m - 6 * k) - i, dl - 6 * i)
  <2>1. 16 * ah - 16 * bh - (IF dl % 32 >= 16 THEN 1 ELSE 0) = 16 * m - i
    BY <1>2 DEF Digit
  <2>. DEFINE p == 16 * m - i
              q == dl - 6 * i
  <2>2. subBCDWithCarry(S, Shown(ah, al), Shown(bh, bl)) =
          Joined(IF p % 512 >= 256 THEN p - 96 ELSE p, q)
    BY <1>5, <2>1, ShownDigits DEF subBCDWithCarry, c, dl
  <2>3. (IF p % 512 >= 256 THEN p - 96 ELSE p) = 16 * (m - 6 * k) - i
    <3>. HIDE DEF m, k
    <3>1. (k = 1 => p - 96 = 16 * (m - 6 * k) - i) /\ (k = 0 => p = 16 * (m - 6 * k) - i)
      BY <1>2, <1>3
    <3>2. (p % 512 >= 256) <=> k = 1
      BY <1>7
    <3>. HIDE DEF p
    <3>. QED
      BY <1>3, <3>1, <3>2
  <2>. HIDE DEF p
  <2>. QED
    BY <2>2, <2>3
<1>9. /\ m - 6 * k \in -15 .. 9
      /\ 16 * (IF m - 6 * k < i THEN m - 6 * k - i + 32 ELSE m - 6 * k - i) = 256 * k + 16 * h
  BY <1>2, <1>3
<1>10. Joined(16 * (m - 6 * k) - i, dl - 6 * i) = 256 * k + 16 * h + l
  <2>. DEFINE p == m - 6 * k
              q == dl - 6 * i
              e == IF p < i THEN p - i + 32 ELSE p - i
  <2>1. p \in -15 .. 9 /\ q \in -16 .. 15 /\ 16 * e = 256 * k + 16 * h /\ q % 16 = l
    BY <1>6, <1>9
  <2>. HIDE DEF m, k, h, p, q
  <2>2. Joined(16 * p - i, q) = 16 * e + (q % 16)
    BY <1>2, <2>1, JoinedBorrow
  <2>. QED
    BY <2>1, <2>2 DEF p, q
<1>. HIDE DEF h, k, m
<1>11. 256 * k + 16 * h + l = 256 * k + Shown(h, l)
  BY <1>2, <1>3 DEF Digit, Shown
<1>12. subBCDWithCarry(S, Shown(ah, al), Shown(bh, bl)) = 256 * k + Shown(h, l)
  BY <1>8, <1>10, <1>11
<1>. SUFFICES /\ subBCDWithCarry(S, Shown(ah, al), Shown(bh, bl)) = 256 * k + Shown(h, l)
             /\ 10 * h + l - 100 * k = 10 * ah + al - (10 * bh + bl) - (1 - Carry(S))
  <2>1. h \in Digit /\ l \in Digit /\ k \in {0, 1}
    BY <1>2, <1>3
  <2>. QED
    BY <2>1, ZenonT(30) DEF ShowsDifference
<1>. QED
  BY <1>4, <1>12 DEF c

-----------------------------------------------------------------------------
(***************************************************************************)
(* What ADC and SBC leave in the accumulator and the flags.                *)
(***************************************************************************)
SumStatus(S, n, c, v) ==
  (S \ F_NZCV) \cup NZ(n) \cup FlagIf(F_CARRY, c) \cup FlagIf(F_OVERFLOW, v)

LEMMA FlagsOfSum ==
  ASSUME NEW S, NEW n, NEW c \in BOOLEAN, NEW v \in BOOLEAN
  PROVE  /\ Carry(SumStatus(S, n, c, v)) = (IF c THEN 1 ELSE 0)
         /\ F_OVERFLOW \in SumStatus(S, n, c, v) <=> v
<1>1. F_CARRY \in F_NZCV /\ F_OVERFLOW \in F_NZCV /\ F_CARRY # F_OVERFLOW
  BY DEF F_NZCV, F_CARRY, F_OVERFLOW
<1>2. F_CARRY \notin NZ(n) /\ F_OVERFLOW \notin NZ(n)
  BY DEF NZ, FlagIf, F_CARRY, F_OVERFLOW, F_ZERO, F_NEGATIVE
<1>. QED
  BY <1>1, <1>2 DEF SumStatus, FlagIf, Carry

LEMMA AddBinary ==
  ASSUME NEW S, NEW a \in Byte, NEW b \in Byte, F_DECIMAL \notin S
  PROVE  LET r == addByteWithCarry(S, a, b)
         IN  /\ r.iValue + 256 * Carry(r.iStatus) = a + b + Carry(S)
             /\ F_OVERFLOW \in r.iStatus <=> Signed(a) + Signed(b) + Carry(S) \notin -128 .. 127
<1>. DEFINE n == Carry(S) + b + a
            v == Negative(b) = Negative(a) /\ Negative(b) # Negative(n % 256)
            r == addByteWithCarry(S, a, b)
<1>1. /\ r.iValue = n % 256
      /\ r.iStatus = SumStatus(S, n % 256, Bit8(n), v)
  BY Zenon DEF addByteWithCarry, SumStatus
<1>2. /\ (n % 256) + 256 * Over(n) = a + b + Carry(S)
      /\ v <=> Signed(a) + Signed(b) + Carry(S) \notin -128 .. 127
  <2>. DEFINE c == Carry(S)
  <2>1. c \in {0, 1} /\ n = c + b + a
    BY CarryType
  <2>. HIDE DEF c, n
  <2>2. SumIs(n, a, b, c)
    BY <2>1, BinarySum
  <2>. QED
    BY <2>2, Zenon DEF SumIs, c
<1>3. Bit8(n) \in BOOLEAN /\ v \in BOOLEAN
  BY DEF Bit8
<1>. HIDE DEF n, v, r
<1>4. Carry(r.iStatus) = Over(n) /\ (F_OVERFLOW \in r.iStatus <=> v)
  BY <1>1, <1>3, FlagsOfSum DEF Over
<1>. QED
  BY <1>1, <1>2, <1>4 DEF r

LEMMA SubBinary ==
  ASSUME NEW S, NEW a \in Byte, NEW b \in Byte, F_DECIMAL \notin S
  PROVE  LET r == subByteWithCarry(S, a, b)
         IN  /\ r.iValue - 256 * (1 - Carry(r.iStatus)) = a - b - (1 - Carry(S))
             /\ F_OVERFLOW \in r.iStatus
                  <=> Signed(a) - Signed(b) - (1 - Carry(S)) \notin -128 .. 127
<1>. DEFINE n == a - b - (1 - Carry(S))
            v == Negative(b) # Negative(a) /\ Negative(a) # Negative(n % 256)
            covers == ~Bit8(n)
            r == subByteWithCarry(S, a, b)
<1>1. /\ r.iValue = n % 256
      /\ r.iStatus = SumStatus(S, n % 256, covers, v)
  BY Zenon DEF subByteWithCarry, SumStatus
<1>2. /\ (n % 256) - 256 * Over(n) = a - b - (1 - Carry(S))
      /\ v <=> Signed(a) - Signed(b) - (1 - Carry(S)) \notin -128 .. 127
  <2>. DEFINE c == Carry(S)
  <2>1. c \in {0, 1} /\ n = a - b - (1 - c)
    BY CarryType
  <2>. HIDE DEF c, n
  <2>2. DifferenceIs(n, a, b, c)
    BY <2>1, BinaryDifference
  <2>. QED
    BY <2>2, Zenon DEF DifferenceIs, c
<1>3. covers \in BOOLEAN /\ v \in BOOLEAN
  BY DEF Bit8
<1>. HIDE DEF n, v, r, covers
<1>4. Carry(r.iStatus) = (IF covers THEN 1 ELSE 0) /\ (F_OVERFLOW \in r.iStatus <=> v)
  BY <1>1, <1>3, FlagsOfSum
<1>5. 1 - Carry(r.iStatus) = Over(n)
  BY <1>4 DEF Over, covers
<1>. QED
  BY <1>1, <1>2, <1>4, <1>5 DEF r

\* A byte is two digits, and the number they make.
Two(n) == n % 16 < 10 /\ n \div 16 < 10
Tens(n) == 10 * (n \div 16) + (n % 16)

LEMMA TensShown ==
  ASSUME NEW h \in Digit, NEW l \in Digit
  PROVE  Two(Shown(h, l)) /\ Tens(Shown(h, l)) = 10 * h + l
<1>1. Shown(h, l) \div 16 = h /\ Shown(h, l) % 16 = l
  BY ShownDigits
<1>. QED
  BY <1>1 DEF Two, Tens, Digit

\* The byte and bit 8 of an adjusted result.
LEMMA SplitResult ==
  ASSUME NEW h \in Digit, NEW l \in Digit, NEW k \in {0, 1}, NEW n, n = 256 * k + Shown(h, l)
  PROVE  n % 256 = Shown(h, l) /\ Over(n) = k
<1>1. CASE k = 0
  BY <1>1, BytesOfDigits, ShownDigits DEF Over, Byte
<1>2. CASE k = 1
  BY <1>2, BytesOfDigits, ShownDigits DEF Over, Byte
<1>. QED
  BY <1>1, <1>2

LEMMA AddDecimal ==
  ASSUME NEW S, NEW a \in Byte, NEW b \in Byte, F_DECIMAL \in S, Two(a), Two(b)
  PROVE  LET r == addByteWithCarry(S, a, b)
         IN  /\ Two(r.iValue)
             /\ Tens(r.iValue) + 100 * Carry(r.iStatus) = Tens(a) + Tens(b) + Carry(S)
<1>. DEFINE n == addBCDWithCarry(S, a, b)
            v == Negative(b) = Negative(a) /\ Negative(b) # Negative(n % 256)
            r == addByteWithCarry(S, a, b)
<1>1. /\ r.iValue = n % 256
      /\ r.iStatus = SumStatus(S, n % 256, Bit8(n), v)
  BY Zenon DEF addByteWithCarry, SumStatus
<1>2. PICK ah \in Digit, al \in Digit, bh \in Digit, bl \in Digit :
        a = Shown(ah, al) /\ b = Shown(bh, bl)
  BY DigitsShown DEF Two
<1>3. PICK h \in Digit, l \in Digit, k \in {0, 1} :
        /\ n = 256 * k + Shown(h, l)
        /\ 10 * h + l + 100 * k = 10 * ah + al + 10 * bh + bl + Carry(S)
  <2>1. ShowsSum(n, 10 * ah + al + 10 * bh + bl + Carry(S))
    BY <1>2, DecimalSum
  <2>. HIDE DEF n
  <2>. QED
    BY <2>1 DEF ShowsSum
<1>4. Bit8(n) \in BOOLEAN /\ v \in BOOLEAN
  BY DEF Bit8
<1>. HIDE DEF n, v, r
<1>5. n % 256 = Shown(h, l) /\ Over(n) = k
  BY <1>3, SplitResult
<1>6. Carry(r.iStatus) = k
  BY <1>1, <1>4, <1>5, FlagsOfSum DEF Over
<1>7. /\ Tens(a) = 10 * ah + al /\ Tens(b) = 10 * bh + bl
      /\ Two(r.iValue) /\ Tens(r.iValue) = 10 * h + l
  BY <1>1, <1>2, <1>5, TensShown
<1>8. Tens(r.iValue) + 100 * Carry(r.iStatus) = Tens(a) + Tens(b) + Carry(S)
  <2>1. Carry(S) \in {0, 1} /\ Carry(r.iStatus) \in {0, 1}
    BY CarryType
  <2>. QED
    BY <1>3, <1>6, <1>7, <2>1 DEF Digit
<1>. QED
  BY <1>7, <1>8 DEF r

LEMMA SubDecimal ==
  ASSUME NEW S, NEW a \in Byte, NEW b \in Byte, F_DECIMAL \in S, Two(a), Two(b)
  PROVE  LET r == subByteWithCarry(S, a, b)
         IN  /\ Two(r.iValue)
             /\ Tens(r.iValue) - 100 * (1 - Carry(r.iStatus)) = Tens(a) - Tens(b) - (1 - Carry(S))
<1>. DEFINE n == subBCDWithCarry(S, a, b)
            v == Negative(b) # Negative(a) /\ Negative(a) # Negative(n % 256)
            covers == ~Bit8(n)
            r == subByteWithCarry(S, a, b)
<1>1. /\ r.iValue = n % 256
      /\ r.iStatus = SumStatus(S, n % 256, covers, v)
  BY Zenon DEF subByteWithCarry, SumStatus
<1>2. PICK ah \in Digit, al \in Digit, bh \in Digit, bl \in Digit :
        a = Shown(ah, al) /\ b = Shown(bh, bl)
  BY DigitsShown DEF Two
<1>3. PICK h \in Digit, l \in Digit, k \in {0, 1} :
        /\ n = 256 * k + Shown(h, l)
        /\ 10 * h + l - 100 * k = 10 * ah + al - (10 * bh + bl) - (1 - Carry(S))
  <2>1. ShowsDifference(n, 10 * ah + al - (10 * bh + bl) - (1 - Carry(S)))
    BY <1>2, DecimalDifference
  <2>. HIDE DEF n
  <2>. QED
    BY <2>1 DEF ShowsDifference
<1>4. covers \in BOOLEAN /\ v \in BOOLEAN
  BY DEF Bit8
<1>. HIDE DEF n, v, r, covers
<1>5. n % 256 = Shown(h, l) /\ Over(n) = k
  BY <1>3, SplitResult
<1>6. 1 - Carry(r.iStatus) = k
  <2>1. Carry(r.iStatus) = (IF covers THEN 1 ELSE 0)
    BY <1>1, <1>4, FlagsOfSum
  <2>. QED
    BY <1>5, <2>1 DEF Over, covers
<1>7. /\ Tens(a) = 10 * ah + al /\ Tens(b) = 10 * bh + bl
      /\ Two(r.iValue) /\ Tens(r.iValue) = 10 * h + l
  BY <1>1, <1>2, <1>5, TensShown
<1>8. Tens(r.iValue) - 100 * (1 - Carry(r.iStatus)) = Tens(a) - Tens(b) - (1 - Carry(S))
  <2>1. Carry(S) \in {0, 1} /\ Carry(r.iStatus) \in {0, 1}
    BY CarryType
  <2>. QED
    BY <1>3, <1>6, <1>7, <2>1 DEF Digit
<1>. QED
  BY <1>7, <1>8 DEF r

-----------------------------------------------------------------------------
(***************************************************************************)
(* The step of a fetched ADC or SBC is that of its handler.                *)
(***************************************************************************)
LEMMA HandlerAlone ==
  ASSUME [Next]_vars, ~ UNCHANGED vars
  PROVE  /\ Fetched("ADC") # {} => ADC
         /\ Fetched("SBC") # {} => SBC
  BY HandlerTaken, OpcodeNames DEF Handler

LEMMA OneMode ==
  ASSUME NEW op \in DOMAIN Opcode, NEW mode \in Fetched(op)
  PROVE  Fetched(op) = {mode}
  BY OneInstruction

LEMMA SumStepHolds ==
  ASSUME Inv, [Next]_vars, ~ UNCHANGED vars
  PROVE  SumStep
<1>. SUFFICES ASSUME NEW mode \in Fetched("ADC"), IsNumber(iAccumulator), IsNumber(load(mode))
              PROVE  /\ IsNumber(iAccumulator')
                     /\ NumberOf(iAccumulator') + Numbers * Carry(iStatus')
                          = NumberOf(iAccumulator) + NumberOf(load(mode)) + Carry(iStatus)
                     /\ F_DECIMAL \notin iStatus =>
                          (F_OVERFLOW \in iStatus'
                             <=> Signed(iAccumulator) + Signed(load(mode)) + Carry(iStatus)
                                   \notin -128 .. 127)
  BY Zenon DEF SumStep
<1>. DEFINE b == load(mode)
            r == addByteWithCarry(iStatus, iAccumulator, b)
<1>1. iAccumulator \in Byte /\ b \in Byte
  BY Registers, LoadType
<1>2. iAccumulator' = r.iValue /\ iStatus' = r.iStatus
  <2>1. Fetched("ADC") = {mode}
    BY OneMode, OpcodeNames
  <2>2. ADC
    BY <2>1, HandlerAlone
  <2>. QED
    BY <2>1, <2>2, Zenon DEF ADC, SetAccumulator
<1>. HIDE DEF b
<1>3. CASE F_DECIMAL \notin iStatus
  <2>1. /\ r.iValue + 256 * Carry(r.iStatus) = iAccumulator + b + Carry(iStatus)
        /\ F_OVERFLOW \in r.iStatus
             <=> Signed(iAccumulator) + Signed(b) + Carry(iStatus) \notin -128 .. 127
    BY <1>1, <1>3, AddBinary
  <2>. HIDE DEF r
  <2>. QED
    BY <1>2, <1>3, <2>1 DEF IsNumber, NumberOf, Numbers, b
<1>4. CASE F_DECIMAL \in iStatus
  <2>1. Two(iAccumulator) /\ Two(b)
    BY <1>4 DEF IsNumber, Two, b
  <2>2. /\ Two(r.iValue)
        /\ Tens(r.iValue) + 100 * Carry(r.iStatus) = Tens(iAccumulator) + Tens(b) + Carry(iStatus)
    BY <1>1, <1>4, <2>1, AddDecimal
  <2>. HIDE DEF r
  <2>. QED
    BY <1>2, <1>4, <2>2 DEF IsNumber, NumberOf, Numbers, Two, Tens, b
<1>. QED
  BY <1>3, <1>4

LEMMA DifferenceStepHolds ==
  ASSUME Inv, [Next]_vars, ~ UNCHANGED vars
  PROVE  DifferenceStep
<1>. SUFFICES ASSUME NEW mode \in Fetched("SBC"), IsNumber(iAccumulator), IsNumber(load(mode))
              PROVE  /\ IsNumber(iAccumulator')
                     /\ NumberOf(iAccumulator') - Numbers * (1 - Carry(iStatus'))
                          = NumberOf(iAccumulator) - NumberOf(load(mode)) - (1 - Carry(iStatus))
                     /\ F_DECIMAL \notin iStatus =>
                          (F_OVERFLOW \in iStatus'
                             <=> Signed(iAccumulator) - Signed(load(mode)) - (1 - Carry(iStatus))
                                   \notin -128 .. 127)
  BY Zenon DEF DifferenceStep
<1>. DEFINE b == load(mode)
            r == subByteWithCarry(iStatus, iAccumulator, b)
<1>1. iAccumulator \in Byte /\ b \in Byte
  BY Registers, LoadType
<1>2. iAccumulator' = r.iValue /\ iStatus' = r.iStatus
  <2>1. Fetched("SBC") = {mode}
    BY OneMode, OpcodeNames
  <2>2. SBC
    BY <2>1, HandlerAlone
  <2>. QED
    BY <2>1, <2>2, Zenon DEF SBC, SetAccumulator
<1>. HIDE DEF b
<1>3. CASE F_DECIMAL \notin iStatus
  <2>1. /\ r.iValue - 256 * (1 - Carry(r.iStatus)) = iAccumulator - b - (1 - Carry(iStatus))
        /\ F_OVERFLOW \in r.iStatus
             <=> Signed(iAccumulator) - Signed(b) - (1 - Carry(iStatus)) \notin -128 .. 127
    BY <1>1, <1>3, SubBinary
  <2>. HIDE DEF r
  <2>. QED
    BY <1>2, <1>3, <2>1 DEF IsNumber, NumberOf, Numbers, b
<1>4. CASE F_DECIMAL \in iStatus
  <2>1. Two(iAccumulator) /\ Two(b)
    BY <1>4 DEF IsNumber, Two, b
  <2>2. /\ Two(r.iValue)
        /\ Tens(r.iValue) - 100 * (1 - Carry(r.iStatus))
             = Tens(iAccumulator) - Tens(b) - (1 - Carry(iStatus))
    BY <1>1, <1>4, <2>1, SubDecimal
  <2>. HIDE DEF r
  <2>. QED
    BY <1>2, <1>4, <2>2 DEF IsNumber, NumberOf, Numbers, Two, Tens, b
<1>. QED
  BY <1>3, <1>4

\* In every program ADC and SBC leave the sum and the difference of the numbers
\* they are given, with the carry as the highest digit, in binary and in decimal
\* mode, and in binary the overflow flag of the signed result.
THEOREM SumsAndDifferences == Spec => ArithmeticExact
<1>1. Inv /\ [Next]_vars => [SumStep /\ DifferenceStep]_vars
  BY SumStepHolds, DifferenceStepHolds
<1>. QED
  BY <1>1, Invariance, PTL DEF Spec, ArithmeticExact

-----------------------------------------------------------------------------
(***************************************************************************)
(* Shifts.                                                                 *)
(***************************************************************************)
\* What the ALU makes of a byte, as a number.
LEMMA BitShiftedOut ==
  ASSUME NEW n \in Byte, NEW c \in {0, 1}
  PROVE  /\ ((2 * n) % 256) + c + 256 * (IF n >= 128 THEN 1 ELSE 0) = 2 * n + c
         /\ 2 * ((n \div 2) + 128 * c) + (IF n % 2 = 1 THEN 1 ELSE 0) = n + 256 * c
  BY DEF Byte

LEMMA ShiftedCarry ==
  ASSUME NEW S, NEW n, NEW out \in BOOLEAN
  PROVE  /\ Carry(Shifted(S, n, out).iStatus) = IF out THEN 1 ELSE 0
         /\ Shifted(S, n, out).iValue = n
  BY DEF Shifted, Carry, FlagIf, updateNZ, NZ, F_NZ, F_CARRY, F_ZERO, F_NEGATIVE

LEMMA ShiftValues ==
  ASSUME NEW S, NEW n \in Byte
  PROVE  /\ LET r == shiftLeftWithCarry(S, n) IN r.iValue + 256 * Carry(r.iStatus) = 2 * n
         /\ LET r == rotateLeftWithCarry(S, n)
            IN  r.iValue + 256 * Carry(r.iStatus) = 2 * n + Carry(S)
         /\ LET r == shiftRightWithCarry(S, n) IN 2 * r.iValue + Carry(r.iStatus) = n
         /\ LET r == rotateRightWithCarry(S, n)
            IN  2 * r.iValue + Carry(r.iStatus) = n + 256 * Carry(S)
<1>1. n \in Int /\ Carry(S) \in {0, 1}
  BY CarryType DEF Byte
<1>2. LET r == shiftLeftWithCarry(S, n) IN r.iValue + 256 * Carry(r.iStatus) = 2 * n
  <2>. DEFINE v == (2 * n) % 256
              out == n >= 128
  <2>1. shiftLeftWithCarry(S, n) = Shifted(S, v, out)
    BY Zenon DEF shiftLeftWithCarry, Negative
  <2>2. out \in BOOLEAN
    OBVIOUS
  <2>. HIDE DEF v, out
  <2>3. Shifted(S, v, out).iValue = v /\ Carry(Shifted(S, v, out).iStatus) = IF out THEN 1 ELSE 0
    BY <2>2, ShiftedCarry
  <2>. QED
    BY <1>1, <2>1, <2>3, BitShiftedOut DEF v, out
<1>3. LET r == rotateLeftWithCarry(S, n) IN r.iValue + 256 * Carry(r.iStatus) = 2 * n + Carry(S)
  <2>. DEFINE v == ((2 * n) % 256) + Carry(S)
              out == n >= 128
  <2>1. rotateLeftWithCarry(S, n) = Shifted(S, v, out)
    BY Zenon DEF rotateLeftWithCarry, Negative
  <2>2. out \in BOOLEAN
    OBVIOUS
  <2>. HIDE DEF v, out
  <2>3. Shifted(S, v, out).iValue = v /\ Carry(Shifted(S, v, out).iStatus) = IF out THEN 1 ELSE 0
    BY <2>2, ShiftedCarry
  <2>. QED
    BY <1>1, <2>1, <2>3, BitShiftedOut DEF v, out
<1>4. LET r == shiftRightWithCarry(S, n) IN 2 * r.iValue + Carry(r.iStatus) = n
  <2>. DEFINE v == n \div 2
              out == n % 2 = 1
  <2>1. shiftRightWithCarry(S, n) = Shifted(S, v, out)
    BY Zenon DEF shiftRightWithCarry
  <2>2. out \in BOOLEAN
    OBVIOUS
  <2>. HIDE DEF v, out
  <2>3. Shifted(S, v, out).iValue = v /\ Carry(Shifted(S, v, out).iStatus) = IF out THEN 1 ELSE 0
    BY <2>2, ShiftedCarry
  <2>. QED
    BY <1>1, <2>1, <2>3, BitShiftedOut DEF v, out
<1>5. LET r == rotateRightWithCarry(S, n) IN 2 * r.iValue + Carry(r.iStatus) = n + 256 * Carry(S)
  <2>. DEFINE v == (n \div 2) + 128 * Carry(S)
              out == n % 2 = 1
  <2>1. rotateRightWithCarry(S, n) = Shifted(S, v, out)
    BY Zenon DEF rotateRightWithCarry
  <2>2. out \in BOOLEAN
    OBVIOUS
  <2>. HIDE DEF v, out
  <2>3. Shifted(S, v, out).iValue = v /\ Carry(Shifted(S, v, out).iStatus) = IF out THEN 1 ELSE 0
    BY <2>2, ShiftedCarry
  <2>. QED
    BY <1>1, <2>1, <2>3, BitShiftedOut DEF v, out
<1>. QED
  BY <1>2, <1>3, <1>4, <1>5

LEMMA ShiftLeaves ==
  ASSUME Inv, NEW mode \in CellMode \cup {"A"}, NEW r, IsResult(r), Shift(mode, r)
  PROVE  shifted(mode) = r.iValue /\ iStatus' = r.iStatus
<1>1. CASE mode = "A"
  BY <1>1 DEF Shift, SetAccumulator, shifted
<1>2. CASE mode # "A"
  <2>1. address(mode) \in Address
    BY <1>2, Registers, AddressType
  <2>2. aBytes' = writeByte(aBytes, address(mode), r.iValue) /\ iStatus' = r.iStatus
    BY <1>2 DEF Shift, store
  <2>3. readByte(aBytes', address(mode)) = r.iValue
    BY <2>1, <2>2, ReadWritten
  <2>. QED
    BY <1>2, <2>2, <2>3 DEF shifted
<1>. QED
  BY <1>1, <1>2

LEMMA ShiftAlone ==
  ASSUME [Next]_vars, ~ UNCHANGED vars
  PROVE  /\ Fetched("ASL") # {} => ASL
         /\ Fetched("LSR") # {} => LSR
         /\ Fetched("ROL") # {} => ROL
         /\ Fetched("ROR") # {} => ROR
  BY HandlerTaken, OpcodeNames DEF Handler

LEMMA ShiftStepHolds ==
  ASSUME Inv, [Next]_vars, ~ UNCHANGED vars
  PROVE  ShiftStep
<1>1. \A op \in {"ASL", "LSR", "ROL", "ROR"} : op \in DOMAIN Opcode
  BY OpcodeNames
<1>2. \A op \in {"ASL", "LSR", "ROL", "ROR"} : \A mode \in Fetched(op) :
        /\ mode \in CellMode \cup {"A"}
        /\ \A other \in Fetched(op) : other = mode
  BY <1>1, OneMode, StoreMode
<1>3. \A mode : target(mode) \in Byte
  BY Registers, LoadType DEF target
<1>4. iStatus \in SUBSET RealFlag
  BY Registers
<1>5. ASSUME NEW mode \in Fetched("ASL")
      PROVE  shifted(mode) + 256 * Carry(iStatus') = 2 * target(mode)
  <2>. DEFINE r == shiftLeftWithCarry(iStatus, target(mode))
  <2>1. Shift(mode, r)
    BY <1>2, <1>5, ShiftAlone DEF ASL
  <2>2. shifted(mode) = r.iValue /\ iStatus' = r.iStatus
    BY <1>2, <1>3, <1>4, <2>1, ShiftType, ShiftLeaves
  <2>3. r.iValue + 256 * Carry(r.iStatus) = 2 * target(mode)
    BY <1>3, ShiftValues
  <2>. QED
    BY <2>2, <2>3, Zenon
<1>6. ASSUME NEW mode \in Fetched("ROL")
      PROVE  shifted(mode) + 256 * Carry(iStatus') = 2 * target(mode) + Carry(iStatus)
  <2>. DEFINE r == rotateLeftWithCarry(iStatus, target(mode))
  <2>1. Shift(mode, r)
    BY <1>2, <1>6, ShiftAlone DEF ROL
  <2>2. shifted(mode) = r.iValue /\ iStatus' = r.iStatus
    BY <1>2, <1>3, <1>4, <2>1, ShiftType, ShiftLeaves
  <2>3. r.iValue + 256 * Carry(r.iStatus) = 2 * target(mode) + Carry(iStatus)
    BY <1>3, ShiftValues
  <2>. QED
    BY <2>2, <2>3, Zenon
<1>7. ASSUME NEW mode \in Fetched("LSR")
      PROVE  2 * shifted(mode) + Carry(iStatus') = target(mode)
  <2>. DEFINE r == shiftRightWithCarry(iStatus, target(mode))
  <2>1. Shift(mode, r)
    BY <1>2, <1>7, ShiftAlone DEF LSR
  <2>2. shifted(mode) = r.iValue /\ iStatus' = r.iStatus
    BY <1>2, <1>3, <1>4, <2>1, ShiftType, ShiftLeaves
  <2>3. 2 * r.iValue + Carry(r.iStatus) = target(mode)
    BY <1>3, ShiftValues
  <2>. QED
    BY <2>2, <2>3, Zenon
<1>8. ASSUME NEW mode \in Fetched("ROR")
      PROVE  2 * shifted(mode) + Carry(iStatus') = target(mode) + 256 * Carry(iStatus)
  <2>. DEFINE r == rotateRightWithCarry(iStatus, target(mode))
  <2>1. Shift(mode, r)
    BY <1>2, <1>8, ShiftAlone DEF ROR
  <2>2. shifted(mode) = r.iValue /\ iStatus' = r.iStatus
    BY <1>2, <1>3, <1>4, <2>1, ShiftType, ShiftLeaves
  <2>3. 2 * r.iValue + Carry(r.iStatus) = target(mode) + 256 * Carry(iStatus)
    BY <1>3, ShiftValues
  <2>. QED
    BY <2>2, <2>3, Zenon
<1>. QED
  BY <1>5, <1>6, <1>7, <1>8 DEF ShiftStep

\* In every program a shift or rotation, wherever it finds its operand, leaves
\* there the double or the half of it with the old carry shifted in, and in the
\* carry the bit it has shifted out.
THEOREM ShiftsAreExact == Spec => ShiftsExact
<1>1. Inv /\ [Next]_vars => [ShiftStep]_vars
  BY ShiftStepHolds
<1>. QED
  BY <1>1, Invariance, PTL DEF Spec, ShiftsExact

-----------------------------------------------------------------------------
(***************************************************************************)
(* The byte of a set of flags gives the flags back.                        *)
(***************************************************************************)
\* The binary digits of n.
BinaryDigits(n, b0, b1, b2, b3, b4, b5, b6, b7) ==
  n = b0 + 2 * b1 + 4 * b2 + 8 * b3 + 16 * b4 + 32 * b5 + 64 * b6 + 128 * b7

LEMMA BitsOfSum ==
  ASSUME NEW b0 \in 0 .. 1, NEW b1 \in 0 .. 1, NEW b2 \in 0 .. 1, NEW b3 \in 0 .. 1,
         NEW b4 \in 0 .. 1, NEW b5 \in 0 .. 1, NEW b6 \in 0 .. 1, NEW b7 \in 0 .. 1,
         NEW n, BinaryDigits(n, b0, b1, b2, b3, b4, b5, b6, b7)
  PROVE  /\ (n \div 1) % 2 = b0 /\ (n \div 2) % 2 = b1
         /\ (n \div 4) % 2 = b2 /\ (n \div 8) % 2 = b3
         /\ (n \div 16) % 2 = b4 /\ (n \div 32) % 2 = b5
         /\ (n \div 64) % 2 = b6 /\ (n \div 128) % 2 = b7
<1>. USE DEF BinaryDigits
<1>1. n \div 1 = n /\ n % 2 = b0
  OBVIOUS
<1>2. (n \div 2) = b1 + 2 * (b2 + 2 * b3 + 4 * b4 + 8 * b5 + 16 * b6 + 32 * b7)
  OBVIOUS
<1>3. (n \div 4) = b2 + 2 * (b3 + 2 * b4 + 4 * b5 + 8 * b6 + 16 * b7)
  OBVIOUS
<1>4. (n \div 8) = b3 + 2 * (b4 + 2 * b5 + 4 * b6 + 8 * b7)
  OBVIOUS
<1>5. (n \div 16) = b4 + 2 * (b5 + 2 * b6 + 4 * b7)
  OBVIOUS
<1>6. (n \div 32) = b5 + 2 * (b6 + 2 * b7)
  OBVIOUS
<1>7. (n \div 64) = b6 + 2 * b7
  OBVIOUS
<1>8. (n \div 128) = b7
  OBVIOUS
<1>9. ASSUME NEW b \in 0 .. 1, NEW q \in Int
      PROVE  (b + 2 * q) % 2 = b
  OBVIOUS
<1>. QED
  BY <1>1, <1>2, <1>3, <1>4, <1>5, <1>6, <1>7, <1>8, <1>9

LEMMA BitsOfByte ==
  ASSUME NEW S \in SUBSET Flag
  PROVE  Bits(ToByte(S)) = S
<1>. DEFINE bit(f) == IF f \in S THEN 1 ELSE 0
            n == ToByte(S)
<1>1. \A f : bit(f) \in 0 .. 1
  OBVIOUS
<1>2. BinaryDigits(n, bit(1), bit(2), bit(4), bit(8), bit(16), bit(32), bit(64), bit(128))
  BY DEF ToByte, Weight, BinaryDigits
<1>. HIDE DEF bit, n
<1>3. /\ (n \div 1) % 2 = bit(1) /\ (n \div 2) % 2 = bit(2)
      /\ (n \div 4) % 2 = bit(4) /\ (n \div 8) % 2 = bit(8)
      /\ (n \div 16) % 2 = bit(16) /\ (n \div 32) % 2 = bit(32)
      /\ (n \div 64) % 2 = bit(64) /\ (n \div 128) % 2 = bit(128)
  BY <1>1, <1>2, BitsOfSum
<1>4. Flag = {1, 2, 4, 8, 16, 32, 64, 128}
  BY DEF Flag, F_CARRY, F_ZERO, F_INTERRUPT, F_DECIMAL, F_BREAK, F_UNUSED, F_OVERFLOW,
         F_NEGATIVE
<1>5. \A f \in Flag : (n \div f) % 2 = bit(f)
  BY <1>3, <1>4
<1>6. \A f : bit(f) = 1 <=> f \in S
  BY DEF bit
<1>. QED
  BY <1>5, <1>6 DEF Bits, n

-----------------------------------------------------------------------------
(***************************************************************************)
(* One instruction of a program in page 6, whose opcode is known.          *)
(***************************************************************************)
\* The next instruction is in page 6.
InCode == iProgramCounter \in 1536 .. 1791

\* The instruction op in this mode has been fetched, and runs.
Is(op, mode, n) ==
  op \in DOMAIN Opcode /\ mode \in DOMAIN Opcode[op] /\ Opcode[op][mode] = n

LEMMA Runs ==
  ASSUME Instruction, NEW op, NEW mode, Is(op, mode, opcode)
  PROVE  Handler(op) /\ Fetched(op) = {mode}
<1>1. mode \in Fetched(op)
  BY InstructionStaysIn DEF Is, Fetched
<1>2. \A other \in Fetched(op) : other = mode
  BY <1>1, OneInstruction DEF Is
<1>. QED
  BY <1>1, <1>2, HandlerOf DEF Is

LEMMA IllegalEnds ==
  ASSUME opcode = 2
  PROVE  ~Instruction
<1>. SUFFICES ASSUME running PROVE ~Instruction
  BY InstructionStaysIn
<1>1. opcode \in Byte /\ label(opcode) = BAD
  BY UnusedBad DEF Byte, Unused
<1>. QED
  BY <1>1, BadLabel, NoHandler

LEMMA Sizes ==
  /\ SIZE["IMP"] = 1 /\ SIZE["A"] = 1 /\ SIZE["IM"] = 2 /\ SIZE["ZP"] = 2 /\ SIZE["ZPX"] = 2
  /\ SIZE["REL"] = 2
  BY DEF SIZE

Goto(n) == iProgramCounter' = iProgramCounter + n

LEMMA StepOver ==
  ASSUME InCode, NEW n \in -18 .. 18, goto(iProgramCounter + n)
  PROVE  Goto(n)
<1>1. iProgramCounter \in Int /\ 1536 <= iProgramCounter /\ iProgramCounter <= 1791
  BY DEF InCode
<1>2. iProgramCounter + n \in Int /\ 0 <= iProgramCounter + n /\ iProgramCounter + n < 65536
  BY <1>1
<1>3. (iProgramCounter + n) % 65536 = iProgramCounter + n
  BY <1>2, Remainder
<1>. QED
  BY <1>3 DEF goto, Goto, MEM_SIZE

LEMMA SizeOver ==
  ASSUME InCode
  PROVE  /\ size("IMP") => Goto(1)
         /\ size("A") => Goto(1)
         /\ size("IM") => Goto(2)
         /\ size("ZP") => Goto(2)
         /\ size("ZPX") => Goto(2)
  BY StepOver, Sizes DEF size

LEMMA ZeroFlag ==
  ASSUME NEW S, NEW n
  PROVE  F_ZERO \in updateNZ(S, n) <=> n = 0
  BY DEF updateNZ, NZ, FlagIf, F_NZ, F_ZERO, F_NEGATIVE

\* A step that leaves the program as it is, and what lies behind the stack.
CodeKept == \A a \in Address : a >= 512 => readByte(aBytes', a) = readByte(aBytes, a)

\* The cells below the code.
LEMMA LowCells ==
  /\ \A c \in 0 .. 511 : c \in Address /\ ~ (c >= 512)
  /\ \A c \in 512 .. 65535 : c \in Address /\ c >= 512
<1>1. ASSUME NEW c \in Int, 0 <= c, c < 65536 PROVE c \in Address
  <2>1. MEM_SIZE \in Int /\ c <= MEM_SIZE - 1
    BY <1>1 DEF MEM_SIZE
  <2>. QED
    BY <1>1, <2>1 DEF Address
<1>2. \A c \in 0 .. 511 : c \in Int /\ 0 <= c /\ c < 65536 /\ ~ (c >= 512)
  OBVIOUS
<1>3. \A c \in 512 .. 65535 : c \in Int /\ 0 <= c /\ c < 65536 /\ c >= 512
  OBVIOUS
<1>4. \A c \in 0 .. 511 : c \in Address /\ ~ (c >= 512)
  BY <1>1, <1>2
<1>5. \A c \in 512 .. 65535 : c \in Address /\ c >= 512
  BY <1>1, <1>3
<1>. QED
  BY <1>4, <1>5, PTL

LEMMA LowWrite ==
  ASSUME NEW c \in 0 .. 511, NEW v, aBytes' = writeByte(aBytes, c, v)
  PROVE  CodeKept
<1>1. c \in Address /\ ~ (c >= 512)
  BY LowCells
<1>2. \A a \in Address : readByte(aBytes', a) = IF a = c THEN v ELSE readByte(aBytes, a)
  BY <1>1, ReadWritten
<1>. QED
  BY <1>1, <1>2 DEF CodeKept
=============================================================================
