-------------------------- MODULE CallFrameProofs --------------------------
(***************************************************************************)
(* Frames give back what they save, in every program.  The invariant says  *)
(* where the frames lie and what they hold; a step keeps it because the    *)
(* cells it writes are known (StepProofs), because a pull moves the        *)
(* pointer back over what the push of the frame moved it, and because the  *)
(* bytes of a frame, taken together again, are what was taken apart.       *)
(***************************************************************************)
EXTENDS CallFrames, StepProofs, SequenceTheorems

\* What a frame can have saved: a register, flags, an address, or an
\* interrupted program's flags and address.
SavedValue == Byte \cup (SUBSET Flag) \cup Address \cup ((SUBSET Flag) \X Address)

Frame == [by : Maker, saved : SavedValue, at : Byte, intact : BOOLEAN]

FramesInv == Inv /\ frames \in Seq(Frame) /\ FramesOnStack

LEMMA Makers ==
  /\ Maker = {"PHA", "PHP", "JSR", "BRK"}
  /\ \A op \in Maker : Length[op] \in 1 .. 3
  BY DEF Maker, Taker, Length

-----------------------------------------------------------------------------
(***************************************************************************)
(* Taking apart and taking together.                                       *)
(***************************************************************************)
\* The copy of the status register that is pushed gives back its flags.
LEMMA StatusGivenBack ==
  ASSUME Inv
  PROVE  FlagsOf(PushedStatus) = iStatus
<1>1. iStatus \cup {F_BREAK, F_UNUSED} \in SUBSET Flag
  BY RealFlags, Registers DEF Flag
<1>2. Bits(PushedStatus) = iStatus \cup {F_BREAK, F_UNUSED}
  BY <1>1, BitsOfByte DEF PushedStatus
<1>. QED
  BY <1>2 DEF FlagsOf, Inv, BreakNeverInStatus

LEMMA WordOfBytes ==
  ASSUME NEW n \in Int, 0 <= n, n < 65538,
         NEW low, low = n % 256, NEW high, high = (n \div 256) % 256
  PROVE  low + 256 * high = IF n < 65536 THEN n ELSE n - 65536
<1>1. /\ n \div 256 \in Int /\ 0 <= n \div 256 /\ n \div 256 <= 256
      /\ low \in Int /\ 0 <= low /\ low < 256
      /\ n = 256 * (n \div 256) + low
  OBVIOUS
<1>2. \A q \in Int : 0 <= q /\ q < 256 => q % 256 = q
  BY Remainder
<1>3. high = IF n \div 256 < 256 THEN n \div 256 ELSE 0
  <2>1. CASE n \div 256 < 256
    BY <1>1, <1>2, <2>1
  <2>2. CASE ~ (n \div 256 < 256)
    <3>1. n \div 256 = 256
      BY <1>1, <2>2
    <3>2. 256 % 256 = 0
      OBVIOUS
    <3>. QED
      BY <3>1, <3>2
  <2>. QED
    BY <2>1, <2>2
<1>. QED
  BY <1>1, <1>3

\* What JSR and BRK push of an address, RTS and RTI find again.
LEMMA WordGivenBack ==
  ASSUME NEW n \in Int, 0 <= n, n < 65538,
         NEW w, w = LowByte(n) + 256 * HighByte(n)
  PROVE  w % MEM_SIZE = n % MEM_SIZE /\ (w + 1) % MEM_SIZE = (n + 1) % MEM_SIZE
<1>1. w = IF n < 65536 THEN n ELSE n - 65536
  BY WordOfBytes DEF LowByte, HighByte
<1>2. w % 65536 = n % 65536
  BY <1>1
<1>3. (w + 1) % 65536 = (n + 1) % 65536
  BY <1>1
<1>. QED
  BY <1>2, <1>3 DEF MEM_SIZE

LEMMA AddressGivenBack ==
  ASSUME NEW a \in Address
  PROVE  /\ (LowByte(a + 2) + 256 * HighByte(a + 2) + 1) % MEM_SIZE = (a + 3) % MEM_SIZE
         /\ (LowByte(a + 2) + 256 * HighByte(a + 2)) % MEM_SIZE = (a + 2) % MEM_SIZE
<1>1. a \in Int /\ 0 <= a + 2 /\ a + 2 < 65538 /\ a + 2 \in Int
  BY DEF Address, MEM_SIZE
<1>2. a + 2 + 1 = a + 3
  BY <1>1
<1>. QED
  BY <1>1, <1>2, WordGivenBack

-----------------------------------------------------------------------------
(***************************************************************************)
(* The pointer, and the bytes above it.                                    *)
(***************************************************************************)
\* The n-th byte to be pulled.
TopByte(s, n) == readByte(s.aBytes, STACK_BASE + ((s.iStackPointer + n) % 256))

LEMMA PointerReturns ==
  ASSUME NEW p \in Byte, NEW n \in {1, 2, 3}
  PROVE  /\ Below(p, n) \in Byte
         /\ (Below(p, n) + n) % 256 = p
<1>1. p \in Int /\ 0 <= p /\ p < 256
  BY DEF Byte
<1>2. (p - n) % 256 = IF p < n THEN 256 + p - n ELSE p - n
  <2>1. (p - 1) % 256 = IF p < 1 THEN 255 + p ELSE p - 1
    BY <1>1
  <2>2. (p - 2) % 256 = IF p < 2 THEN 254 + p ELSE p - 2
    BY <1>1
  <2>3. (p - 3) % 256 = IF p < 3 THEN 253 + p ELSE p - 3
    BY <1>1
  <2>. QED
    BY <1>1, <2>1, <2>2, <2>3
<1>3. p % 256 = p /\ (p + 256) % 256 = p
  BY <1>1
<1>4. CASE p < n
  <2>1. (p - n) % 256 \in 0 .. 255 /\ ((p - n) % 256) + n = p + 256
    BY <1>1, <1>2, <1>4
  <2>. QED
    BY <1>3, <2>1 DEF Below, Byte
<1>5. CASE ~ (p < n)
  <2>1. (p - n) % 256 \in 0 .. 255 /\ ((p - n) % 256) + n = p
    BY <1>1, <1>2, <1>5
  <2>. QED
    BY <1>3, <2>1 DEF Below, Byte
<1>. QED
  BY <1>4, <1>5

\* What lies n bytes above a pointer lies one further above the pointer below
\* it, and not where the pointer was.
LEMMA PointerAbove ==
  ASSUME NEW p \in Byte, NEW n \in {1, 2}
  PROVE  /\ (Below(p, 1) + (n + 1)) % 256 = (p + n) % 256
         /\ (p + n) % 256 \in Byte
         /\ (p + n) % 256 # p
<1>1. p \in Int /\ 0 <= p /\ p < 256
  BY DEF Byte
<1>2. (p - 1) % 256 = IF p < 1 THEN 255 ELSE p - 1
  BY <1>1
<1>3. (p + n) % 256 = IF p + n < 256 THEN p + n ELSE p + n - 256
  BY <1>1
<1>4. (p + n) % 256 \in 0 .. 255 /\ (p + n) % 256 # p
  BY <1>1, <1>3
<1>5. CASE p < 1
  <2>1. ((p - 1) % 256) + (n + 1) = 256 + n /\ (256 + n) % 256 = n /\ p + n = n /\ n % 256 = n
    BY <1>1, <1>2, <1>5
  <2>. QED
    BY <1>4, <2>1 DEF Below, Byte
<1>6. CASE ~ (p < 1)
  <2>1. ((p - 1) % 256) + (n + 1) = p + n
    BY <1>1, <1>2, <1>6
  <2>. QED
    BY <1>4, <2>1 DEF Below, Byte
<1>. QED
  BY <1>5, <1>6

LEMMA StackCell ==
  ASSUME NEW p \in Byte
  PROVE  STACK_BASE + p \in Address
  BY DEF STACK_BASE, Byte, Address, MEM_SIZE

LEMMA PushTop ==
  ASSUME NEW s, IsStack(s), NEW v \in Byte
  PROVE  /\ TopByte(push(s, v), 1) = v
         /\ \A n \in {1, 2} : TopByte(push(s, v), n + 1) = TopByte(s, n)
<1>. DEFINE t == push(s, v)
            p == s.iStackPointer
            a == STACK_BASE + p
<1>1. p \in Byte /\ a \in Address /\ a % MEM_SIZE = a
  BY StackCell, AddressFits DEF IsStack
<1>2. t.aBytes = writeByte(s.aBytes, a, v) /\ t.iStackPointer = Below(p, 1)
  BY DEF push, Below
<1>3. TopByte(t, 1) = v
  <2>1. (Below(p, 1) + 1) % 256 = p
    BY <1>1, PointerReturns
  <2>2. readByte(writeByte(s.aBytes, a, v), a) = v
    BY <1>1 DEF readByte, writeByte
  <2>. QED
    BY <1>2, <2>1, <2>2 DEF TopByte
<1>4. ASSUME NEW n \in {1, 2}
      PROVE  TopByte(t, n + 1) = TopByte(s, n)
  <2>. DEFINE q == (p + n) % 256
              b == STACK_BASE + q
  <2>1. (Below(p, 1) + (n + 1)) % 256 = q /\ q \in Byte /\ q # p
    BY <1>1, PointerAbove
  <2>2. b \in Address /\ b # a
    <3>1. p \in Int /\ q \in Int /\ STACK_BASE \in Int
      BY <1>1, <2>1, ByteIsAddress DEF STACK_BASE
    <3>. HIDE DEF q
    <3>. QED
      BY <2>1, <3>1, StackCell
  <2>3. WritesOnly(s.aBytes, t.aBytes, {a})
    BY <1>1, <1>2, WriteByteWrites DEF IsStack
  <2>. HIDE DEF a, b
  <2>4. readByte(t.aBytes, b) = readByte(s.aBytes, b)
    BY <2>2, <2>3 DEF WritesOnly
  <2>5. TopByte(t, n + 1) = readByte(t.aBytes, b) /\ TopByte(s, n) = readByte(s.aBytes, b)
    BY <1>2, <2>1 DEF TopByte, b
  <2>. QED
    BY <2>4, <2>5
<1>. QED
  BY <1>3, <1>4

LEMMA AddressTop ==
  ASSUME NEW s, IsStack(s), NEW i \in Int
  PROVE  /\ IsStack(PushedAddress(s, i))
         /\ TopByte(PushedAddress(s, i), 1) = LowByte(i)
         /\ TopByte(PushedAddress(s, i), 2) = HighByte(i)
<1>. DEFINE t == push(s, HighByte(i))
            u == push(t, LowByte(i))
<1>1. LowByte(i) \in Byte /\ HighByte(i) \in Byte
  BY ByteOfWord
<1>2. IsStack(t) /\ IsStack(u) /\ u = PushedAddress(s, i)
  BY <1>1, PushType DEF PushedAddress
<1>3. TopByte(t, 1) = HighByte(i)
  BY <1>1, PushTop
<1>. HIDE DEF t
<1>4. TopByte(u, 1) = LowByte(i) /\ \A n \in {1, 2} : TopByte(u, n + 1) = TopByte(t, n)
  BY <1>1, <1>2, PushTop
<1>5. TopByte(u, 1 + 1) = TopByte(t, 1)
  BY <1>4
<1>. HIDE DEF u
<1>6. 1 + 1 = 2
  OBVIOUS
<1>. QED
  BY <1>2, <1>3, <1>4, <1>5, <1>6

-----------------------------------------------------------------------------
(***************************************************************************)
(* What the instructions that make and take frames do.                     *)
(***************************************************************************)
LEMMA FrameTop ==
  ASSUME NEW t, Pushed(t), NEW f, f.at = iStackPointer', NEW n
  PROVE  FrameByte(aBytes', f, n) = TopByte(t, n)
  BY DEF Pushed, FrameByte, FrameCell, TopByte

LEMMA Pushers ==
  ASSUME Next, NEW op \in Maker, Fetched(op) # {}
  PROVE  /\ op = "PHA" => Pushed(push(Stack, iAccumulator))
         /\ op = "PHP" => Pushed(push(Stack, PushedStatus))
         /\ op = "JSR" => Pushed(PushedAddress(Stack, iProgramCounter + 2))
         /\ op = "BRK" => Pushed(push(PushedAddress(Stack, iProgramCounter + 2), PushedStatus))
<1>1. op \in DOMAIN Opcode /\ op # "JMP"
  BY Makers, OpcodeNames
<1>2. Handler(op)
  BY <1>1, NextTakes
<1>. QED
  BY <1>2 DEF Handler, PHA, PHP, JSR, BRK

LEMMA PointerPushed ==
  ASSUME NEW t, NEW n, PushesTo(Stack, t, n), Pushed(t)
  PROVE  iStackPointer' = Below(iStackPointer, n)
  BY DEF PushesTo, Pushed, Stack

\* A frame that is made lies at the pointer, as long as it is to be, and holds
\* what it saved.
LEMMA FrameMade ==
  ASSUME Inv, Next, NEW op \in Maker, Fetched(op) # {},
         NEW f, f.by = op, f.at = iStackPointer'
  PROVE  /\ iStackPointer' = Below(iStackPointer, Length[op])
         /\ Holds(aBytes', f) = Saved[op]
<1>. DEFINE pc == iProgramCounter
<1>. USE StackType, PushedStatusType, Pushers
<1>1. pc \in Address /\ pc + 2 \in Int /\ iAccumulator \in Byte
  BY Registers, JumpTarget
<1>2. CASE op = "PHA"
  <2>. DEFINE t == push(Stack, iAccumulator)
  <2>1. Pushed(t) /\ Length[op] = 0 + 1 /\ Saved[op] = iAccumulator
    BY <1>2 DEF Length, Saved
  <2>2. PushesTo(Stack, t, 0 + 1) /\ TopByte(t, 1) = iAccumulator
    BY <1>1, NoPush, OnePush, PushTop
  <2>. HIDE DEF t
  <2>3. Holds(aBytes', f) = FrameByte(aBytes', f, 1)
    BY <1>2 DEF Holds
  <2>. QED
    BY <2>1, <2>2, <2>3, FrameTop, PointerPushed
<1>3. CASE op = "PHP"
  <2>. DEFINE t == push(Stack, PushedStatus)
  <2>1. Pushed(t) /\ Length[op] = 0 + 1 /\ Saved[op] = iStatus
    BY <1>3 DEF Length, Saved
  <2>2. PushesTo(Stack, t, 0 + 1) /\ TopByte(t, 1) = PushedStatus
    BY NoPush, OnePush, PushTop
  <2>. HIDE DEF t
  <2>3. Holds(aBytes', f) = FlagsOf(FrameByte(aBytes', f, 1))
    BY <1>3 DEF Holds
  <2>. QED
    BY <2>1, <2>2, <2>3, FrameTop, PointerPushed, StatusGivenBack
<1>4. CASE op = "JSR"
  <2>. DEFINE t == PushedAddress(Stack, pc + 2)
  <2>1. Pushed(t) /\ Length[op] = 2 /\ Saved[op] = (pc + 3) % MEM_SIZE
    BY <1>4 DEF Length, Saved
  <2>2. PushesTo(Stack, t, 2) /\ TopByte(t, 1) = LowByte(pc + 2) /\ TopByte(t, 2) = HighByte(pc + 2)
    BY <1>1, AddressPush, AddressTop
  <2>. HIDE DEF t
  <2>3. Holds(aBytes', f)
          = (FrameByte(aBytes', f, 1) + 256 * FrameByte(aBytes', f, 2) + 1) % MEM_SIZE
    BY <1>4 DEF Holds
  <2>4. FrameByte(aBytes', f, 1) = LowByte(pc + 2) /\ FrameByte(aBytes', f, 2) = HighByte(pc + 2)
    BY <2>1, <2>2, FrameTop
  <2>. QED
    BY <1>1, <2>1, <2>2, <2>3, <2>4, PointerPushed, AddressGivenBack
<1>5. CASE op = "BRK"
  <2>. DEFINE s == PushedAddress(Stack, pc + 2)
              t == push(s, PushedStatus)
  <2>1. Pushed(t) /\ Length[op] = 2 + 1 /\ Saved[op] = <<iStatus, (pc + 2) % MEM_SIZE>>
    BY <1>5 DEF Length, Saved
  <2>2. /\ PushesTo(Stack, s, 2) /\ IsStack(s)
        /\ TopByte(s, 1) = LowByte(pc + 2) /\ TopByte(s, 2) = HighByte(pc + 2)
    BY <1>1, AddressPush, AddressTop
  <2>. HIDE DEF s
  <2>3. PushesTo(Stack, t, 2 + 1) /\ TopByte(t, 1) = PushedStatus
    BY <2>2, OnePush, PushTop
  <2>4. TopByte(t, 1 + 1) = TopByte(s, 1) /\ TopByte(t, 2 + 1) = TopByte(s, 2)
    BY <2>2, PushTop
  <2>. HIDE DEF t
  <2>5. Holds(aBytes', f)
          = <<FlagsOf(FrameByte(aBytes', f, 1)),
              (FrameByte(aBytes', f, 1 + 1) + 256 * FrameByte(aBytes', f, 2 + 1)) % MEM_SIZE>>
    BY <1>5 DEF Holds
  <2>6. /\ FrameByte(aBytes', f, 1) = PushedStatus
        /\ FrameByte(aBytes', f, 1 + 1) = LowByte(pc + 2)
        /\ FrameByte(aBytes', f, 2 + 1) = HighByte(pc + 2)
    BY <2>1, <2>2, <2>3, <2>4, FrameTop
  <2>. QED
    BY <1>1, <2>1, <2>3, <2>5, <2>6, PointerPushed, AddressGivenBack, StatusGivenBack
<1>. QED
  BY <1>2, <1>3, <1>4, <1>5, Makers

LEMMA Pullers ==
  ASSUME Next, NEW op \in Maker, Fetched(Taker[op]) # {}
  PROVE  /\ op = "PHA" => PLA
         /\ op = "PHP" => PLP
         /\ op = "JSR" => RTS
         /\ op = "BRK" => RTI
<1>1. Taker[op] \in DOMAIN Opcode /\ Taker[op] # "JMP"
  BY Makers, OpcodeNames DEF Taker
<1>2. Handler(Taker[op])
  BY <1>1, NextTakes
<1>. QED
  BY <1>2 DEF Handler, Taker

LEMMA PointerPulled ==
  ASSUME Next, NEW op \in Maker, Fetched(Taker[op]) # {}
  PROVE  iStackPointer' = (iStackPointer + Length[op]) % 256 /\ UNCHANGED aBytes
  BY Pullers, Makers DEF PLA, PLP, RTS, RTI, Pulled, Length

LEMMA PulledByte ==
  ASSUME NEW f, f.at = iStackPointer, NEW n
  PROVE  FrameByte(aBytes, f, n) = pull(n)
  BY DEF FrameByte, FrameCell, pull

\* Taking a frame off at the pointer gives what it holds.
LEMMA FrameTaken ==
  ASSUME Inv, Next, NEW f, f.by \in Maker, f.at = iStackPointer, Fetched(Taker[f.by]) # {}
  PROVE  /\ f.by = "PHA" => iAccumulator' = Holds(aBytes, f)
         /\ f.by = "PHP" => iStatus' = Holds(aBytes, f)
         /\ f.by = "JSR" => iProgramCounter' = Holds(aBytes, f)
         /\ f.by = "BRK" => <<iStatus', iProgramCounter'>> = Holds(aBytes, f)
<1>. USE Pullers, PulledByte
<1>1. \A b : PulledStatus(b) = FlagsOf(b)
  BY DEF Inv, BreakNeverInStatus, PulledStatus, FlagsOf
<1>2. CASE f.by = "PHA"
  <2>1. PLA
    BY <1>2
  <2>. QED
    BY <1>2, <2>1 DEF PLA, Holds
<1>3. CASE f.by = "PHP"
  <2>1. PLP
    BY <1>3
  <2>. QED
    BY <1>1, <1>3, <2>1 DEF PLP, Holds
<1>4. CASE f.by = "JSR"
  <2>1. RTS
    BY <1>4
  <2>. QED
    BY <1>4, <2>1 DEF RTS, Holds, goto
<1>5. CASE f.by = "BRK"
  <2>1. RTI
    BY <1>5
  <2>. QED
    BY <1>1, <1>5, <2>1 DEF RTI, Holds, goto
<1>. QED
  BY <1>2, <1>3, <1>4, <1>5

LEMMA HelpersKeepPointer ==
  ASSUME NEW mode, NEW n, NEW S
  PROVE  /\ SetStatus(mode, S) => UNCHANGED iStackPointer
         /\ SetAccumulator(mode, n, S) => UNCHANGED iStackPointer
         /\ SetX(mode, n) => UNCHANGED iStackPointer
         /\ SetY(mode, n) => UNCHANGED iStackPointer
         /\ store(mode, n, S) => UNCHANGED iStackPointer
         /\ Shift(mode, n) => UNCHANGED iStackPointer
  BY DEF SetStatus, SetAccumulator, SetX, SetY, store, Shift

\* No other instruction moves the pointer.
LEMMA PointerStays ==
  ASSUME [Next]_vars, \A op \in Maker : Fetched(op) = {} /\ Fetched(Taker[op]) = {},
         Fetched("TXS") = {}
  PROVE  UNCHANGED iStackPointer
<1>. USE HelpersKeepPointer
<1>1. CASE Transfer
  BY <1>1 DEF Transfer, LDA, STA, LDX, STX, LDY, STY, TAX, TAY, TSX, TXA, TYA, TXS
<1>2. CASE Arithmetic
  BY <1>2 DEF Arithmetic, ADC, SBC, Logic, AND, ORA, EOR, CMP, CPX, CPY, BIT
<1>3. CASE Count
  BY <1>3 DEF Count, DEX, DEY, DEC, INX, INY, INC, ASL, LSR, ROL, ROR, Update
<1>4. CASE Flow
  BY <1>4 DEF Flow, CLC, CLD, CLI, CLV, SEC, SED, SEI, NOP, BCC, BCS, BEQ, BNE, BMI, BPL,
              BVC, BVS, Clear, Set, Branch, registers
<1>5. CASE Jump
  <2>1. /\ Fetched("PHA") = {} /\ Fetched("PHP") = {} /\ Fetched("JSR") = {} /\ Fetched("BRK") = {}
        /\ Fetched("PLA") = {} /\ Fetched("PLP") = {} /\ Fetched("RTS") = {} /\ Fetched("RTI") = {}
    BY Makers DEF Taker
  <2>. QED
    BY <1>5, <2>1 DEF Jump, PHA, PHP, PLA, PLP, JMP_AB, JMP_IN, JSR, RTS, BRK, RTI, registers
<1>6. CASE Exit \/ run \/ \E iAddress \in EntryPoints : setProgramCounter(iAddress)
  BY <1>6 DEF Exit, JumpToSelf, illegal, return, run, setProgramCounter, registers
<1>7. CASE UNCHANGED vars
  BY <1>7 DEF vars, registers
<1>. QED
  BY <1>1, <1>2, <1>3, <1>4, <1>5, <1>6, <1>7 DEF Next, Instruction

-----------------------------------------------------------------------------
(***************************************************************************)
(* The frames.                                                             *)
(***************************************************************************)
LEMMA FrameType ==
  ASSUME NEW f \in Frame
  PROVE  /\ f.by \in Maker /\ f.at \in Byte /\ Length[f.by] \in 1 .. 3
         /\ \A n \in 1 .. Length[f.by] :
              FrameCell(f, n) \in FrameCells(f) /\ FrameCell(f, n) \in Address
<1>1. f.by \in Maker /\ f.at \in Byte /\ Length[f.by] \in 1 .. 3
  BY Makers DEF Frame
<1>2. \A n \in 1 .. 3 : (f.at + n) % 256 \in Byte
  BY <1>1, StackOffset
<1>. QED
  BY <1>1, <1>2, StackCell DEF FrameCell, FrameCells

LEMMA KeptFrames ==
  ASSUME frames \in Seq(Frame)
  PROVE  /\ Kept \in Seq(Frame)
         /\ Len(Kept) = Len(frames)
         /\ \A i \in 1 .. Len(frames) : Kept[i].at = frames[i].at /\ Kept[i].by = frames[i].by
         /\ \A i \in 1 .. Len(frames) : Kept[i].intact =>
              /\ Kept[i] = frames[i]
              /\ frames[i].intact
              /\ FrameCells(frames[i]) \cap Written = {}
<1>. DEFINE n == Len(frames)
<1>1. n \in Nat /\ DOMAIN frames = 1 .. n /\ \A i \in 1 .. n : frames[i] \in Frame
  BY LenProperties
<1>2. ASSUME NEW i \in 1 .. n
      PROVE  /\ Kept[i] \in Frame
             /\ Kept[i].at = frames[i].at /\ Kept[i].by = frames[i].by
             /\ Kept[i].intact =>
                  Kept[i] = frames[i] /\ frames[i].intact /\ FrameCells(frames[i]) \cap Written = {}
  <2>1. Kept[i] = IF FrameCells(frames[i]) \cap Written = {}
                  THEN frames[i] ELSE [frames[i] EXCEPT !.intact = FALSE]
    BY <1>1 DEF Kept
  <2>2. frames[i] \in Frame
    BY <1>1
  <2>3. CASE FrameCells(frames[i]) \cap Written = {}
    BY <2>1, <2>2, <2>3
  <2>4. CASE FrameCells(frames[i]) \cap Written # {}
    <3>. DEFINE f == [frames[i] EXCEPT !.intact = FALSE]
    <3>1. f \in Frame /\ f.at = frames[i].at /\ f.by = frames[i].by /\ ~ f.intact
      BY <2>2 DEF Frame
    <3>. QED
      BY <2>1, <2>4, <3>1
  <2>. QED
    BY <2>3, <2>4
<1>3. Kept \in [1 .. n -> Frame]
  <2>1. Kept = [i \in 1 .. n |-> Kept[i]]
    BY <1>1 DEF Kept
  <2>. QED
    BY <1>2, <2>1
<1>4. Kept \in Seq(Frame) /\ Len(Kept) = n
  BY <1>1, <1>3
<1>. QED
  BY <1>2, <1>4

\* What a step does not write reads as before.
LEMMA Unwritten ==
  ASSUME Inv, [Next]_vars, NEW a \in Address, a \notin Written
  PROVE  readByte(aBytes', a) = readByte(aBytes, a)
<1>1. a % MEM_SIZE = a
  BY AddressFits
<1>2. CASE a \in DOMAIN aBytes \cup DOMAIN aBytes'
  BY <1>2, EveryWrittenStep DEF WrittenStep, Changed
<1>3. CASE a \notin DOMAIN aBytes \cup DOMAIN aBytes'
  BY <1>1, <1>3 DEF readByte
<1>. QED
  BY <1>2, <1>3

LEMMA UnwrittenFrame ==
  ASSUME Inv, [Next]_vars, NEW f \in Frame, FrameCells(f) \cap Written = {}
  PROVE  Holds(aBytes', f) = Holds(aBytes, f)
<1>1. \A n \in 1 .. Length[f.by] : FrameByte(aBytes', f, n) = FrameByte(aBytes, f, n)
  BY FrameType, Unwritten DEF FrameByte
<1>2. CASE f.by \in {"PHA", "PHP"}
  <2>1. Length[f.by] = 1 /\ 1 \in 1 .. 1
    BY <1>2 DEF Length
  <2>2. FrameByte(aBytes', f, 1) = FrameByte(aBytes, f, 1)
    BY <1>1, <2>1
  <2>. QED
    BY <1>2, <2>2 DEF Holds
<1>3. CASE f.by = "JSR"
  <2>1. Length[f.by] = 2 /\ 1 \in 1 .. 2 /\ 2 \in 1 .. 2
    BY <1>3 DEF Length
  <2>2. /\ FrameByte(aBytes', f, 1) = FrameByte(aBytes, f, 1)
        /\ FrameByte(aBytes', f, 2) = FrameByte(aBytes, f, 2)
    BY <1>1, <2>1
  <2>. QED
    BY <1>3, <2>2 DEF Holds
<1>4. CASE f.by = "BRK"
  <2>1. Length[f.by] = 3 /\ 1 \in 1 .. 3 /\ 2 \in 1 .. 3 /\ 3 \in 1 .. 3
    BY <1>4 DEF Length
  <2>2. /\ FrameByte(aBytes', f, 1) = FrameByte(aBytes, f, 1)
        /\ FrameByte(aBytes', f, 2) = FrameByte(aBytes, f, 2)
        /\ FrameByte(aBytes', f, 3) = FrameByte(aBytes, f, 3)
    BY <1>1, <2>1
  <2>. QED
    BY <1>4, <2>2 DEF Holds
<1>. QED
  BY <1>2, <1>3, <1>4, FrameType, Makers

LEMMA KeptHold ==
  ASSUME Inv, [Next]_vars, frames \in Seq(Frame), AllHold(frames, aBytes)
  PROVE  AllHold(Kept, aBytes')
<1>. SUFFICES ASSUME NEW i \in DOMAIN Kept, Kept[i].intact
     PROVE  Holds(aBytes', Kept[i]) = Kept[i].saved
  BY DEF AllHold
<1>1. i \in 1 .. Len(frames) /\ i \in DOMAIN frames /\ frames[i] \in Frame
  BY KeptFrames, LenProperties
<1>2. Kept[i] = frames[i] /\ frames[i].intact /\ FrameCells(frames[i]) \cap Written = {}
  BY <1>1, KeptFrames
<1>. QED
  BY <1>1, <1>2, UnwrittenFrame DEF AllHold

LEMMA KeptLinked ==
  ASSUME frames \in Seq(Frame), NEW p, Linked(frames, p)
  PROVE  Linked(Kept, p)
<1>1. Len(frames) \in Nat
  BY LenProperties
<1>2. Kept # <<>> => frames # <<>> /\ 1 \in 1 .. Len(frames)
  BY <1>1, KeptFrames
<1>3. \A i \in 1 .. Len(frames) - 1 : i \in 1 .. Len(frames) /\ i + 1 \in 1 .. Len(frames)
  BY <1>1
<1>. QED
  BY <1>2, <1>3, KeptFrames DEF Linked

\* A frame in front of others.
LEMMA FrameAdded ==
  ASSUME NEW fs \in Seq(Frame), NEW p, Linked(fs, p), NEW f \in Frame,
         p = (f.at + Length[f.by]) % 256,
         NEW memory, AllHold(fs, memory), Holds(memory, f) = f.saved
  PROVE  /\ <<f>> \o fs \in Seq(Frame)
         /\ Linked(<<f>> \o fs, f.at)
         /\ AllHold(<<f>> \o fs, memory)
<1>. DEFINE gs == <<f>> \o fs
            n == Len(fs)
<1>1. n \in Nat /\ DOMAIN fs = 1 .. n
  BY LenProperties
<1>2. <<f>> \in Seq(Frame) /\ Len(<<f>>) = 1 /\ <<f>>[1] = f
  OBVIOUS
<1>3. /\ gs \in Seq(Frame) /\ Len(gs) = 1 + n
      /\ \A i \in 1 .. 1 + n : gs[i] = IF i <= 1 THEN <<f>>[i] ELSE fs[i - 1]
  BY <1>2, ConcatProperties
<1>. HIDE DEF gs
<1>4. gs[1] = f /\ \A i \in 1 .. n : gs[i + 1] = fs[i]
  <2>1. gs[1] = f
    BY <1>1, <1>2, <1>3
  <2>2. ASSUME NEW i \in 1 .. n PROVE gs[i + 1] = fs[i]
    <3>1. i + 1 \in 1 .. 1 + n /\ ~ (i + 1 <= 1) /\ i + 1 - 1 = i
      BY <1>1
    <3>. QED
      BY <1>3, <3>1
  <2>. QED
    BY <2>1, <2>2
<1>5. DOMAIN gs = 1 .. 1 + n
  BY <1>3, LenProperties
<1>6. Linked(gs, f.at)
  <2>. SUFFICES ASSUME NEW i \in 1 .. Len(gs) - 1
       PROVE  gs[i + 1].at = (gs[i].at + Length[gs[i].by]) % 256
    BY <1>4 DEF Linked
  <2>1. i \in 1 .. n
    BY <1>1, <1>3
  <2>2. CASE i = 1
    <3>1. fs # <<>>
      BY <1>1, <2>1
    <3>2. fs[1].at = p /\ gs[i + 1] = fs[1] /\ gs[i] = f
      BY <1>4, <2>1, <2>2, <3>1 DEF Linked
    <3>. QED
      BY <3>2
  <2>3. CASE i # 1
    <3>1. i - 1 \in 1 .. n - 1 /\ i - 1 \in 1 .. n /\ i - 1 + 1 = i
      BY <1>1, <2>1, <2>3
    <3>2. gs[i] = fs[i - 1] /\ gs[i + 1] = fs[i]
      BY <1>4, <2>1, <3>1
    <3>3. fs[i - 1 + 1].at = (fs[i - 1].at + Length[fs[i - 1].by]) % 256
      BY <3>1 DEF Linked
    <3>. QED
      BY <3>1, <3>2, <3>3
  <2>. QED
    BY <2>2, <2>3
<1>7. AllHold(gs, memory)
  <2>. SUFFICES ASSUME NEW i \in 1 .. 1 + n, gs[i].intact
       PROVE  Holds(memory, gs[i]) = gs[i].saved
    BY <1>5 DEF AllHold
  <2>1. CASE i = 1
    BY <1>4, <2>1
  <2>2. CASE i # 1
    <3>1. i - 1 \in 1 .. n /\ i - 1 + 1 = i
      BY <1>1, <2>2
    <3>2. gs[i] = fs[i - 1]
      BY <1>4, <3>1
    <3>. QED
      BY <1>1, <3>1, <3>2 DEF AllHold
  <2>. QED
    BY <2>1, <2>2
<1>. QED
  BY <1>3, <1>6, <1>7 DEF gs

LEMMA FramesForgotten ==
  ASSUME NEW fs \in Seq(Frame), NEW p, Linked(fs, p), NEW memory, AllHold(fs, memory)
  PROVE  /\ Remembered(fs) \in Seq(Frame)
         /\ Linked(Remembered(fs), p)
         /\ AllHold(Remembered(fs), memory)
<1>. DEFINE gs == Remembered(fs)
            n == IF Len(fs) <= MaxFrames THEN Len(fs) ELSE MaxFrames
<1>1. /\ Len(fs) \in Nat /\ DOMAIN fs = 1 .. Len(fs)
      /\ \A i \in 1 .. Len(fs) : fs[i] \in Frame
  BY LenProperties
<1>2. n \in Nat /\ n <= Len(fs)
  BY <1>1 DEF MaxFrames, STACK_TOP, STACK_BASE
<1>3. gs = SubSeq(fs, 1, n)
  BY DEF Remembered
<1>. HIDE DEF n, gs
<1>4. \A i \in 1 .. n : i \in 1 .. Len(fs) /\ fs[i] \in Frame
  BY <1>1, <1>2
<1>5. /\ gs \in Seq(Frame)
      /\ Len(gs) = IF 1 <= n THEN n - 1 + 1 ELSE 0
      /\ \A i \in 1 .. n - 1 + 1 : gs[i] = fs[1 + i - 1]
  BY <1>2, <1>3, <1>4, SubSeqProperties
<1>6. Len(gs) = n /\ \A i \in 1 .. n : gs[i] = fs[i]
  BY <1>2, <1>5
<1>7. DOMAIN gs = 1 .. n
  BY <1>5, <1>6, LenProperties
<1>8. gs # <<>> => fs # <<>> /\ gs[1] = fs[1]
  BY <1>1, <1>2, <1>5, <1>6
<1>9. \A i \in 1 .. n - 1 : i \in 1 .. n /\ i + 1 \in 1 .. n /\ i \in 1 .. Len(fs) - 1
  BY <1>1, <1>2
<1>10. Linked(gs, p)
  BY <1>6, <1>8, <1>9 DEF Linked
<1>11. AllHold(gs, memory)
  BY <1>1, <1>4, <1>6, <1>7 DEF AllHold
<1>. QED
  BY <1>5, <1>10, <1>11 DEF gs

LEMMA FrameRemoved ==
  ASSUME NEW fs \in Seq(Frame), fs # <<>>, NEW p, Linked(fs, p), NEW memory,
         AllHold(fs, memory)
  PROVE  /\ Tail(fs) \in Seq(Frame)
         /\ Linked(Tail(fs), (p + Length[fs[1].by]) % 256)
         /\ AllHold(Tail(fs), memory)
<1>. DEFINE gs == Tail(fs)
            n == Len(gs)
<1>1. /\ Len(fs) \in Nat /\ DOMAIN fs = 1 .. Len(fs)
      /\ gs \in Seq(Frame) /\ n = Len(fs) - 1
      /\ \A i \in 1 .. n : gs[i] = fs[i + 1]
  BY LenProperties, HeadTailProperties
<1>. HIDE DEF gs
<1>2. n \in Nat /\ DOMAIN gs = 1 .. n
  BY <1>1, LenProperties
<1>3. gs # <<>> => 1 \in 1 .. n /\ 1 \in 1 .. Len(fs) - 1
  BY <1>1, <1>2
<1>4. \A i \in 1 .. n - 1 : i \in 1 .. n /\ i + 1 \in 1 .. n /\ i + 1 \in 1 .. Len(fs) - 1
  BY <1>1, <1>2
<1>5. \A i \in 1 .. n : i + 1 \in 1 .. Len(fs)
  BY <1>1, <1>2
<1>6. gs # <<>> => gs[1].at = (p + Length[fs[1].by]) % 256
  BY <1>1, <1>3 DEF Linked
<1>7. Linked(gs, (p + Length[fs[1].by]) % 256)
  BY <1>1, <1>4, <1>6 DEF Linked
<1>8. AllHold(gs, memory)
  BY <1>1, <1>2, <1>5 DEF AllHold
<1>. QED
  BY <1>1, <1>7, <1>8 DEF gs

-----------------------------------------------------------------------------
(***************************************************************************)
(* The invariant.                                                          *)
(***************************************************************************)
LEMMA FramesStart == FramesInit => FramesInv
<1>. SUFFICES ASSUME FramesInit PROVE FramesInv
  OBVIOUS
<1>1. Inv /\ frames = <<>>
  BY InitInv DEF FramesInit
<1>2. frames \in Seq(Frame) /\ Len(frames) = 0 /\ DOMAIN frames = {}
  BY <1>1
<1>. QED
  BY <1>1, <1>2 DEF FramesInv, FramesOnStack, Linked, AllHold

LEMMA SavedType ==
  ASSUME Inv, NEW op \in Maker
  PROVE  Saved[op] \in SavedValue
<1>1. /\ iAccumulator \in Byte /\ iStatus \in SUBSET Flag
      /\ (iProgramCounter + 3) % MEM_SIZE \in Address
      /\ (iProgramCounter + 2) % MEM_SIZE \in Address
  BY Registers, RealFlags, AddressIsInt, IndexType
<1>2. /\ Saved["PHA"] = iAccumulator /\ Saved["PHP"] = iStatus
      /\ Saved["JSR"] = (iProgramCounter + 3) % MEM_SIZE
      /\ Saved["BRK"] = <<iStatus, (iProgramCounter + 2) % MEM_SIZE>>
  BY DEF Saved
<1>3. /\ Saved["PHA"] \in SavedValue /\ Saved["PHP"] \in SavedValue
      /\ Saved["JSR"] \in SavedValue /\ Saved["BRK"] \in SavedValue
  BY <1>1, <1>2 DEF SavedValue
<1>. QED
  BY <1>3, Makers

LEMMA PushesStep ==
  ASSUME FramesInv, Inv', Next, Pushes
  PROVE  frames' \in Seq(Frame) /\ Linked(frames', iStackPointer') /\ AllHold(frames', aBytes')
<1>1. PICK op \in Maker :
        /\ Fetched(op) # {}
        /\ frames' = Remembered(<<[by |-> op, saved |-> Saved[op], at |-> iStackPointer',
                                   intact |-> TRUE]>> \o Kept)
  BY DEF Pushes
<1>. DEFINE f == [by |-> op, saved |-> Saved[op], at |-> iStackPointer', intact |-> TRUE]
<1>2. f \in Frame
  <2>1. Saved[op] \in SavedValue /\ iStackPointer' \in Byte
    BY SavedType DEF FramesInv, Inv, MachineOK
  <2>. QED
    BY <2>1 DEF Frame
<1>3. iStackPointer' = Below(iStackPointer, Length[op]) /\ Holds(aBytes', f) = f.saved
  BY <1>1, FrameMade DEF FramesInv
<1>4. iStackPointer = (f.at + Length[f.by]) % 256
  <2>1. iStackPointer \in Byte /\ Length[op] \in {1, 2, 3}
    BY Registers, Makers DEF FramesInv
  <2>. QED
    BY <1>3, <2>1, PointerReturns
<1>5. /\ Kept \in Seq(Frame)
      /\ Linked(Kept, iStackPointer)
      /\ AllHold(Kept, aBytes')
  BY KeptFrames, KeptLinked, KeptHold DEF FramesInv, FramesOnStack
<1>6. frames' = Remembered(<<f>> \o Kept) /\ f.at = iStackPointer'
  BY <1>1
<1>. HIDE DEF f
<1>. QED
  BY <1>2, <1>3, <1>4, <1>5, <1>6, FrameAdded, FramesForgotten

LEMMA PullsStep ==
  ASSUME FramesInv, Next, Pulls
  PROVE  frames' \in Seq(Frame) /\ Linked(frames', iStackPointer') /\ AllHold(frames', aBytes')
<1>1. PICK op \in Maker :
        /\ Fetched(Taker[op]) # {}
        /\ frames' = IF frames # <<>> /\ Length[Head(frames).by] = Length[op]
                     THEN Tail(frames) ELSE <<>>
  BY DEF Pulls
<1>2. iStackPointer' = (iStackPointer + Length[op]) % 256 /\ aBytes' = aBytes
  BY <1>1, PointerPulled
<1>3. CASE frames # <<>> /\ Length[Head(frames).by] = Length[op]
  <2>1. Head(frames) = frames[1]
    BY <1>3 DEF FramesInv
  <2>. QED
    BY <1>1, <1>2, <1>3, <2>1, FrameRemoved DEF FramesInv, FramesOnStack
<1>4. CASE ~ (frames # <<>> /\ Length[Head(frames).by] = Length[op])
  BY <1>1, <1>4 DEF Linked, AllHold
<1>. QED
  BY <1>3, <1>4

LEMMA FramesStep == ASSUME FramesInv, [FramesNext]_framed PROVE FramesInv'
<1>1. [Next]_vars /\ Inv'
  BY InvStep DEF FramesInv, FramesNext, framed
<1>. SUFFICES frames' \in Seq(Frame) /\ Linked(frames', iStackPointer') /\ AllHold(frames', aBytes')
  BY <1>1 DEF FramesInv, FramesOnStack
<1>2. CASE Next /\ Pushes
  BY <1>1, <1>2, PushesStep
<1>3. CASE Next /\ Pulls
  BY <1>3, PullsStep
<1>4. CASE Moves
  BY <1>4 DEF Moves, Linked, AllHold
<1>5. CASE LeavesFrames
  <2>1. frames' = Kept /\ iStackPointer' = iStackPointer
    BY <1>1, <1>5, PointerStays DEF LeavesFrames
  <2>. QED
    BY <1>1, <2>1, KeptFrames, KeptLinked, KeptHold DEF FramesInv, FramesOnStack
<1>6. CASE UNCHANGED framed
  <2>1. frames' = frames /\ iStackPointer' = iStackPointer /\ aBytes' = aBytes
    BY <1>6 DEF framed, vars, registers
  <2>. QED
    BY <2>1 DEF FramesInv, FramesOnStack
<1>. QED
  BY <1>2, <1>3, <1>4, <1>5, <1>6 DEF FramesNext

\* In every program the frames that nothing has overwritten lie on the stack as
\* they were made, and those that are left when some are taken off lie at the
\* pointer again.
THEOREM StackHoldsFrames == FramesSpec => []FramesOnStack
<1>1. FramesInv => FramesOnStack
  BY DEF FramesInv
<1>. QED
  BY <1>1, FramesStart, FramesStep, PTL DEF FramesSpec

LEMMA GiveStepHolds == ASSUME FramesInv, [FramesNext]_framed, ~ UNCHANGED framed PROVE GiveStep
<1>1. Next
  BY DEF FramesNext
<1>2. ASSUME NEW op \in Maker, Takes(op)
      PROVE  /\ op = "PHA" => iAccumulator' = Given
             /\ op = "PHP" => iStatus' = Given
             /\ op = "JSR" => iProgramCounter' = Given
             /\ op = "BRK" => <<iStatus', iProgramCounter'>> = Given
  <2>1. /\ frames # <<>> /\ frames[1].by = op /\ frames[1].intact
        /\ Fetched(Taker[op]) # {}
    BY <1>2 DEF Takes
  <2>2. 1 \in DOMAIN frames
    BY <2>1 DEF FramesInv
  <2>3. frames[1].at = iStackPointer /\ Holds(aBytes, frames[1]) = Given
    BY <2>1, <2>2 DEF FramesInv, FramesOnStack, Linked, AllHold, Given
  <2>. QED
    BY <1>1, <2>1, <2>3, FrameTaken DEF FramesInv
<1>. QED
  BY <1>2, Makers DEF GiveStep

\* In every program an instruction that takes an intact frame off the stack
\* restores what the one that made it saved.
THEOREM GivenBack == FramesSpec => FramesGiveBack
<1>1. FramesInv /\ [FramesNext]_framed => [GiveStep]_framed
  <2>. SUFFICES ASSUME FramesInv, [FramesNext]_framed, ~ UNCHANGED framed PROVE GiveStep
    OBVIOUS
  <2>. QED
    BY GiveStepHolds
<1>. QED
  BY <1>1, FramesStart, FramesStep, PTL DEF FramesSpec, FramesGiveBack
=============================================================================
