----------------------------- MODULE MainProofs -----------------------------
(***************************************************************************)
(* The single operation test of main() executes LENGTH operations in every *)
(* run, for every place and length of the block that leaves room for its   *)
(* exit, every number of runs and whatever memory held before: those of    *)
(* the program, 32 K operations behind the stack page, among them.  The    *)
(* machine stays one under both tests, and the verdict is about the last   *)
(* run of the functional one, whatever its image is.                       *)
(***************************************************************************)
EXTENDS Main, CpuProofs

NopSteps == {"blockFill", "writeByte", "runFrom"}

Fresh == registers = <<0, {F_ZERO}, 0, 0, STACK_TOP - STACK_BASE>>

\* The first n cells of the block hold operations.
Filled(n) == \A a \in START .. START + n - 1 : readByte(aBytes, a) = OPERATION

\* A run is n operations into the block.
Within(n) == instrs = n /\ iProgramCounter = START + n

NopInv ==
  at \in NopSteps =>
    /\ Fresh
    /\ runs \in Nat
    /\ at # "runFrom" => ~running /\ runs = 0
    /\ at = "writeByte" => Filled(LENGTH)
    /\ at = "runFrom" => Filled(LENGTH) /\ readByte(aBytes, START + LENGTH) = 255
    /\ at = "runFrom" /\ running => \E n \in 0 .. LENGTH : Within(n)
    /\ at = "runFrom" /\ ~running /\ runs > 0 => Within(LENGTH)

-----------------------------------------------------------------------------
(***************************************************************************)
(* What the two bytes of the test mean to the interpreter.                 *)
(***************************************************************************)
LEMMA OperationByte == OPERATION = 234
  BY DEF OPERATION, Opcode

LEMMA OperationFetched ==
  ASSUME opcode = OPERATION, running
  PROVE  Fetched("NOP") = {"IMP"}
<1>1. DOMAIN Opcode["NOP"] = {"IMP"} /\ Opcode["NOP"]["IMP"] = 234
  BY DEF Opcode
<1>. QED
  BY <1>1, OperationByte DEF Fetched

LEMMA ExitFetched ==
  ASSUME opcode = 255
  PROVE  \A op \in DOMAIN Opcode : Fetched(op) = {}
<1>1. label(opcode) = BAD
  BY UnusedBad DEF Unused
<1>. QED
  BY <1>1, LabelOf DEF BAD

\* Illegal bytes end a run, NOP does not.
LEMMA ExitByte ==
  ASSUME Exit
  PROVE  opcode # OPERATION
<1>. SUFFICES ASSUME opcode = OPERATION PROVE FALSE
  OBVIOUS
<1>1. running
  BY DEF Exit, illegal, JumpToSelf, Fetched
<1>2. Fetched("NOP") # {} /\ Fetched("JMP") = {}
  BY <1>1, OperationFetched, OpcodeNames, FetchedAlone
<1>. QED
  BY <1>2, OpcodeNames DEF Exit, illegal, JumpToSelf

-----------------------------------------------------------------------------
(***************************************************************************)
(* The block.                                                              *)
(***************************************************************************)
LEMMA SmallRemainder ==
  ASSUME NEW a \in Int, NEW n \in Nat \ {0}, 0 <= a, a < n
  PROVE  a % n = a
  OBVIOUS

LEMMA InMemory ==
  ASSUME NEW a \in Address
  PROVE  a % MEM_SIZE = a
<1>1. MEM_SIZE \in Nat \ {0}
  BY DEF MEM_SIZE
<1>. QED
  BY <1>1, SmallRemainder DEF Address

LEMMA BlockInMemory ==
  /\ START \in Nat /\ LENGTH \in Nat
  /\ \A a \in START .. START + LENGTH : a \in Address /\ a % MEM_SIZE = a
<1>1. START \in Nat /\ LENGTH \in Nat
  BY NopTestAssumption, HostAssumption DEF Address
<1>2. \A a \in START .. START + LENGTH : a \in Address
  <2>1. MEM_SIZE \in Nat
    BY DEF MEM_SIZE
  <2>. QED
    BY <1>1, <2>1, NopTestAssumption DEF Address
<1>. QED
  BY <1>1, <1>2, InMemory

\* blockFill fills the block at least, whatever else it fills.
LEMMA BlockFilled ==
  ASSUME fillOperations
  PROVE  Filled(LENGTH)'
<1>. DEFINE iMaxLength == (MEM_SIZE - START) % MEM_SIZE
            n == IF iMaxLength > LENGTH THEN iMaxLength ELSE LENGTH
            filled == START .. START - 1 + n
<1>1. iMaxLength \in Int
  BY BlockInMemory DEF MEM_SIZE
<1>2. START .. START + LENGTH - 1 \subseteq filled
  BY <1>1, BlockInMemory
<1>3. aBytes' = [a \in DOMAIN aBytes \cup filled |-> IF a \in filled THEN OPERATION ELSE aBytes[a]]
  BY DEF fillOperations, blockFill
<1>. HIDE DEF filled
<1>4. \A a \in START .. START + LENGTH - 1 : a % MEM_SIZE = a
  BY BlockInMemory
<1>5. \A a \in START .. START + LENGTH - 1 : readByte(aBytes', a) = OPERATION
  BY <1>2, <1>3, <1>4 DEF readByte
<1>. QED
  BY <1>5 DEF Filled

\* The exit is written behind the block and changes none of its operations.
LEMMA ExitWritten ==
  ASSUME writeExit, Filled(LENGTH)
  PROVE  Filled(LENGTH)' /\ readByte(aBytes', START + LENGTH) = 255
<1>. DEFINE end == START + LENGTH
<1>1. end % MEM_SIZE = end
  BY BlockInMemory
<1>2. \A a \in START .. end - 1 : a % MEM_SIZE = a /\ a # end
  BY BlockInMemory
<1>3. aBytes' = [b \in DOMAIN aBytes \cup {end} |-> IF b = end THEN 255 ELSE aBytes[b]]
  BY <1>1 DEF writeExit, writeByte
<1>4. \A a \in START .. end - 1 : readByte(aBytes, a) = OPERATION
  BY BlockInMemory DEF Filled
<1>. HIDE DEF end
<1>5. readByte(aBytes', end) = 255
  BY <1>1, <1>3 DEF readByte
<1>6. \A a \in START .. end - 1 : readByte(aBytes', a) = OPERATION
  BY <1>2, <1>3, <1>4 DEF readByte
<1>. QED
  BY <1>5, <1>6, BlockInMemory DEF Filled, end

-----------------------------------------------------------------------------
(***************************************************************************)
(* A run.                                                                  *)
(***************************************************************************)
\* n operations into a run, the next byte is an operation or the exit.
LEMMA NextByteIs ==
  ASSUME NEW n \in 0 .. LENGTH, Within(n), Filled(LENGTH), readByte(aBytes, START + LENGTH) = 255
  PROVE  opcode = IF n < LENGTH THEN OPERATION ELSE 255
<1>1. n < LENGTH => START + n \in START .. START + LENGTH - 1
  BY BlockInMemory
<1>2. ~ (n < LENGTH) => START + n = START + LENGTH
  BY BlockInMemory
<1>. QED
  BY <1>1, <1>2 DEF Within, Filled, opcode

\* An instruction of a run is an operation and leaves what it found.
LEMMA OperationStep ==
  ASSUME NEW n \in 0 .. LENGTH, Within(n), Filled(LENGTH), readByte(aBytes, START + LENGTH) = 255,
         execute
  PROVE  n < LENGTH /\ Within(n + 1)' /\ UNCHANGED <<registers, aBytes, host, at>>
<1>1. Instruction /\ running
  BY InstructionStaysIn DEF execute
<1>2. n < LENGTH
  <2>. SUFFICES ASSUME ~ (n < LENGTH) PROVE FALSE
    OBVIOUS
  <2>1. \A op \in DOMAIN Opcode : Fetched(op) = {}
    BY NextByteIs, ExitFetched
  <2>. QED
    BY <1>1, <2>1, NoHandler
<1>3. NOP /\ Fetched("NOP") = {"IMP"}
  BY <1>1, <1>2, NextByteIs, OperationFetched, HandlerOf, OpcodeNames DEF Handler
<1>4. SetStatus("IMP", iStatus)
  BY <1>3 DEF NOP
<1>5. iProgramCounter' = START + (n + 1)
  <2>1. SIZE["IMP"] = 1
    BY DEF SIZE
  <2>2. START + (n + 1) \in START .. START + LENGTH /\ START + n + 1 = START + (n + 1)
    BY <1>2, BlockInMemory
  <2>3. iProgramCounter' = (START + n + 1) % MEM_SIZE
    BY <1>4, <2>1 DEF SetStatus, size, goto, Within
  <2>. QED
    BY <2>2, <2>3, BlockInMemory
<1>6. instrs' = n + 1
  BY <1>2, NopTestAssumption, HostAssumption DEF execute, Within
<1>. QED
  BY <1>2, <1>4, <1>5, <1>6 DEF Within, SetStatus, execute, registers

-----------------------------------------------------------------------------
LEMMA NopInit == MainInit => NopInv
<1>1. MainInit => runs = 0 /\ at = "blockFill" /\ ~running /\ Fresh
  BY DEF MainInit, NopTestInit, HostInit, Init, Fresh, registers
<1>. QED
  BY <1>1 DEF NopInv, NopSteps

\* The steps of main() that prepare the runs and call them.
LEMMA PrepareStep ==
  ASSUME NopInv, fillOperations \/ writeExit \/ timedRun
  PROVE  NopInv'
<1>1. CASE fillOperations
  <2>1. at \in NopSteps /\ at # "runFrom" /\ at' = "writeByte" /\ UNCHANGED <<registers, host>>
    BY <1>1 DEF fillOperations, Goes, NopSteps
  <2>. QED
    BY <1>1, <2>1, BlockFilled DEF NopInv, Fresh, host
<1>2. CASE writeExit
  <2>1. at = "writeByte" /\ at \in NopSteps /\ at' = "runFrom" /\ UNCHANGED <<registers, host>>
    BY <1>2 DEF writeExit, Goes, NopSteps
  <2>2. Filled(LENGTH)' /\ readByte(aBytes', START + LENGTH) = 255
    BY <1>2, <2>1, ExitWritten DEF NopInv
  <2>. QED
    BY <2>1, <2>2 DEF NopInv, Fresh, host
<1>3. CASE timedRun
  <2>1. at = "runFrom" /\ at \in NopSteps /\ at' = "runFrom" /\ UNCHANGED <<registers, aBytes>>
    BY <1>3 DEF timedRun, Goes, NopSteps, runFrom
  <2>2. running' /\ runs' = runs + 1 /\ Within(0)'
    BY <1>3, BlockInMemory DEF timedRun, runFrom, Within
  <2>3. 0 \in 0 .. LENGTH
    BY BlockInMemory
  <2>. QED
    BY <2>1, <2>2, <2>3 DEF NopInv, Fresh, Filled
<1>. QED
  BY <1>1, <1>2, <1>3

\* The steps of the processor inside a run.
LEMMA RunStep ==
  ASSUME NopInv, at \in NopSteps, execute \/ stop
  PROVE  NopInv'
<1>1. running /\ at = "runFrom"
  <2>1. execute => running
    BY InstructionStaysIn DEF execute
  <2>2. stop => running
    BY DEF stop, Exit, illegal, JumpToSelf, Fetched
  <2>. QED
    BY <2>1, <2>2 DEF NopInv
<1>2. /\ Fresh /\ runs \in Nat
      /\ Filled(LENGTH) /\ readByte(aBytes, START + LENGTH) = 255
  BY <1>1 DEF NopInv
<1>3. PICK n \in 0 .. LENGTH : Within(n)
  BY <1>1 DEF NopInv
<1>4. CASE execute
  <2>1. n < LENGTH /\ Within(n + 1)' /\ UNCHANGED <<registers, aBytes, host, at>>
    BY <1>2, <1>3, <1>4, OperationStep
  <2>2. n + 1 \in 0 .. LENGTH
    BY <2>1, BlockInMemory
  <2>. QED
    BY <1>1, <1>2, <2>1, <2>2 DEF NopInv, Fresh, Filled, host
<1>5. CASE stop
  <2>1. n = LENGTH
    BY <1>2, <1>3, <1>5, NextByteIs, ExitByte, BlockInMemory DEF stop
  <2>2. /\ running' = FALSE
        /\ UNCHANGED <<iProgramCounter, registers, aBytes, runs, at, instrs>>
    BY <1>5 DEF stop, Exit, illegal, JumpToSelf, return
  <2>. QED
    BY <1>1, <1>2, <1>3, <2>1, <2>2 DEF NopInv, Fresh, Filled, Within
<1>. QED
  BY <1>4, <1>5

\* The test of Klaus Dormann comes after: it does not go back to these steps.
LEMMA NopInvStep ==
  ASSUME NopInv, [MainNext]_main
  PROVE  NopInv'
<1>1. CASE fillOperations \/ writeExit \/ timedRun
  BY <1>1, PrepareStep
<1>2. CASE loadROM \/ klausRun \/ judge
  <2>1. at' \notin NopSteps
    BY <1>2 DEF loadROM, klausRun, judge, Goes, NopSteps
  <2>. QED
    BY <2>1 DEF NopInv
<1>3. CASE execute \/ stop
  <2>1. CASE at \in NopSteps
    BY <1>3, <2>1, RunStep
  <2>2. CASE at \notin NopSteps
    <3>1. at' = at
      BY <1>3 DEF execute, stop
    <3>. QED
      BY <2>2, <3>1 DEF NopInv
  <2>. QED
    BY <2>1, <2>2
<1>4. CASE UNCHANGED main
  BY <1>4 DEF main, test, vars, registers, host, NopInv, Fresh, Filled, Within
<1>. QED
  BY <1>1, <1>2, <1>3, <1>4 DEF MainNext, NopTestNext

\* Every run of the single operation test executes LENGTH operations, ends at
\* the byte written for it and leaves the registers as they were constructed,
\* for every START, LENGTH and number of runs.
THEOREM TestExecutesLength == MainSpec => []RunsExecuteLength
<1>1. NopInv => RunsExecuteLength
  BY DEF NopInv, NopSteps, RunsExecuteLength, Fresh, Within
<1>. QED
  BY <1>1, NopInit, NopInvStep, PTL DEF MainSpec

-----------------------------------------------------------------------------
(***************************************************************************)
(* What main() does to memory between the runs.                            *)
(***************************************************************************)
LEMMA FillType ==
  ASSUME NEW m, IsMemory(m)
  PROVE  IsMemory(blockFill(m, START, LENGTH, OPERATION))
<1>. DEFINE left   == (MEM_SIZE - START) % MEM_SIZE
            n      == IF left > LENGTH THEN left ELSE LENGTH
            filled == START .. START - 1 + n
            f      == [a \in DOMAIN m \cup filled |-> IF a \in filled THEN OPERATION ELSE m[a]]
<1>1. left = MEM_SIZE - START
  <2>1. MEM_SIZE - START \in Int /\ 0 <= MEM_SIZE - START /\ MEM_SIZE - START < MEM_SIZE
    BY NopTestAssumption DEF Address, MEM_SIZE
  <2>. QED
    BY <2>1, SmallRemainder DEF MEM_SIZE
<1>2. filled \subseteq 0 .. MEM_SIZE - 1
  <2>1. n \in Nat /\ START + n <= MEM_SIZE /\ START \in Nat /\ MEM_SIZE \in Nat
    BY <1>1, BlockInMemory, NopTestAssumption DEF MEM_SIZE
  <2>. HIDE DEF n
  <2>. QED
    BY <2>1
<1>3. blockFill(m, START, LENGTH, OPERATION) = f
  BY DEF blockFill
<1>. HIDE DEF filled
<1>4. \A a \in DOMAIN f : f[a] \in 0 .. 255
  BY OperationByte DEF IsMemory
<1>5. DOMAIN f \subseteq 0 .. MEM_SIZE - 1
  BY <1>2 DEF IsMemory
<1>. QED
  BY <1>3, <1>4, <1>5 DEF IsMemory

LEMMA ImageType ==
  ASSUME NEW m, IsMemory(m), NEW sROM \in Files
  PROVE  IsMemory(loadImage(m, sROM, 0))
<1>. DEFINE loaded == {a \in 0 .. MEM_SIZE - 1 : a - 0 < Len(sROM)}
            f      == [a \in DOMAIN m \cup loaded |->
                         IF a \in loaded THEN sROM[a - 0 + 1] ELSE m[a]]
<1>1. sROM \in Seq(Byte)
  BY MainAssumption
<1>2. \A a \in loaded : sROM[a - 0 + 1] \in 0 .. 255
  <2>. SUFFICES ASSUME NEW a \in loaded PROVE sROM[a - 0 + 1] \in 0 .. 255
    OBVIOUS
  <2>1. Len(sROM) \in Nat /\ \A i \in 1 .. Len(sROM) : sROM[i] \in Byte
    BY <1>1
  <2>2. a - 0 + 1 \in 1 .. Len(sROM)
    BY <2>1 DEF MEM_SIZE
  <2>. QED
    BY <2>1, <2>2 DEF Byte
<1>3. loadImage(m, sROM, 0) = f
  BY DEF loadImage
<1>4. loaded \subseteq 0 .. MEM_SIZE - 1
  OBVIOUS
<1>. HIDE DEF loaded
<1>5. \A a \in DOMAIN f : f[a] \in 0 .. 255
  BY <1>2 DEF IsMemory
<1>. QED
  BY <1>3, <1>4, <1>5 DEF IsMemory

\* The steps of main() leave a machine, whatever they write and load.
LEMMA MainInv ==
  ASSUME Inv, [MainNext]_main
  PROVE  Inv'
<1>1. \A a \in Address : runFrom(a) => Inv'
  BY SameMachine DEF runFrom
<1>2. CASE fillOperations
  <2>1. IsMemory(aBytes')
    BY <1>2, FillType, Registers DEF fillOperations
  <2>. QED
    BY <1>2, <2>1, Registers, HandlerStep DEF fillOperations, registers
<1>3. CASE writeExit
  <2>1. START + LENGTH \in Int /\ 255 \in Byte
    BY BlockInMemory DEF Byte
  <2>2. IsMemory(aBytes')
    BY <1>3, <2>1, WriteByteType, Registers DEF writeExit
  <2>. QED
    BY <1>3, <2>2, Registers, HandlerStep DEF writeExit, registers
<1>4. CASE timedRun
  BY <1>1, <1>4, NopTestAssumption DEF timedRun
<1>5. CASE loadROM
  <2>1. IsMemory(aBytes')
    BY <1>5, ImageType, Registers DEF loadROM
  <2>. QED
    BY <1>5, <2>1, Registers, HandlerStep DEF loadROM, registers
<1>6. CASE klausRun
  BY <1>1, <1>6, MainAssumption DEF klausRun
<1>7. CASE judge \/ UNCHANGED main
  BY <1>7, SameMachine, Registers DEF judge, main, test, vars
<1>8. CASE execute \/ stop
  BY <1>8, InstructionStep, ExitStep DEF execute, stop
<1>. QED
  BY <1>2, <1>3, <1>4, <1>5, <1>6, <1>7, <1>8 DEF MainNext, NopTestNext

\* Through both tests of main(), whatever is filled, loaded and run, registers
\* keep their widths and memory holds bytes at addresses: a fill from START and
\* an image of any length go no further than the end of memory.
THEOREM MachineKept == MainSpec => [](MachineOK /\ BreakNeverInStatus)
<1>1. MainInit => Inv
  BY InitInv DEF MainInit, NopTestInit, HostInit
<1>2. Inv => MachineOK /\ BreakNeverInStatus
  BY DEF Inv
<1>. QED
  BY <1>1, <1>2, MainInv, PTL DEF MainSpec

-----------------------------------------------------------------------------
(***************************************************************************)
(* The verdict of the functional test.  Its first run is number            *)
(* NopRuns + 1, so a number other than NopRuns says that there was one.    *)
(***************************************************************************)
VerdictInv ==
  /\ at # "end" => verdict = "none"
  /\ at = "end" => ~running
  /\ at = "klausRun" => rom # <<>>
  /\ at = "klausRun" /\ ~running /\ runs # NopRuns => AtExit
  /\ VerdictOfLastRun

LEMMA VerdictInit == MainInit => VerdictInv
  BY DEF MainInit, NopTestInit, HostInit, VerdictInv, VerdictOfLastRun

\* Only an image with a byte in it is run.
LEMMA LoadedSome ==
  ASSUME NEW sROM \in Files, loadedBytes(sROM, 0) > 0
  PROVE  sROM # <<>>
<1>. SUFFICES ASSUME sROM = <<>> PROVE FALSE
  OBVIOUS
<1>1. Len(sROM) = 0 /\ MEM_SIZE > 0
  BY DEF MEM_SIZE
<1>. QED
  BY <1>1 DEF loadedBytes, MEM_SIZE

LEMMA JudgeStep ==
  ASSUME VerdictInv, judge
  PROVE  VerdictInv'
<1>1. at = "klausRun" /\ ~running /\ at' = "end" /\ UNCHANGED <<iProgramCounter, aBytes, running, runs, rom>>
  BY DEF judge, Goes, vars, host
<1>2. runs # NopRuns
  <2>1. NopRuns \in Int
    BY NopTestAssumption DEF NopRuns
  <2>. QED
    BY <2>1, NopTestAssumption DEF judge
<1>3. AtExit' /\ rom # <<>>
  BY <1>1, <1>2, AtExitStays DEF VerdictInv
<1>4. verdict' = "passed" <=> iProgramCounter = KLAUS_MAGIC
  BY DEF judge
<1>. QED
  BY <1>1, <1>3, <1>4 DEF judge, VerdictInv, VerdictOfLastRun, NopRuns

LEMMA VerdictStep ==
  ASSUME VerdictInv, [MainNext]_main
  PROVE  VerdictInv'
<1>1. CASE (fillOperations \/ writeExit \/ timedRun) /\ UNCHANGED klaus
  <2>1. /\ at \in NopSteps /\ at' \in NopSteps /\ UNCHANGED klaus
    BY <1>1 DEF fillOperations, writeExit, timedRun, Goes, NopSteps
  <2>. QED
    BY <2>1 DEF NopSteps, klaus, VerdictInv, VerdictOfLastRun
<1>2. CASE loadROM
  <2>1. /\ at # "end" /\ at' \in {"klausRun", "end"} /\ ~running'
        /\ runs' = NopRuns /\ UNCHANGED verdict
    BY <1>2 DEF loadROM, Goes, host, NopRuns
  <2>2. at' = "klausRun" => rom' # <<>>
    BY <1>2, LoadedSome DEF loadROM, Goes
  <2>. QED
    BY <2>1, <2>2 DEF VerdictInv, VerdictOfLastRun, NopRuns
<1>3. CASE klausRun
  BY <1>3 DEF klausRun, Goes, runFrom, klaus, VerdictInv, VerdictOfLastRun
<1>4. CASE judge
  BY <1>4, JudgeStep
<1>5. CASE execute /\ UNCHANGED klaus
  <2>1. running /\ running' /\ at' = at
    BY <1>5, InstructionStaysIn DEF execute, host
  <2>. QED
    BY <1>5, <2>1 DEF klaus, VerdictInv, VerdictOfLastRun
<1>6. CASE stop /\ UNCHANGED klaus
  <2>1. running /\ at' = at /\ AtExit'
    BY <1>6, ExitIsThere, AtExitStays DEF stop, Exit, JumpToSelf, illegal, Fetched
  <2>. QED
    BY <1>6, <2>1 DEF klaus, VerdictInv, VerdictOfLastRun
<1>7. CASE UNCHANGED main
  BY <1>7, AtExitStays DEF main, test, vars, host, klaus, VerdictInv, VerdictOfLastRun, NopRuns
<1>. QED
  BY <1>1, <1>2, <1>3, <1>4, <1>5, <1>6, <1>7 DEF MainNext, NopTestNext

\* Whatever the image, what main() says of the functional test is about its
\* last run, and that run has ended where main() says it did.
THEOREM VerdictHolds == MainSpec => []VerdictOfLastRun
<1>1. VerdictInv => VerdictOfLastRun
  BY DEF VerdictInv
<1>. QED
  BY <1>1, VerdictInit, VerdictStep, PTL DEF MainSpec
=============================================================================
