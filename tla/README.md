# A TLA+ model of C6502PP

C6502PP is a MOS 6502 emulator in C++: a processor class whose interpreter is a chain of
instruction handlers, a byte memory on a bus, two ways to bind them into a system, and
two programs that time them. This directory holds a model of it in TLA+, the TLC
configurations that check the model on small instances, and theorems about it with
proofs for TLAPS. Paths below are relative to the repository's `src/` unless they name a
module.

    tlasany M.tla                          parse a module
    tlc -workers 2 -config X.cfg MCY.tla   check a configuration
    tlapm CpuProofs.tla                    check the proofs of a module

## 1. The system

Nothing in the program runs concurrently and nothing is persisted: a host owns a
processor and a memory, calls methods one after the other, and `run()` does not return
until the emulated program leaves it. What is hard is arithmetic at byte and page
boundaries, flags that are produced by one instruction and consumed many instructions
later, the wrap of the stack, the order of memory accesses inside a handler, the two
ways the interpreter is compiled, and state that stays behind from one run to the next.

| Component | State | Operations | Interacts with | What makes it correct |
|---|---|---|---|---|
| Constants, `include/constants.hpp` | none | the opcode, size and flag enumerations | all others | the enumeration and the jump table of the interpreter say the same |
| Memory, `include/bus/memory.hpp`, `memory.cpp` | `aBytes` | `readByte`, `writeByte`, `blockFill`, `loadImage`, `softReset`, `hardReset` | the processor through the bus, the host directly | it is a flat array of cells: a call reaches the cells it names, fills and images stop at the end |
| Addressing, `internals/addressing.hpp` | none | one function per mode | reads memory and an index register | page zero modes wrap in the page, the absolute ones at the end of memory |
| ALU, `internals/alu.hpp` | `iStatus` | add, subtract in binary and decimal, compare, shift, rotate | called by handlers | results and flags compose: a chain of byte operations computes what the integers say |
| Handlers, `internals/run.hpp` | the six registers | one per opcode, `BAD` for the rest | memory, addressing, ALU | widths; each instruction writes what it owns and nothing else; the stack gives back what was put on it |
| Interpreter builds, `run.hpp` lines 1 to 345 | locals that shadow three registers; a jump table | `pin`, `unpin`, dispatch by table or by switch | the handlers, the host before and after a run | the host cannot tell the builds apart |
| Systems, `include/system.hpp`, `system_type.hpp` | a memory and a processor | `runFrom`, `softReset`, `hardReset` | host | a run starts where it is told |
| Opcode observer, `include/concepts.hpp` | none in the systems that are built | `observe`, `reset`, `dumpStats` | the threaded dispatch and `main()` call it | nothing depends on it: see section 5 |
| Single operation test, `main.cpp` | the loop of `main()` | fill memory, write the exit, timed runs | a system | each run executes the number of operations the speed is computed from |
| Klaus Dormann test, `main.cpp` | the loop of `main()` | load, runs, compare the program counter | a system | the verdict is that of the image |
| Benchmark harness, `bench_harness.cpp`, and five programs in `data/` | `totalOps` | load, `runFrom`, `run` again, count | a system | every op executes the same number of instructions and ends |
| Scripts, `Makefile`, `run_benchmarks.sh` and others | none | compile, run, format | the harness | the counts of instructions they state are right |

`PROJECT.json` lists the hazards at their lines and the properties that answer each of
them.

## 2. Modules

    Memory ---- MemoryDevice --(implements)-- FlatMemory
      |             \-- MCMemory, MemoryProofs
    Constants6502
      |-- Alu
      |-- Addressing
      |-- JumpTable
      Cpu ---------------- CpuProofs -- StepProofs
      |-- MCInstructions
      |-- MCArithmetic --- ArithmeticProofs                  (with StepProofs)
      |-- CallFrames --- MCCallFrames, CallFrameProofs       (with StepProofs)
      |-- Interpreter -- MCInterpreter, InterpreterProofs    (implements Cpu)
      |-- Host
           |-- BenchHarness - MCBench - BenchProofs
           |-- NopTest ---- Main --- MCMain, MainProofs

**Constants6502** has the enumerations: `Opcode[op][mode]` is the byte of an instruction
in a mode, `SIZE[mode]` its length. The program's `STA_ABX` is `Opcode["STA"]["ABX"]`,
so an action quantifies over the modes in which its instruction exists. The status
register is the set of flags that are set; `ToByte` and `Bits` convert where the code
stores or loads it as a byte.

**Memory** has the methods of the two memory classes, which agree, as operators on a
value. The array is kept as the function of the cells written so far, all others reading
zero, so that a program of twenty bytes does not cost a state of 64 K cells. An address
that is too wide is reduced where the C++ parameter type reduces it. **MemoryDevice**
turns the methods into actions whose owner calls them in any order; **FlatMemory** is
what it promises.

**Addressing** and **Alu** have the functions of the headers of those names. An ALU
function updates its operand and the status in place; the operators return both. `&`,
`|`, `^` and the bit tests are operators on sets of bit weights.

**Cpu** is the processor with the memory on its bus: six registers, `aBytes`, and the
two host variables `running` (is the host inside `run()`?) and `runs`. An action is a
handler, from the fetch that selects it to the program counter of the next fetch, with
all its reads and writes in order: `JSR` pushes before it reads its target, so code in
the stack page may change under it, as in the program. The handlers that differ in the
addressing mode only are one action. The two ways out of `run()` are `illegal`, for a
byte that is no opcode, and `JumpToSelf`. `Init` is a constructed processor and some
image in memory; the host may set the program counter and call `run()` between runs.

**CallFrames** adds a history variable to `Cpu`: what `PHA`, `PHP`, `JSR` and `BRK`
saved and no pull took off, newest first. A frame whose bytes a store or a deeper push
overwrote stays in the history but is marked as not intact. The history watches any
program: one that pulls a frame with an instruction of another length, or that moves the
stack pointer with `TXS`, starts anew.

**Interpreter** is the other build. Unless `UNPINNED` is defined, the program counter,
the accumulator and the status are locals of `run()` that hide the members. The
variables of `Cpu` are what the handlers see and therefore the locals here; the record
`this` holds the members. **JumpTable** is the table of the threaded dispatch, entry by
entry.

**Host** has the step of `runFrom` and the two ways an interpreter step looks to a
`main()` that counts instructions. **BenchHarness** is `bench_harness.cpp`, from loading a
program, which may fail, to the loop of ops. **NopTest** is the first half of `main.cpp`,
the single operation test. `at` is the next step of `main()`.

**Main** is `main()` from its first call to its end: the steps of `NopTest` and then the
functional test, which loads an image over what the first test left, runs it once to warm
up and `UNROLL` times more, and compares the program counter of the last run with
`KLAUS_MAGIC`. `rom` is a history of the image that was loaded. The `reset()` of the
observer between loading and running (`main.cpp:99`) is an empty function and has no step.

A definition under the words *With a fault, for the runs to find* is a variant of the
one that follows it with a plausible mistake in it. No specification uses these; in
place of the original each makes the property that `PROJECT.json` names fail, which
shows that the property can.

## 3. Runs

| Run | Instance | Shows |
|---|---|---|
| `instructions` | all 151 instructions and an illegal byte, 2 index settings, 2 sets of flags, 3 accumulators, 3 operands | `TypeOK`; `BreakNeverInStatus`; `MemoryFrame`: a step changes only the cell its store is for or the stack cells its pushes pass; `ShiftsExact`: a shift loses no bit of the cell, the accumulator or the carry; `ResultFlags`: N and Z exclude each other but after a copy from memory; `ModeFlags`: D and I change by their own instructions only; `JumpPointerInPage`: an indirect jump reads its target without leaving the page of its pointer |
| `call_frames` | recursion 1, 2, 127 and 128 deep, an interrupt inside a call inside saved registers at 13 positions of the stack pointer, an overflowing stack, a call that overwrites itself in the stack page, a loop whose branches cross the end of memory both ways | `FramesOnStack`: the frames lie one behind the other with what they saved; `FramesGiveBack`: the instruction that takes a frame off gets what was saved, at the wrap and at a full stack; `RunReturns` |
| `arithmetic` | 169 pairs of words, 56 pairs of bytes | chained `ADC`/`SBC` in binary (`BinaryWords`) and decimal (`DecimalWords`), an 8 by 8 multiplication (`Product`), signed and unsigned order (`Order`) agree with the integers; each single `ADC` and `SBC` on the way does (`ArithmeticExact`) |
| `interpreter` | every byte as an opcode, repeated runs of a loop | `JumpTableAgrees` at every dispatch; `PinningIsInvisible`: the pinned build implements the unpinned one for programs that end at an illegal byte or jump to themselves at once |
| `bench` | the five programs, three ops each, and a missing one | `EveryOpCosts`: an op executes a fixed number of instructions, although nothing is reset between ops; `OpsStartAlike`; `SecondRunIsIdle`; `OpsComplete` |
| `main_tests` | 100 operations ending 28 cells before the end of memory; no image and seven: right, wrong, with an illegal byte, caught in a branch to itself, right once only, right but once, and one that leaves decimal mode on | `RunsExecuteLength`, `AllRunsEnd`; `VerdictOfLastRun`: a verdict is about a loaded image, after all its runs, at the byte where the last has ended; `Verdicts`: it is what the image deserves in the last run after those before it; `KlausEnds`: `main()` comes to its end or stays in a run that never reaches an exit of `run()` |
| `memory` | five cells, two values, three files | `ImplementsFlatMemory` |
| `pinned_self_jump`, `nop_fill`, `bench_costs`, `bench_isolation`, `pre_indexed` | as above | the five findings below: TLC finds the property violated |

### Bounds

- *Programs.* `Cpu` is parameterised by the images; a run fixes some. The program, not
  the model, is the input, and the images are written so that the cases that differ
  occur: an index that carries out of a page and one that does not, operands at 127,
  128, 255 and 0, a pointer at the end of its page, a frame that begins at each of 13
  positions around the end of the stack page. Handlers have no state between
  instructions but registers and memory, so one execution in each such case covers a
  handler.
- `MaxRuns` bounds the calls of `run()`: two show what the second one inherits; the
  harness calls it twice per op, so six are three ops: the first starts from a
  constructed processor, the second from what that left, the third from what an op that
  was itself not the first left.
- `MaxInstrs` is where the history `instrs` stops counting. It is above the longest op
  (2306), so it never acts unless a program hangs.
- *Memory.* With five cells, every combination of start and length of a fill and an
  image longer than, shorter than and as long as what is left of memory occur. The
  behaviour depends on the order of these numbers only. The theorem `Refinement` removes
  the bound.
- `START` and `LENGTH` of the single operation test: the program's 32 K operations at
  0x0200 would put 65024 cells in every state. The theorem `TestExecutesLength` removes
  the bound. `LOOPS` and `UNROLL` are the counts of the loop and of the calls in its
  body; with one loop of three runs there is a first, a middle and a last one.
- *Functional test.* The image of 64 K executes 30 million instructions per run. Those
  of `MCMain` have its shape in a few bytes: data, a check that either reaches the jump
  to itself at `KLAUS_MAGIC` or is trapped elsewhere. What can go wrong in `main()`
  depends on how a run ends and on what it leaves to the next, and the seven images are
  the ways in which both can happen. The one that hangs is a branch to itself; a longer
  loop would hang `main()` in the same way, in more states.

### Fairness

`run()` is a loop that waits for nothing, so an instruction or an exit is always
possible while the host is in it and is taken: `WF_vars(Instruction \/ Exit)`. Host
steps are not assumed in `Cpu`; `RunReturns` starts from a run that has begun. A
`main()` is sequential and waits for nothing either: weak fairness of its next step. The
only alternatives inside a step are the image in the initial state and the file that is
loaded, so weak fairness of the disjunction is as strong as any.

Deadlock is not checked where the host is finite: after `MaxRuns` the programs have
ended. The memory never ends and is checked for deadlock.

### Findings

1. *The pinned build forgets registers* (`pinned_self_jump`). The exit from a jump to
   itself writes back the program counter (`include/internals/run.hpp:1300`) but neither
   the accumulator nor the status; the exit for an illegal byte writes back all three.
   After such a run the host sees both as they were before it.
2. *`blockFill` fills to the end of memory* (`nop_fill`). `include/bus/memory.hpp:29`
   takes the greater of the length asked for and what is left, where the lesser was
   meant. `main_tests` shows that the one caller survives this: the exit byte is written
   afterwards.
3. *The counts of instructions in `run_benchmarks.sh`* (`bench_costs`). An op of the
   branch program executes 1665 instructions and not 1537, one of the mixed program 1794
   and not 2050; `bench` establishes the numbers, and that those of the other three are
   right.
4. *No reset between ops* (`bench_isolation`). `README.md` says of the benchmark loop
   that all registers are reset in between. The harness resets nothing; `bench` shows
   that the instruction count does not suffer.
5. *A pre-indexed pointer leaves page zero* (`pre_indexed`). The comments on
   `addrPreIndexZeroPageXByte` (`include/internals/addressing.hpp:76` and 85) say that the
   mode wraps in page zero. Its pointer does, but `readWord` takes the high byte from the
   next cell, which for a pointer at 255 is the first of the stack page.

Two more observations, which no run refutes because nothing in the repository says
otherwise: the verdict of the functional test is that of its last run, so an image that
fails in an earlier one passes (`Verdicts`, image `Later`); and the number of
instructions that `main.cpp:133` prints for a failed test is that of ten complete
runs, whatever was executed.

## 4. Proofs

Type correctness is a matter of 56 instructions whose operands come from memory a
program wrote itself, and TLC sees a few thousand short programs. TLAPS proves, for all
images, all entry points and any number of runs:

| Theorem | States |
|---|---|
| `CpuProofs!Invariance` | `Spec => []Inv` with `Inv == MachineOK /\ BreakNeverInStatus` |
| `CpuProofs!TypeCorrect`, `CpuProofs!StatusClean` | `Spec => []TypeOK`, `Spec => []BreakNeverInStatus` |
| `StepProofs!Framed`, `StepProofs!ShiftsAreExact` | `Spec => MemoryFrame`, `Spec => ShiftsExact` |
| `StepProofs!ModesKept`, `StepProofs!ResultsExclusive` | `Spec => ModeFlags`, `Spec => ResultFlags` |
| `StepProofs!PointerInPage` | `Spec => JumpPointerInPage` |
| `CallFrameProofs!StackHoldsFrames`, `CallFrameProofs!GivenBack` | `FramesSpec => []FramesOnStack`, `FramesSpec => FramesGiveBack` |
| `StepProofs!SumsAndDifferences` | `Spec => ArithmeticExact` |
| `ArithmeticProofs!OrderHolds`, `ArithmeticProofs!ProductHolds` | `Spec => []Order`, `Spec => []Product` for any two bytes and anything else in memory |
| `ArithmeticProofs!BinaryWordsHold`, `ArithmeticProofs!DecimalWordsHold` | `Spec => []BinaryWords`, `Spec => []DecimalWords` for any two words and anything else in memory |
| `ArithmeticProofs!ProgramsHold` | `Spec => []ProgramInv`, the invariant of the three programs |
| `InterpreterProofs!TableAgrees` | `InterpreterSpec => []JumpTableAgrees` |
| `InterpreterProofs!PinningInvisible` | `InterpreterSpec /\ []NothingForgotten => PinningIsInvisible`: the pinned build implements the unpinned one unless a run leaves through a jump to itself with an accumulator or flags that the members do not have. The condition is what finding 1 violates, and no more is needed |
| `MainProofs!TestExecutesLength` | `MainSpec => []RunsExecuteLength` for any block that leaves room for its exit and any number of runs |
| `MainProofs!MachineKept` | `MainSpec => [](MachineOK /\ BreakNeverInStatus)` for any images of the functional test, of any length |
| `MainProofs!VerdictHolds` | `MainSpec => []VerdictOfLastRun` for any images of the functional test |
| `BenchProofs!SecondRunIdle` | `HarnessSpec => SecondRunIsIdle` for any programs |
| `BenchProofs!OpsCost`, `BenchProofs!OpsAlike` | `HarnessSpec => []EveryOpCosts`, `HarnessSpec => []OpsStartAlike` for the five benchmark programs, any number of ops and any memory they are loaded into |
| `MemoryProofs!Refinement` | `Spec => ImplementsFlatMemory` for a memory of any size, any values and any files |

**Types.** `Inv` is inductive as it stands, and neither half of it is simple. `MachineOK`
is the part of `TypeOK` that the handlers touch: the widths of the registers and the type
of memory; `HostOK`, that `run()` is entered at most `MaxRuns` times, is an invariant of
its own. Every address a handler forms is a sum of registers and bytes from memory, so
the widths of all registers and the type of memory are needed at once; `PulledStatus`
keeps the two phantom bits the register has, so that they stay out depends on their not
being in. The argument is layered as the code is: every ALU function maps a byte, a
status and an operand to a byte and a status without the phantom flags (its decimal
functions have intermediate sums wider than a byte, each of which is bounded in turn);
then memory, the addressing modes and the stack; then the shared step operators
(`SetStatus`, `SetAccumulator`, `store`, `Shift`, `Branch`, push and pull), and then
every action. The theorems combine them by PTL.

**Opcodes.** That no byte is the opcode of two instructions, a comparison of 151 numbers
with each other, is proved through the jump table: `EveryOpcodeLabelled` says that each
opcode's entry is its own instruction, so two instructions with one byte would be the
same (`OneInstruction`). `EveryByte` and `UnusedBad` say that the other 105 entries are
`BAD` and that there are no more. `FetchedAlone`, `HandlerTaken` and `NextTakes` turn this
into what the other modules need: a fetched byte determines the handler that runs.
`JumpTableAgrees` follows, for every program and every byte it may come to.

**Frames, shifts and flags.** The frame rule needs the invariant: the address of a store
is the cell it writes only if it is in range, and the cells of a push lie in the stack
page only if the pointer is a byte. `WritesOnly(m, n, S)` says that a memory reads
differently in S at most; it composes, so that a handler that pushes three bytes is
`OnePush` three times. This gives what a step may write in terms of the address functions
(`EveryWrittenStep`, with `Written`). `MemoryFrame` does not use them, since a wrap that
is wrong in an address function would be as wrong in a property that calls it: `StoresTo`
goes back from the cell by the index, and has to arrive at the operand or at the word it
points to. `StoreReaches` is that the address functions lead there, mode by mode.
For the shifts, `ShiftValues` relates what the ALU makes of a byte and the carry to the
doubled or halved number, and `ShiftLeaves` finds it where the operand was.
The flag theorems need no invariant. `Keeps(S, T)` says of two statuses that the mode
flags are the same and that N and Z are not newly set together. Every ALU function keeps
(for `ADC` and `SBC` whatever the decimal sums yield), hence every handler that takes its
status from one does; the handlers left are those the properties name.

**Call frames.** `FramesGiveBack` is not inductive: what a pull finds depends on every
step since the push. `FramesInv` adds `FramesOnStack`, which says where the frames lie
(each begins where the pointer will be when those before it are taken off) and that the
intact ones hold what they saved. Three arguments keep it. What a push leaves on the stack
taken together is what was taken apart: `StatusGivenBack` and `AddressGivenBack`, about
the bits of a byte and the bytes of an address, with RTS adding the one that JSR left out.
A pull moves the pointer back over what the push of the frame moved it (`PointerReturns`),
round the page if need be. And a step leaves alone the frames it does not write to
(`KeptHold`), because it writes nothing else (`EveryWrittenStep`);
that the new frame's own bytes and no others are at the top is `FrameMade`. The theorem
needs nothing of a program: a frame that is not intact promises nothing, and one that is
gives back its bytes at any depth.

**Arithmetic.** `ArithmeticExact` says of one `ADC` or `SBC` what `BinaryWords` and
`DecimalWords` say of programs. `SumIs` and `DifferenceIs` relate the unadjusted sum, of
which the code keeps the low byte and bit 8, to the integers and the overflow flag to the
signed ones. `DecimalSum` and `DecimalDifference` do so for two digits each: the low
digits are adjusted first, their carry or borrow enters the high ones, and each of the
four cases (adjusted or not, twice) is a sum over digits. Operands that are not digits
are outside the statement, as are N and Z in decimal mode.

**Programs that compute.** `Order`, `Product`, `BinaryWords` and `DecimalWords` speak of
the end of a program and are not inductive. `ProgramInv` says that memory holds one of
the programs and, for each instruction the processor can be at, what the instructions
before it have found out. `LoadsAt`, `StoresAt`, `AluAt`, `ShiftsAt`, `BranchesAt`,
`CountsAt`, `SetsFlagAt` and `StackAt` give the effect of each of the 25 opcodes used;
a step of a program is the lemma of the instruction it is at, and the code stays what it
is because stores go to page zero and the stack page (`ProgramKept`).

- *Order* (`OrderAt`). After `SBC` N and V differ exactly if the first byte is less
  (`SignedOrder`), and `EOR #128` where V is set turns the sign, hence N, into the answer
  (`SignTurned`).
- *Product* (`ProductAt`). With x rounds to go, p = 2^(8-x) and q = 2^x, the cell of the
  multiplier holds l * q + t: the final bits l of the product above the bits t that are
  left of the multiplier, whose next bit c is in the carry. The loop invariant `Partial`
  is p * A + l + p * (2t + c) * factor = product. A round adds the factor if c is set
  (`Added`), hands the carry of the sum to A and the lowest bit of A to l, and the next
  bit of t to the carry (`Rounds`, `HalvesRotated`). `Scale` lists the nine triples of
  x, p and q, since powers would take an induction.
- *Words* (`WordsAt`). The program is a block of 17 instructions, four times: `BlockNext`
  is proved once, for both instructions, both modes and any place of block and result. n
  is the number of values a byte has, 256 or 100. `LowIs` says of the low byte that it
  and n times its carry are the sum of the low bytes, `ResultIs` of both that they, with
  n * n times the last carry, are the sum of the words, and that V tells whether the
  signed sum fits (`HighResult`, `WideRange`). `FlagsSaved` and `PushedPulled` carry the
  flags over the stack to memory, `DoneKept` the results of the blocks before. Of
  operands that are not decimal nothing is claimed in the decimal blocks. What the bytes
  say of the words is `BinaryResult` and `DecimalResult`.

TLC found no violation of `ProgramInv` in the states of `arithmetic` before it was proved
(with the quantifier of `InRounds` over the numbers that can occur).

**The tests of `main()`.** `RunsExecuteLength` is not inductive: it speaks of the moments
between runs. `NopInv` adds what holds on the way: the registers are as constructed
(`Fresh`), the block holds operations once it was filled (`Filled`) and its exit once that
was written, and a run that has executed `n` operations is at `START + n` (`Within`). That
`blockFill` fills too much does not matter because `ExitWritten` overwrites the cell
behind the block, and that a step inside the block can be `NOP` only follows from
`HandlerTaken`.

`MachineKept` adds to the invariant of the processor the steps the host makes between runs:
a fill to the end of memory and an image cut off there (`FillType`, `ImageType`) leave
bytes at addresses.

`VerdictOfLastRun` speaks of the moment after `judge`, and `VerdictInv` of how `main()`
gets there: only an image with a byte in it reaches the runs
(`LoadedSome`), the functional test begins when the other has had all of its runs, and
between two of its own runs the processor is at a byte that ended the last one
(`AtExit`). A number of runs other than `NopRuns` tells that there was one.

**The harness.** `IdleInv` says that from the end of the first run of an op to the end of
the second the processor is at a byte that ends a run (`AtExit`); at such a byte no
handler can run (`NothingAtExit`), by `HandlerOf` and `NoHandler`.

**The benchmark programs.** Each is a loop of 256 rounds, and `BenchInv` says, at each of
its instructions, how many have been executed: a function of the round `k`, which a
register tells (`AluRound`, `MemoryRound`, `CallRound`, `BranchRound`, `MixedRound`). What
differs between the programs is what the count depends on besides the counting register:
in the call program the return address on the stack (`Called`), in the mixed one the
stack pointer, in the branch one the lowest bit of X, by which a round has a NOP more
(`Nops`), and that Y, counted down through 256 rounds, ends where it began. The lemmas
named *...Steps* say of each of the 24 instructions used what it does to these; the
operands and the values computed do not matter, with one exception: that `AND #1` sets Z
by the lowest bit (`LowestBit`). The code bytes stay what they are because stores go to
page zero and pushes to the stack page (`CodeKept`, `LoadedKept`). An op ends only at the
illegal byte, since all other bytes are opcodes (`RunEnds`), and it ends with the stack
pointer and Y as it began (`Settled`), from which the next op follows. The start does not
depend on what memory held, as each program initialises what it counts with.

**Pinning** is a refinement of the processor by itself: `Unpinned` is `Cpu` with what the
host sees in place of three registers. `Seen` says that this is what the handlers work
on, which holds throughout a run. Under `Seen`, before and after a step, each operator of
`Unpinned` is that of `Cpu` (the lemmas named *Same...*, from the constants up to the 56
instructions), so a handler is a step of the unpinned processor. What is left are the
borders of a run: `pin` takes over what the host saw, `unpin` makes it see the locals,
and the exit from a jump to itself does so only under `NothingForgotten`. The invariant,
`ThisOK`, is that the three members exist; `TableAgrees` also needs their types.

**Memory.** The refinement maps `cells` to `Seen`, what `readByte` returns at every
address. `ReadAfterBlock` and `ReadAfterWrite` say what can be read after an overwrite of
a set of cells and after a write to one, and each call of the device is shown to be the
call of the flat memory of the same name; for `blockFill` the end of what it fills is the
witness.

**Assumptions** are those the modules state about their constants: memory has at least
one cell (`MemoryAssumption`), images hold bytes at addresses and entry points are
addresses (`CpuAssumption`), values and files consist of bytes
(`MemoryDeviceAssumption`), and the block of the single operation test lies behind cell
0, inside memory with room for its exit, and is not longer than the bound of the history
that counts it (`NopTestAssumption`). `HostAssumption`, `MainAssumption`
and `HarnessAssumption` give the types of the other constants. TLC
evaluates all of them. `OpsCost` and `OpsAlike` assume besides that the files are the
benchmark programs or missing (`Files \subseteq MCFiles`) and that the history counts as
far as an op goes (`MaxInstrs >= 2306`); the run has both. `ArithmeticAssumption` says
which programs `MCArithmetic` is about: an image holds one of the three at 0x0600, has an
illegal byte at 0, where a host that sets no program counter starts, and for the product
has copies of the two factors; the operands and the other cells are free. There is one
entry point and one run, as the programs overwrite what a second one would need.

**Only model-checked.** Liveness (`RunReturns`, `OpsComplete`, `AllRunsEnd`, `KlausEnds`)
rests on fairness and is beyond the prover. `KlausEnds` claims of `main()` no more than
holds of every image: a run that finds neither a byte that is no opcode nor a jump to
itself goes on for ever, and `main()` with it. `Verdicts` compares the verdict, the place
and the length of the last run with a table for no image and seven particular ones, and
has no meaning for others. What holds for every image is `VerdictOfLastRun`, which is
proved.

## 5. Abstractions, and what is not modelled

- Names, messages, `showStatus()` and clocks have no place in the model. A deadline is a
  bound on runs.
- `softReset()` and `hardReset()` of the systems, and `reset()` of the processor:
  `cpu.hpp:44` calls `readWord` with one argument where it takes two, so the program
  does not compile if any of them is instantiated (tried with g++ for both systems), and
  none is. The NMI and reset vectors have no other reader.
- The opcode observer. `include/system_type.hpp:8` and 10 leave the third argument of a system
  at its default (`system.hpp:18` and 64), `PassthroughOpcodeObserver`, whose `observe`
  returns its argument and whose `reset` and `dumpStats` are empty
  (`concepts.hpp:66` to 71). The `PerOpcodeCountObserver` of `main.cpp` is never
  instantiated, and what it would count is not modelled.
- The bytes of the Klaus Dormann test; see the bounds.
- The jump table holds 16 bit differences of label addresses; whether they fit is up to
  the compiler. The model has labels.
- `blockFill` with a length beyond the end of memory leaves the array, which is
  undefined behaviour; `callBlockFill` has the bound as a precondition, which the one
  caller keeps.
- The system types differ in whether calls to memory are bound when compiled or when
  run. Bus methods have no other effect, so one model stands for both.
- Scripts and the Makefile.

## 6. Plan

Done: every part of the program whose code compiles, and the composition of all of
`main()`. Proved: every safety property of the runs but `Verdicts`, for all images or, where
it is about a program, for all operands and surroundings of that program. The resets of
the systems stay out until they compile.
