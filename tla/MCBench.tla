------------------------------ MODULE MCBench ------------------------------
(***************************************************************************)
(* The five benchmark programs of src/data, from their images, run by the  *)
(* harness for several ops.  Each ends in the illegal byte 2.              *)
(***************************************************************************)
EXTENDS BenchHarness

Benchmark == {"alu", "memory", "call", "branch", "mixed"}

Program ==
  [alu    |-> <<169, 7, 162, 0, 105, 3, 41, 127, 9, 1, 73, 85, 10, 74, 42, 202, 208, 242, 2>>,
   memory |-> <<162, 0, 181, 16, 149, 128, 232, 208, 249, 2>>,
   call   |-> <<162, 0, 32, 16, 6, 202, 208, 250, 2, 0, 0, 0, 0, 0, 0, 0, 200, 96>>,
   branch |-> <<162, 0, 232, 138, 41, 1, 240, 1, 234, 136, 208, 246, 2>>,
   mixed  |-> <<162, 0, 169, 0, 117, 16, 72, 73, 170, 149, 128, 104, 232, 208, 245, 2>>]

MCImages == {zeroed}

\* The programs, and a file that is not there.
MCFiles == {Program[b] : b \in Benchmark} \cup {<<>>}

\* No program writes to its own code.
Loaded(b) == \A i \in DOMAIN Program[b] : readByte(aBytes, ORIGIN + i - 1) = Program[b][i]

\* The number of instructions per op that run_benchmarks.sh hands the harness.
InstrPerOp == [alu |-> 2306, memory |-> 1025, call |-> 1281, branch |-> 1537, mixed |-> 2050]

\* What an op executes: the branch program falls through to its NOP every
\* other time, and the loop of the mixed program has seven instructions.
Executed == [InstrPerOp EXCEPT !["branch"] = 1665, !["mixed"] = 1794]

-----------------------------------------------------------------------------
\* Every op executes the same number of instructions, the first as much as the
\* later ones, which start from the registers and the memory their predecessor
\* left: the factor the reported speed is computed with is a constant of the
\* program.  The illegal byte that ends it is not an instruction.
EveryOpCosts ==
  at = "count" /\ ~running => \A b \in Benchmark : Loaded(b) => instrs = Executed[b]

\* Programs that are not reset between ops restore what they depend on: the
\* stack pointer, and Y, which the branch program counts down from zero.
OpsStartAlike == at = "runFrom" => iStackPointer = 255 /\ iYIndex = 0

\* The harness completes every op until its deadline, or has found no program
\* and ended; it does not start to time a memory without one, which would be
\* interrupts for ever.
OpsComplete == <>(at = "failed" \/ totalOps = MaxRuns \div 2)

\* run_benchmarks.sh: "# Benchmark metadata: bin_file instr_per_op", the number
\* of instructions of an op by which the harness multiplies the count of ops.
CostsAsStated ==
  at = "count" /\ ~running => \A b \in Benchmark : Loaded(b) => instrs = InstrPerOp[b]

\* README.md: "All registers (`A`, `X`, `Y`, `SR`, `SP`) are reset using
\* `softReset()` between every complete iteration of the benchmark loop."
StateIsolation ==
  at = "runFrom" => registers = <<0, {F_ZERO}, 0, 0, STACK_TOP - STACK_BASE>>
=============================================================================
