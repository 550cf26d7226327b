---------------------------- MODULE BenchHarness ----------------------------
(***************************************************************************)
(* The benchmark harness (src/bench_harness.cpp): a host that loads one    *)
(* program, and then, until its deadline, runs it from the start, calls    *)
(* run() once more and counts an op.  The speed it reports is the count of *)
(* ops times the number of instructions it was told an op executes.        *)
(***************************************************************************)
EXTENDS Host, Sequences

CONSTANT Files  \* the programs; a missing file loads like an empty one
ASSUME HarnessAssumption == Files \subseteq Seq(Byte)

\* Where a program is loaded and run.
ORIGIN == 1536

VARIABLE totalOps

harness == <<vars, at, instrs, totalOps>>

HarnessInit == HostInit("loadImage") /\ totalOps = 0

\* Without a program main() ends at once.
loadProgram ==
  \E binFile \in Files :
    /\ Goes("loadImage", IF loadedBytes(binFile, ORIGIN) = 0 THEN "failed" ELSE "runFrom")
    /\ aBytes' = loadImage(aBytes, binFile, ORIGIN)
    /\ UNCHANGED <<iProgramCounter, registers, host, instrs, totalOps>>

\* The bound on the calls of run() takes the place of the deadline.
beginOp == /\ runs + 2 <= MaxRuns
           /\ Goes("runFrom", "run")
           /\ runFrom(ORIGIN)
           /\ UNCHANGED totalOps

runAgain == /\ Goes("run", "count")
            /\ run
            /\ UNCHANGED <<instrs, totalOps>>

countOp == /\ Goes("count", "runFrom")
           /\ totalOps' = totalOps + 1
           /\ UNCHANGED <<vars, instrs>>

HarnessNext == \/ loadProgram
               \/ beginOp
               \/ runAgain
               \/ countOp
               \/ execute /\ UNCHANGED totalOps
               \/ stop /\ UNCHANGED totalOps

\* Neither run() nor the loop around it waits for anything.
HarnessSpec == HarnessInit /\ [][HarnessNext]_harness /\ WF_harness(HarnessNext)

-----------------------------------------------------------------------------
\* The second call of run() in an op finds the processor where the first has
\* left it, at a byte that ends a run, and executes nothing: whatever the
\* program, it adds nothing to the op but the time of the call.
SecondRunIsIdle ==
  [][at = "count" => UNCHANGED <<iProgramCounter, registers, aBytes, instrs>>]_harness
=============================================================================
