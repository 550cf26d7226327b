------------------------------ MODULE NopTest ------------------------------
(***************************************************************************)
(* The single operation test of main() (src/main.cpp): memory is filled    *)
(* with LENGTH copies of an operation from START on, an illegal byte is    *)
(* written behind them, and the block is run again and again.  The speed   *)
(* is computed from LENGTH operations per run.                             *)
(***************************************************************************)
EXTENDS Host

CONSTANTS START, LENGTH,
          LOOPS, UNROLL   \* the loop of timed runs, and the runs in its body

ASSUME NopTestAssumption ==
  /\ START \in Address \ {0}
  /\ LENGTH \in 0 .. MaxInstrs
  /\ START + LENGTH < MEM_SIZE
  /\ LOOPS \in Nat /\ UNROLL \in Nat

OPERATION == Opcode["NOP"]["IMP"]

\* A run to warm the caches, and the timed ones.
NopRuns == 1 + LOOPS * UNROLL

test == <<vars, at, instrs>>

NopTestInit == HostInit("blockFill")

fillOperations ==
  /\ Goes("blockFill", "writeByte")
  /\ aBytes' = blockFill(aBytes, START, LENGTH, OPERATION)
  /\ UNCHANGED <<iProgramCounter, registers, host, instrs>>

\* With a fault, for the runs to find: one operation too far.
writeExitLate ==
  /\ Goes("writeByte", "runFrom")
  /\ aBytes' = writeByte(aBytes, START + LENGTH + 1, 255)
  /\ UNCHANGED <<iProgramCounter, registers, host, instrs>>

writeExit ==
  /\ Goes("writeByte", "runFrom")
  /\ aBytes' = writeByte(aBytes, START + LENGTH, 255)
  /\ UNCHANGED <<iProgramCounter, registers, host, instrs>>

\* The warm-up and the timed runs are the same call.
timedRun == /\ runs < NopRuns
            /\ Goes("runFrom", "runFrom")
            /\ runFrom(START)

NopTestNext == fillOperations \/ writeExit \/ timedRun \/ execute \/ stop

NopTestSpec == NopTestInit /\ [][NopTestNext]_test /\ WF_test(NopTestNext)

-----------------------------------------------------------------------------
\* Every run executes the LENGTH operations its time is divided by, ends at
\* the byte written for it and leaves no trace in the registers, although
\* blockFill has put operations over the whole rest of memory.
RunsExecuteLength ==
  at \in {"blockFill", "writeByte", "runFrom"} =>
    /\ at = "runFrom" /\ ~running /\ runs > 0 =>
         instrs = LENGTH /\ iProgramCounter = START + LENGTH
    /\ registers = <<0, {F_ZERO}, 0, 0, STACK_TOP - STACK_BASE>>

\* All runs of the test take place: each of them comes to its end.
AllRunsEnd == <>(runs = NopRuns /\ ~running)

\* main.cpp: "Put 32K ops after zero page and stack as our test code."
\* The block has LENGTH operations, and memory behind it stays as it was.
OnlyLengthFilled ==
  at = "writeByte" =>
    \A a \in START + LENGTH .. MEM_SIZE - 1 : readByte(aBytes, a) = 0
=============================================================================
