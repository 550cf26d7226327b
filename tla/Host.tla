-------------------------------- MODULE Host --------------------------------
(***************************************************************************)
(* What the two programs that own a system do with it                      *)
(* (src/include/system.hpp, src/main.cpp, src/bench_harness.cpp): a main() *)
(* that goes from call to call, each of them returning before the next.    *)
(* A run lasts from the call to the exit of the interpreter.               *)
(***************************************************************************)
EXTENDS Cpu

CONSTANT MaxInstrs  \* bound on the history instrs, where it stops counting
ASSUME HostAssumption == MaxInstrs \in Nat

VARIABLES
  at,        \* the next step of main()
  instrs     \* a history: the instructions executed since the last runFrom

HostInit(first) == Init /\ at = first /\ instrs = 0

Goes(from, to) == at = from /\ ~running /\ at' = to

\* oCPU.setProgramCounter(iStart).run()
runFrom(iStart) ==
  /\ iProgramCounter' = iStart
  /\ running' = TRUE
  /\ runs' = runs + 1
  /\ instrs' = 0
  /\ UNCHANGED <<registers, aBytes>>

execute == /\ Instruction
           /\ instrs' = IF instrs < MaxInstrs THEN instrs + 1 ELSE instrs
           /\ UNCHANGED at

stop == Exit /\ UNCHANGED <<at, instrs>>
=============================================================================
