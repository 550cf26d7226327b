---------------------------- MODULE Interpreter ----------------------------
(***************************************************************************)
(* What the fast build of run() adds (src/include/internals/run.hpp).      *)
(*                                                                         *)
(* Registers: pin() shadows the program counter, the status and the        *)
(* accumulator with locals of run() that hide the members of the same      *)
(* names, and unpin() writes them back.  The variables of Cpu of those     *)
(* names are the ones the handlers see, here the locals; the members of    *)
(* the object are this.  Cpu alone is the build with UNPINNED, which has   *)
(* no locals.                                                              *)
(*                                                                         *)
(* Dispatch: in place of the switch over the opcodes, threaded code that   *)
(* indexes the table of JumpTable with the opcode and jumps to its label.  *)
(***************************************************************************)
EXTENDS Cpu, JumpTable

VARIABLE this

Shadows == [iProgramCounter |-> iProgramCounter,
            iAccumulator    |-> iAccumulator,
            iStatus         |-> iStatus]

InterpreterInit == Init /\ this = Shadows

-----------------------------------------------------------------------------
\* Outside run() there are no locals; their variables mirror the write.
hostSetProgramCounter(iAddress) ==
  /\ setProgramCounter(iAddress)
  /\ this' = [this EXCEPT !.iProgramCounter = iAddress]

pin == /\ iProgramCounter' = this.iProgramCounter
       /\ iAccumulator' = this.iAccumulator
       /\ iStatus' = this.iStatus

enter == /\ ~running
         /\ runs < MaxRuns
         /\ running' = TRUE
         /\ runs' = runs + 1
         /\ pin
         /\ UNCHANGED <<iXIndex, iYIndex, iStackPointer, aBytes, this>>

\* The handlers assign to the locals, never to the members behind them.
handle == Instruction /\ UNCHANGED this

\* The exit from a jump to itself writes back the program counter alone.
exitJumpToSelf == /\ JumpToSelf
                  /\ this' = [this EXCEPT !.iProgramCounter = iProgramCounter]

\* With a fault, for the runs to find: the other locals are forgotten.
unpinProgramCounter == this' = [this EXCEPT !.iProgramCounter = iProgramCounter]

unpin == this' = Shadows

exitIllegal == illegal /\ unpin

InterpreterNext ==
  \/ \E iAddress \in EntryPoints : hostSetProgramCounter(iAddress)
  \/ enter
  \/ handle
  \/ exitJumpToSelf
  \/ exitIllegal

InterpreterSpec == /\ InterpreterInit
                   /\ [][InterpreterNext]_<<vars, this>>
                   /\ Fairness

-----------------------------------------------------------------------------
\* The threaded build reaches the handler that the switch build selects: at
\* every dispatch the table leads to the instruction that the opcode enumeration
\* gives to the fetched byte, and to BAD exactly where there is none.
JumpTableAgrees ==
  running =>
    /\ \A op \in DOMAIN Opcode : \A mode \in Fetched(op) : label(opcode) = <<op, mode>>
    /\ (\A op \in DOMAIN Opcode : Fetched(op) = {}) <=> label(opcode) = BAD

\* What the host can read of the registers.
Visible == IF running THEN Shadows ELSE this

Unpinned == INSTANCE Cpu WITH iProgramCounter <- Visible.iProgramCounter,
                              iAccumulator    <- Visible.iAccumulator,
                              iStatus         <- Visible.iStatus

\* Pinning is an optimisation: in the pinned build the host sees the registers
\* of the build without it before, between and after runs, and a run starts
\* from the registers the last one left.  It does not hold of a program that
\* changes A or the flags and then jumps to itself: that exit of run() leaves
\* them in the locals.
PinningIsInvisible == Unpinned!Init /\ [][Unpinned!Next]_(Unpinned!vars)
=============================================================================
