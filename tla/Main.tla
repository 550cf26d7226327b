-------------------------------- MODULE Main --------------------------------
(***************************************************************************)
(* main() of src/main.cpp: after the single operation test, the functional *)
(* test of Klaus Dormann.  Its image is loaded over whatever the first     *)
(* test left, run once to warm the caches and UNROLL times more, and       *)
(* judged by where the last run stopped: the program jumps to itself at    *)
(* KLAUS_MAGIC when all its tests have passed and dead-ends elsewhere      *)
(* otherwise.  The observer of the system main() owns is the default one,  *)
(* which keeps nothing: its reset() has no step here.                      *)
(***************************************************************************)
EXTENDS NopTest, Sequences

CONSTANTS
  KLAUS_START,   \* where the test begins
  KLAUS_MAGIC,   \* where it ends when it succeeds
  Files          \* the images; a missing file loads like an empty one

ASSUME MainAssumption == /\ KLAUS_START \in Address
                         /\ KLAUS_MAGIC \in Address
                         /\ Files \subseteq Seq(Byte)

VARIABLES
  rom,       \* a history: the image that was loaded
  verdict    \* what main() has printed of the test

klaus == <<rom, verdict>>
main  == <<test, klaus>>

MainInit == NopTestInit /\ rom = <<>> /\ verdict = "none"

loadROM ==
  /\ runs = NopRuns
  /\ \E sROM \in Files :
       /\ Goes("runFrom", IF loadedBytes(sROM, 0) > 0 THEN "klausRun" ELSE "end")
       /\ aBytes' = loadImage(aBytes, sROM, 0)
       /\ rom' = sROM
  /\ UNCHANGED <<iProgramCounter, registers, host, instrs, verdict>>

\* The warm-up and the timed runs are the same call, and nothing between two
\* of them restores what a run has changed.
klausRun == /\ runs <= NopRuns + UNROLL
            /\ Goes("klausRun", "klausRun")
            /\ runFrom(KLAUS_START)
            /\ UNCHANGED klaus

\* With a fault, for the runs to find: any run that has ended has passed.
judgeStopped == /\ runs = NopRuns + 1 + UNROLL
                /\ Goes("klausRun", "end")
                /\ verdict' = "passed"
                /\ UNCHANGED <<vars, instrs, rom>>

judge == /\ runs = NopRuns + 1 + UNROLL
         /\ Goes("klausRun", "end")
         /\ verdict' = IF iProgramCounter = KLAUS_MAGIC THEN "passed" ELSE "terminated"
         /\ UNCHANGED <<vars, instrs, rom>>

\* A step of the single operation test or of one of the runs of both.
MainNext == \/ NopTestNext /\ UNCHANGED klaus
            \/ loadROM
            \/ klausRun
            \/ judge

\* main() is sequential and waits for nothing.
MainSpec == MainInit /\ [][MainNext]_main /\ WF_main(MainNext)

-----------------------------------------------------------------------------
\* A verdict is about an image that was loaded, after all of its runs, and says
\* where the last of them ended: at a byte that stopped it and not inside a run
\* that is still to end, whatever the image and the runs before it did.
\* "passed" is the verdict exactly if this is at KLAUS_MAGIC.
VerdictOfLastRun ==
  verdict # "none" =>
    /\ rom # <<>>
    /\ runs = NopRuns + 1 + UNROLL
    /\ ~running /\ AtExit
    /\ verdict = "passed" <=> iProgramCounter = KLAUS_MAGIC

\* main() has no time limit: it comes to its end, whatever the image and its
\* verdict, or one of its runs executes instructions for ever.  That run never
\* comes to a byte that is no opcode or a jump to itself, the only two ways out
\* of run(); a test that dead-ends in a branch to itself is never judged.
KlausEnds == <>(at = "end") \/ <>[](running /\ ~AtExit)
=============================================================================
