----------------------------- MODULE CallFrames -----------------------------
(***************************************************************************)
(* What programs rely on the stack for, as a history of the processor: the *)
(* variable frames holds, newest first, what PHA, PHP, JSR and BRK have    *)
(* put on the stack and no pull has taken off again.  A frame remembers    *)
(* who made it, what it saved, where the stack pointer stood behind it and *)
(* whether its bytes are intact: a store into the stack page may overwrite *)
(* them, and so may the pushes that go round the 256 bytes of the page.    *)
(***************************************************************************)
EXTENDS Cpu, Sequences

VARIABLE frames

\* What each kind of frame promises to give back.
Saved == [PHA |-> iAccumulator,
          PHP |-> iStatus,
          JSR |-> (iProgramCounter + 3) % MEM_SIZE,
          BRK |-> <<iStatus, (iProgramCounter + 2) % MEM_SIZE>>]

\* How many bytes it has.
Length == [PHA |-> 1, PHP |-> 1, JSR |-> 2, BRK |-> 3]

\* The instruction that takes a frame off, by the one that made it.
Taker == [PHA |-> "PLA", PHP |-> "PLP", JSR |-> "RTS", BRK |-> "RTI"]

Maker == DOMAIN Taker

\* The cell of the n-th byte to be pulled of it.
FrameCell(f, n) == STACK_BASE + ((f.at + n) % 256)

FrameCells(f) == {FrameCell(f, n) : n \in 1 .. Length[f.by]}

\* The frames after a step that writes.
Kept == [i \in DOMAIN frames |->
           IF FrameCells(frames[i]) \cap Written = {}
           THEN frames[i]
           ELSE [frames[i] EXCEPT !.intact = FALSE]]

\* The page holds at most this many frames; the oldest of more are forgotten.
MaxFrames == STACK_TOP - STACK_BASE + 1

Remembered(fs) == SubSeq(fs, 1, IF Len(fs) <= MaxFrames THEN Len(fs) ELSE MaxFrames)

Pushes ==
  \E op \in Maker :
    LET frame == [by |-> op, saved |-> Saved[op], at |-> iStackPointer', intact |-> TRUE]
    IN  /\ Fetched(op) # {}
        /\ frames' = Remembered(<<frame>> \o Kept)

\* A pull takes off a frame of its length, even one another instruction was to
\* take, as in PHA; PLP.  A program that takes frames apart is on its own.
Pulls == \E op \in Maker :
           /\ Fetched(Taker[op]) # {}
           /\ frames' = IF frames # <<>> /\ Length[Head(frames).by] = Length[op]
                        THEN Tail(frames) ELSE <<>>

\* So is one that moves the stack.
Moves == Fetched("TXS") # {} /\ frames' = <<>>

LeavesFrames == /\ \A op \in Maker : Fetched(op) = {} /\ Fetched(Taker[op]) = {}
                /\ Fetched("TXS") = {}
                /\ frames' = Kept

FramesInit == Init /\ frames = <<>>

FramesNext == Next /\ (Pushes \/ Pulls \/ Moves \/ LeavesFrames)

framed == <<vars, frames>>

FramesSpec == FramesInit /\ [][FramesNext]_framed /\ Fairness

-----------------------------------------------------------------------------
FrameByte(memory, f, n) == readByte(memory, FrameCell(f, n))

FlagsOf(iByte) == Bits(iByte) \ {F_BREAK, F_UNUSED}

\* What taking a frame off where it lies gives.
Holds(memory, f) ==
  LET byte(n) == FrameByte(memory, f, n)
  IN  CASE f.by = "PHA" -> byte(1)
        [] f.by = "PHP" -> FlagsOf(byte(1))
        [] f.by = "JSR" -> (byte(1) + 256 * byte(2) + 1) % MEM_SIZE
        [] f.by = "BRK" -> <<FlagsOf(byte(1)), (byte(2) + 256 * byte(3)) % MEM_SIZE>>

\* The newest frame lies at the pointer, and each where the pointer will be when
\* those before it are taken off.
Linked(fs, pointer) ==
  /\ fs # <<>> => fs[1].at = pointer
  /\ \A i \in 1 .. Len(fs) - 1 : fs[i + 1].at = (fs[i].at + Length[fs[i].by]) % 256

AllHold(fs, memory) == \A i \in DOMAIN fs : fs[i].intact => Holds(memory, fs[i]) = fs[i].saved

\* The frames lie on the stack one behind the other, and those that nothing has
\* overwritten hold what they saved.  The stack has 256 bytes: of more frames
\* than fit, the oldest are not intact.
FramesOnStack == Linked(frames, iStackPointer) /\ AllHold(frames, aBytes)

Takes(op) == /\ frames # <<>>
             /\ frames[1].by = op
             /\ frames[1].intact
             /\ Fetched(Taker[op]) # {}

Given == frames[1].saved

GiveStep == /\ Takes("PHA") => iAccumulator' = Given
            /\ Takes("PHP") => iStatus' = Given
            /\ Takes("JSR") => iProgramCounter' = Given
            /\ Takes("BRK") => <<iStatus', iProgramCounter'>> = Given

\* Whatever ran in between, the instruction that takes a frame off the stack
\* gets back what the one that made it saved: RTS goes on behind its JSR, RTI
\* restores the flags and the address of its BRK, PLA and PLP the register.
\* It holds up to the last byte of the page, which 128 nested calls fill, and
\* across the wrap of the pointer, unless the frame has been overwritten.
FramesGiveBack == [][GiveStep]_framed
=============================================================================
