----------------------------- MODULE FlatMemory -----------------------------
(***************************************************************************)
(* What a memory device promises: one cell per address, each of which      *)
(* keeps the byte last written to it.  call is the last call its owner     *)
(* made, with the result of those that have one.                           *)
(***************************************************************************)
EXTENDS Integers, Sequences

CONSTANTS
  N,       \* how many cells there are
  Values,  \* the bytes its owner writes
  Files    \* the contents of the files it may name

Cell == 0 .. N - 1

VARIABLES cells, call

Init == cells = [a \in Cell |-> 0] /\ call = <<"construct">>

\* An address is as wide as the memory: one past the end is the first cell.
Write(a, v) == /\ call' = <<"writeByte", a, v>>
               /\ cells' = [cells EXCEPT ![a % N] = v]

\* All the cells asked for are filled, none before them is touched, and those
\* behind them, up to some cell, may have been filled as well.
Fill(from, n, v) ==
  /\ call' = <<"blockFill", from, n, v>>
  /\ \E end \in from + n .. N :
       cells' = [a \in Cell |-> IF a \in from .. end - 1 THEN v ELSE cells[a]]

\* As much of the file as fits, and the result is how much that is.
Load(file, a) ==
  LET fits == IF Len(file) < N - a THEN Len(file) ELSE N - a
  IN  /\ call' = <<"loadImage", file, a, fits>>
      /\ cells' = [b \in Cell |-> IF b \in a .. a + fits - 1 THEN file[b - a + 1] ELSE cells[b]]

SoftReset == call' = <<"softReset">> /\ UNCHANGED cells

HardReset == call' = <<"hardReset">> /\ cells' = [a \in Cell |-> 0]

Next == \/ \E a \in 0 .. N, v \in Values : Write(a, v)
        \/ \E from \in Cell, n \in Cell, v \in Values : Fill(from, n, v)
        \/ \E file \in Files, a \in Cell : Load(file, a)
        \/ SoftReset
        \/ HardReset

Spec == Init /\ [][Next]_<<cells, call>>
=============================================================================
