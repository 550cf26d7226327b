---------------------------- MODULE MemoryDevice ----------------------------
(***************************************************************************)
(* A memory on its own (SimpleMemory of src/include/bus/memory.hpp, and    *)
(* RuntimeSimpleMemory of src/memory.cpp, which has the same methods):     *)
(* its owner calls the methods in any order.                               *)
(***************************************************************************)
EXTENDS Memory

CONSTANTS
  Values,  \* the bytes that are written
  Files    \* the contents of the files; a missing file loads like an empty one

ASSUME MemoryDeviceAssumption ==
  /\ Values \subseteq 0 .. 255
  /\ Files \subseteq Seq(0 .. 255)

VARIABLES
  aBytes,
  call     \* a history: the last call, with its arguments and its result

Init == aBytes = zeroed /\ call = <<"construct">>

\* The argument may be a sum that the parameter type truncates.
callWriteByte(a, v) ==
  /\ call' = <<"writeByte", a, v>>
  /\ aBytes' = writeByte(aBytes, a, v)

\* A length beyond the end of memory would make memset leave the array.
callBlockFill(iFrom, iLength, v) ==
  /\ iFrom + iLength <= MEM_SIZE
  /\ call' = <<"blockFill", iFrom, iLength, v>>
  /\ aBytes' = blockFill(aBytes, iFrom, iLength, v)

callLoadImage(sImage, a) ==
  /\ call' = <<"loadImage", sImage, a, loadedBytes(sImage, a)>>
  /\ aBytes' = loadImage(aBytes, sImage, a)

callSoftReset == call' = <<"softReset">> /\ UNCHANGED aBytes

callHardReset == call' = <<"hardReset">> /\ aBytes' = hardReset

Cells == 0 .. MEM_SIZE - 1

Next == \/ \E a \in 0 .. MEM_SIZE, v \in Values : callWriteByte(a, v)
        \/ \E iFrom \in Cells, iLength \in Cells, v \in Values : callBlockFill(iFrom, iLength, v)
        \/ \E sImage \in Files, a \in Cells : callLoadImage(sImage, a)
        \/ callSoftReset
        \/ callHardReset

Spec == Init /\ [][Next]_<<aBytes, call>>

-----------------------------------------------------------------------------
\* What a reader can see of the memory at every address.
Seen == [a \in Cells |-> readByte(aBytes, a)]

Flat == INSTANCE FlatMemory WITH N <- MEM_SIZE, cells <- Seen

\* The device is a flat memory: whatever was called in whatever order, a cell
\* holds the byte the last call covering it put there, calls reach no cell
\* before the ones they name, and an image is cut off at the end of memory.
ImplementsFlatMemory == Flat!Spec
=============================================================================
