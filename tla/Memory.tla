------------------------------- MODULE Memory -------------------------------
(***************************************************************************)
(* The byte memory behind the bus (src/include/bus/memory.hpp and its      *)
(* virtual twin in src/memory.cpp).  The array aBytes starts zeroed; it is *)
(* kept here as the function of the cells written so far, every other cell *)
(* reading as zero.  An address is truncated to its width by the callee's  *)
(* parameter type, so the operators below reduce their argument.           *)
(***************************************************************************)
EXTENDS Integers, Sequences

CONSTANT MEM_SIZE
ASSUME MemoryAssumption == MEM_SIZE \in Nat \ {0}

\* A memory: some cells have been written, each with a byte.
IsMemory(aBytes) == /\ DOMAIN aBytes \subseteq 0 .. MEM_SIZE - 1
                    /\ \A a \in DOMAIN aBytes : aBytes[a] \in 0 .. 255

zeroed == [a \in {} |-> 0]

readByte(aBytes, iAddress) ==
  LET a == iAddress % MEM_SIZE
  IN  IF a \in DOMAIN aBytes THEN aBytes[a] ELSE 0

writeByte(aBytes, iAddress, iValue) ==
  LET a == iAddress % MEM_SIZE
  IN  [b \in DOMAIN aBytes \cup {a} |-> IF b = a THEN iValue ELSE aBytes[b]]

\* Low byte first; the second read wraps at the end of memory.
readWord(aBytes, iAddress) ==
  readByte(aBytes, iAddress) + 256 * readByte(aBytes, iAddress + 1)

\* With a fault, for the runs to find: the length lowered to what is left.
blockFillCut(aBytes, iFrom, iLength, iValue) ==
  LET iMaxLength == (MEM_SIZE - iFrom) % MEM_SIZE
      filled     == iFrom .. iFrom - 1 +
                      (IF iMaxLength > iLength THEN iLength ELSE iMaxLength)
  IN  [a \in DOMAIN aBytes \cup filled |-> IF a \in filled THEN iValue ELSE aBytes[a]]

(***************************************************************************)
(* The length is raised to what is left of memory, never lowered to it.    *)
(* The difference is kept in a 16 bit word, so it is 0 when iFrom is 0.    *)
(***************************************************************************)
blockFill(aBytes, iFrom, iLength, iValue) ==
  LET iMaxLength == (MEM_SIZE - iFrom) % MEM_SIZE
      filled     == iFrom .. iFrom - 1 +
                      (IF iMaxLength > iLength THEN iMaxLength ELSE iLength)
  IN  [a \in DOMAIN aBytes \cup filled |-> IF a \in filled THEN iValue ELSE aBytes[a]]

hardReset == zeroed

\* fread into the array: no more bytes than are left of memory.
loadImage(aBytes, sImage, iLocation) ==
  LET loaded == {a \in iLocation .. MEM_SIZE - 1 : a - iLocation < Len(sImage)}
  IN  [a \in DOMAIN aBytes \cup loaded |->
         IF a \in loaded THEN sImage[a - iLocation + 1] ELSE aBytes[a]]

\* What fread returns.
loadedBytes(sImage, iLocation) ==
  IF Len(sImage) < MEM_SIZE - iLocation THEN Len(sImage) ELSE MEM_SIZE - iLocation
=============================================================================
