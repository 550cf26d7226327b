----------------------------- MODULE Addressing -----------------------------
(***************************************************************************)
(* Effective addresses (src/include/internals/addressing.hpp): the static  *)
(* functions the handlers call with the program counter of the instruction *)
(* and the index registers.  Page zero modes that return a Byte wrap at    *)
(* 256, those that return a Word at MEM_SIZE.                              *)
(***************************************************************************)
EXTENDS Constants6502

INSTANCE Memory

addrZeroPageByte(aBytes, iProgramCounter) ==
  readByte(aBytes, iProgramCounter + 1)

addrAbsoluteByte(aBytes, iProgramCounter) ==
  readWord(aBytes, iProgramCounter + 1)

addrAbsoluteXByte(aBytes, iProgramCounter, iXIndex) ==
  (readWord(aBytes, iProgramCounter + 1) + iXIndex) % MEM_SIZE

addrAbsoluteYByte(aBytes, iProgramCounter, iYIndex) ==
  (readWord(aBytes, iProgramCounter + 1) + iYIndex) % MEM_SIZE

\* With a fault, for the runs to find: the sum is not cut to a byte.
addrZeroPageXByteWide(aBytes, iProgramCounter, iXIndex) ==
  readByte(aBytes, iProgramCounter + 1) + iXIndex

addrZeroPageXByte(aBytes, iProgramCounter, iXIndex) ==
  (readByte(aBytes, iProgramCounter + 1) + iXIndex) % 256

addrZeroPageYByte(aBytes, iProgramCounter, iYIndex) ==
  (readByte(aBytes, iProgramCounter + 1) + iYIndex) % 256

\* The pointer is in page zero; its high byte is read one cell further on,
\* which is cell 256 for a pointer at 255.
addrPreIndexZeroPageXByte(aBytes, iProgramCounter, iXIndex) ==
  readWord(aBytes, (readByte(aBytes, iProgramCounter + 1) + iXIndex) % 256)

addrPostIndexZeroPageYByte(aBytes, iProgramCounter, iYIndex) ==
  (readWord(aBytes, readByte(aBytes, iProgramCounter + 1)) + iYIndex) % MEM_SIZE
=============================================================================
