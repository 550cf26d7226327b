-------------------------------- MODULE Alu --------------------------------
(***************************************************************************)
(* The arithmetic of the handlers (src/include/internals/alu.hpp and       *)
(* updateNZ of src/include/cpu.hpp) as pure operators.  A function that    *)
(* returns a byte and updates the status through a reference becomes an    *)
(* operator that returns both, in a record.  Bits and ToByte relate a byte *)
(* to the set of its one bits, the form the status register has here, so   *)
(* that the bitwise operators of C++ are those of sets.                    *)
(***************************************************************************)
EXTENDS Constants6502

Bits(iByte) == {f \in Flag : (iByte \div f) % 2 = 1}

Weight(f, S) == IF f \in S THEN f ELSE 0

ToByte(S) == Weight(1, S) + Weight(2, S) + Weight(4, S) + Weight(8, S)
             + Weight(16, S) + Weight(32, S) + Weight(64, S) + Weight(128, S)

And(a, b) == ToByte(Bits(a) \cap Bits(b))
Or(a, b)  == ToByte(Bits(a) \cup Bits(b))
Xor(a, b) == ToByte((Bits(a) \ Bits(b)) \cup (Bits(b) \ Bits(a)))

Carry(iStatus) == IF F_CARRY \in iStatus THEN 1 ELSE 0

FlagIf(f, condition) == IF condition THEN {f} ELSE {}

Negative(iByte) == iByte >= 128

\* The flags that describe a result: Z of zero, N of a byte whose bit 7 is set.
NZ(iValue) == FlagIf(F_ZERO, iValue = 0) \cup FlagIf(F_NEGATIVE, Negative(iValue))

\* With a fault, for the runs to find: flags of an earlier result stay.
updateNZSticky(iStatus, iValue) == iStatus \cup NZ(iValue)

updateNZ(iStatus, iValue) == (iStatus \ F_NZ) \cup NZ(iValue)

\* With a fault, for the runs to find: the other flags are lost; equal is not greater.
cmpByteAlone(iStatus, iTo, iValue) ==
  NZ((iTo - iValue) % 256) \cup FlagIf(F_CARRY, iValue <= iTo)
cmpByteStrict(iStatus, iTo, iValue) ==
  (iStatus \ F_NZC) \cup NZ((iTo - iValue) % 256) \cup FlagIf(F_CARRY, iValue < iTo)

cmpByte(iStatus, iTo, iValue) ==
  (iStatus \ F_NZC) \cup NZ((iTo - iValue) % 256) \cup FlagIf(F_CARRY, iValue <= iTo)

-----------------------------------------------------------------------------
\* Shifts and rotations: the bit shifted out becomes the carry.
Shifted(iStatus, iRes, carryOut) ==
  [iStatus |-> updateNZ((iStatus \ {F_CARRY}) \cup FlagIf(F_CARRY, carryOut), iRes),
   iValue  |-> iRes]

shiftLeftWithCarry(iStatus, iValue) ==
  Shifted(iStatus, (2 * iValue) % 256, Negative(iValue))

shiftRightWithCarry(iStatus, iValue) ==
  Shifted(iStatus, iValue \div 2, iValue % 2 = 1)

\* With a fault, for the runs to find: the carry is read when it has been replaced.
rotateLeftLateCarry(iStatus, iValue) ==
  Shifted(iStatus, ((2 * iValue) % 256) + (IF Negative(iValue) THEN 1 ELSE 0), Negative(iValue))

rotateLeftWithCarry(iStatus, iValue) ==
  Shifted(iStatus, ((2 * iValue) % 256) + Carry(iStatus), Negative(iValue))

\* With a fault, for the runs to find: the carry is not shifted in.
rotateRightDropsCarry(iStatus, iValue) ==
  Shifted(iStatus, iValue \div 2, iValue % 2 = 1)

rotateRightWithCarry(iStatus, iValue) ==
  Shifted(iStatus, (iValue \div 2) + 128 * Carry(iStatus), iValue % 2 = 1)

-----------------------------------------------------------------------------
(***************************************************************************)
(* Addition and subtraction.  iSum and iDiff keep bit 8 of the result, in  *)
(* which the code looks for the carry or the borrow.  The nybble sums are  *)
(* unsigned in the code; the two's complement bit tests it makes on them   *)
(* are remainders here, which a negative intermediate value satisfies in   *)
(* the same way.                                                           *)
(***************************************************************************)
LowNybble(n)  == n % 16
HighNybble(n) == n - (n % 16)

\* With a fault, for the runs to find: a mask of a byte loses bit 8.
JoinedInByte(iHigh, iLow) == HighNybble(iHigh % 256) + LowNybble(iLow)

\* (iHigh & 0x1F0) | (iLow & 0x0F)
Joined(iHigh, iLow) == HighNybble(iHigh % 512) + LowNybble(iLow)

\* With a fault, for the runs to find: the sum 100 is left unadjusted.
addBCDWithCarryLate(iStatus, iAccumulator, iValue) ==
  LET iSumL == LowNybble(iAccumulator) + LowNybble(iValue) + Carry(iStatus)
      iSumH == HighNybble(iAccumulator) + HighNybble(iValue)
               + (IF iSumL > 9 THEN 16 ELSE 0)
  IN  Joined(IF iSumH > 160 THEN iSumH + 96 ELSE iSumH,
             IF iSumL > 9 THEN iSumL + 6 ELSE iSumL)

addBCDWithCarry(iStatus, iAccumulator, iValue) ==
  LET iSumL == LowNybble(iAccumulator) + LowNybble(iValue) + Carry(iStatus)
      iSumH == HighNybble(iAccumulator) + HighNybble(iValue)
               + (IF iSumL > 9 THEN 16 ELSE 0)
  IN  Joined(IF iSumH > 144 THEN iSumH + 96 ELSE iSumH,
             IF iSumL > 9 THEN iSumL + 6 ELSE iSumL)

subBCDWithCarry(iStatus, iAccumulator, iValue) ==
  LET iDiffL == LowNybble(iAccumulator) - LowNybble(iValue) - (1 - Carry(iStatus))
      iDiffH == HighNybble(iAccumulator) - HighNybble(iValue)
                - (IF iDiffL % 32 >= 16 THEN 1 ELSE 0)
  IN  Joined(IF iDiffH % 512 >= 256 THEN iDiffH - 96 ELSE iDiffH,
             IF iDiffL % 32 >= 16 THEN iDiffL - 6 ELSE iDiffL)

\* With a fault, for the runs to find: a borrow is no overflow of the byte.
Bit8OfSum(n) == n >= 256

Bit8(n) == n % 512 >= 256

addByteWithCarry(iStatus, iAccumulator, iValue) ==
  LET iSum == IF F_DECIMAL \in iStatus
              THEN addBCDWithCarry(iStatus, iAccumulator, iValue)
              ELSE Carry(iStatus) + iValue + iAccumulator
      iRes == iSum % 256
      overflow == /\ Negative(iValue) = Negative(iAccumulator)
                  /\ Negative(iValue) # Negative(iRes)
  IN  [iStatus |-> (iStatus \ F_NZCV) \cup NZ(iRes)
                     \cup FlagIf(F_CARRY, Bit8(iSum)) \cup FlagIf(F_OVERFLOW, overflow),
       iValue  |-> iRes]

subByteWithCarry(iStatus, iAccumulator, iValue) ==
  LET iDiff == IF F_DECIMAL \in iStatus
               THEN subBCDWithCarry(iStatus, iAccumulator, iValue)
               ELSE iAccumulator - iValue - (1 - Carry(iStatus))
      iRes == iDiff % 256
      overflow == /\ Negative(iValue) # Negative(iAccumulator)
                  /\ Negative(iAccumulator) # Negative(iRes)
  IN  [iStatus |-> (iStatus \ F_NZCV) \cup NZ(iRes)
                     \cup FlagIf(F_CARRY, ~Bit8(iDiff)) \cup FlagIf(F_OVERFLOW, overflow),
       iValue  |-> iRes]

\* BIT: N and V are copied from the operand, Z tells whether it meets A.
bitTest(iStatus, iAccumulator, iValue) ==
  (iStatus \ F_NZV) \cup (Bits(iValue) \cap {F_NEGATIVE, F_OVERFLOW})
    \cup FlagIf(F_ZERO, Bits(iValue) \cap Bits(iAccumulator) = {})
=============================================================================
