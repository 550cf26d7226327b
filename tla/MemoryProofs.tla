---------------------------- MODULE MemoryProofs ----------------------------
(***************************************************************************)
(* A memory device implements a flat memory, whatever its size, the bytes  *)
(* and the files: every call of the one is the same call of the other.     *)
(***************************************************************************)
EXTENDS MemoryDevice, TLAPS

LEMMA InRange ==
  ASSUME NEW a \in Cells
  PROVE  a % MEM_SIZE = a
  BY MemoryAssumption DEF Cells

LEMMA Reduced ==
  ASSUME NEW a \in Int
  PROVE  a % MEM_SIZE \in Cells
  BY MemoryAssumption DEF Cells

\* A cell in range is read as it is, or as zero before its first write.
LEMMA SeenCell ==
  ASSUME NEW m, NEW b \in Cells
  PROVE  readByte(m, b) = IF b \in DOMAIN m THEN m[b] ELSE 0
  BY InRange DEF readByte

\* The memory w is the memory m with the cells of S written.
Overwrites(w, m, S) == /\ DOMAIN w = DOMAIN m \cup S
                       /\ \A a \in DOMAIN m \ S : w[a] = m[a]

\* Cells a call writes read as it wrote them, the others as before.
LEMMA ReadAfterBlock ==
  ASSUME NEW w, NEW m, NEW S, Overwrites(w, m, S), NEW b \in Cells
  PROVE  readByte(w, b) = IF b \in S THEN w[b] ELSE readByte(m, b)
<1>1. readByte(w, b) = IF b \in DOMAIN w THEN w[b] ELSE 0
  BY SeenCell
<1>2. readByte(m, b) = IF b \in DOMAIN m THEN m[b] ELSE 0
  BY SeenCell
<1>. QED
  BY <1>1, <1>2 DEF Overwrites

LEMMA ReadAfterWrite ==
  ASSUME NEW m, NEW a \in Int, NEW v, NEW b \in Cells
  PROVE  readByte(writeByte(m, a, v), b) = IF b = a % MEM_SIZE THEN v ELSE readByte(m, b)
<1>. DEFINE c == a % MEM_SIZE
            w == [x \in DOMAIN m \cup {c} |-> IF x = c THEN v ELSE m[x]]
<1>1. w = writeByte(m, a, v)
  BY DEF writeByte
<1>. HIDE DEF c
<1>2. Overwrites(w, m, {c}) /\ w[c] = v
  BY DEF Overwrites
<1>. HIDE DEF w
<1>3. readByte(w, b) = IF b \in {c} THEN w[b] ELSE readByte(m, b)
  BY <1>2, ReadAfterBlock
<1>. QED
  BY <1>1, <1>2, <1>3 DEF c

-----------------------------------------------------------------------------
(***************************************************************************)
(* Each call.                                                              *)
(***************************************************************************)
LEMMA WriteRefines ==
  ASSUME NEW a \in 0 .. MEM_SIZE, NEW v \in Values, callWriteByte(a, v)
  PROVE  Flat!Write(a, v)
<1>1. a \in Int /\ a % MEM_SIZE \in Cells
  BY Reduced
<1>2. \A b \in Cells : readByte(aBytes', b) = IF b = a % MEM_SIZE THEN v ELSE readByte(aBytes, b)
  BY <1>1, ReadAfterWrite DEF callWriteByte
<1>3. Seen' = [Seen EXCEPT ![a % MEM_SIZE] = v]
  BY <1>1, <1>2 DEF Seen
<1>. QED
  BY <1>3 DEF callWriteByte, Flat!Write

LEMMA FillRefines ==
  ASSUME NEW iFrom \in Cells, NEW iLength \in Cells, NEW v \in Values,
         callBlockFill(iFrom, iLength, v)
  PROVE  Flat!Fill(iFrom, iLength, v)
<1>. DEFINE iMaxLength == (MEM_SIZE - iFrom) % MEM_SIZE
            n == IF iMaxLength > iLength THEN iMaxLength ELSE iLength
            end == iFrom + n
            filled == iFrom .. iFrom - 1 + n
<1>1. iMaxLength \in Nat /\ iMaxLength <= MEM_SIZE - iFrom
  BY MemoryAssumption DEF Cells
<1>2. /\ n \in Nat /\ end \in iFrom + iLength .. MEM_SIZE
      /\ filled = iFrom .. end - 1
  BY <1>1, MemoryAssumption DEF callBlockFill, Cells
<1>3. /\ Overwrites(aBytes', aBytes, filled)
      /\ \A b \in filled : aBytes'[b] = v
  BY DEF callBlockFill, blockFill, Overwrites
<1>4. \A b \in Cells : readByte(aBytes', b) = IF b \in filled THEN v ELSE readByte(aBytes, b)
  <2>. HIDE DEF filled
  <2>1. \A b \in Cells :
          readByte(aBytes', b) = IF b \in filled THEN aBytes'[b] ELSE readByte(aBytes, b)
    BY <1>3, ReadAfterBlock
  <2>. QED
    BY <1>3, <2>1
<1>. HIDE DEF iMaxLength, n, end, filled
<1>5. Seen' = [b \in Cells |-> IF b \in iFrom .. end - 1 THEN v ELSE Seen[b]]
  BY <1>2, <1>4 DEF Seen
<1>. QED
  BY <1>2, <1>5 DEF callBlockFill, Flat!Fill, Flat!Cell, Cells

LEMMA LoadRefines ==
  ASSUME NEW sImage \in Files, NEW a \in Cells, callLoadImage(sImage, a)
  PROVE  Flat!Load(sImage, a)
<1>. DEFINE fits == IF Len(sImage) < MEM_SIZE - a THEN Len(sImage) ELSE MEM_SIZE - a
            loaded == {b \in a .. MEM_SIZE - 1 : b - a < Len(sImage)}
<1>1. Len(sImage) \in Nat
  BY MemoryDeviceAssumption
<1>2. loaded = a .. a + fits - 1
  BY <1>1, MemoryAssumption DEF Cells
<1>3. /\ Overwrites(aBytes', aBytes, loaded)
      /\ \A b \in loaded : aBytes'[b] = sImage[b - a + 1]
  BY DEF callLoadImage, loadImage, Overwrites
<1>4. \A b \in Cells :
          readByte(aBytes', b) = IF b \in loaded THEN sImage[b - a + 1] ELSE readByte(aBytes, b)
  <2>. HIDE DEF loaded
  <2>1. \A b \in Cells :
          readByte(aBytes', b) = IF b \in loaded THEN aBytes'[b] ELSE readByte(aBytes, b)
    BY <1>3, ReadAfterBlock
  <2>. QED
    BY <1>3, <2>1
<1>. HIDE DEF loaded
<1>5. Seen' = [b \in Cells |-> IF b \in a .. a + fits - 1 THEN sImage[b - a + 1] ELSE Seen[b]]
  BY <1>2, <1>4 DEF Seen
<1>6. call' = <<"loadImage", sImage, a, fits>>
  BY DEF callLoadImage, loadedBytes
<1>. QED
  BY <1>5, <1>6 DEF Flat!Load, Flat!Cell, Cells

LEMMA ZeroSeen ==
  ASSUME NEW b \in Cells
  PROVE  readByte(zeroed, b) = 0
  BY SeenCell DEF zeroed

-----------------------------------------------------------------------------
\* A memory of any size, with its quirk of filling too much, keeps what a flat
\* memory promises in every sequence of calls that stays inside it.
THEOREM Refinement == Spec => ImplementsFlatMemory
<1>1. Init => Flat!Init
  BY ZeroSeen DEF Init, Seen, Flat!Init, Flat!Cell, Cells
<1>2. [Next]_<<aBytes, call>> => [Flat!Next]_<<Seen, call>>
  <2>. SUFFICES ASSUME [Next]_<<aBytes, call>>
                PROVE  [Flat!Next]_<<Seen, call>>
    OBVIOUS
  <2>1. ASSUME NEW a \in 0 .. MEM_SIZE, NEW v \in Values, callWriteByte(a, v)
        PROVE  Flat!Next
    BY <2>1, WriteRefines DEF Flat!Next
  <2>2. ASSUME NEW iFrom \in Cells, NEW iLength \in Cells, NEW v \in Values,
               callBlockFill(iFrom, iLength, v)
        PROVE  Flat!Next
    BY <2>2, FillRefines DEF Flat!Next, Flat!Cell, Cells
  <2>3. ASSUME NEW sImage \in Files, NEW a \in Cells, callLoadImage(sImage, a)
        PROVE  Flat!Next
    BY <2>3, LoadRefines DEF Flat!Next, Flat!Cell, Cells
  <2>4. CASE callSoftReset
    <3>1. Flat!SoftReset
      BY <2>4 DEF callSoftReset, Seen, Flat!SoftReset
    <3>. QED
      BY <3>1 DEF Flat!Next
  <2>5. CASE callHardReset
    <3>1. Seen' = [b \in Cells |-> 0]
      BY <2>5, ZeroSeen DEF callHardReset, hardReset, Seen
    <3>2. Flat!HardReset
      BY <2>5, <3>1 DEF callHardReset, Flat!HardReset, Flat!Cell, Cells
    <3>. QED
      BY <3>2 DEF Flat!Next
  <2>6. CASE UNCHANGED <<aBytes, call>>
    BY <2>6 DEF Seen
  <2>. QED
    BY <2>1, <2>2, <2>3, <2>4, <2>5, <2>6 DEF Next
<1>. QED
  BY <1>1, <1>2, PTL DEF Spec, ImplementsFlatMemory, Flat!Spec
=============================================================================
