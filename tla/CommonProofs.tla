---------------------------- MODULE CommonProofs ----------------------------
(***************************************************************************)
(* Theorems about the two pure algorithms of common: the bits of a mask of *)
(* any length are the set they stand for, and a Merkle root commits to its *)
(* snapshot, for trees of any size and proofs of any length.               *)
(***************************************************************************)
EXTENDS BitMask, Merkle, Induction, SequenceTheorems

-----------------------------------------------------------------------------
(***************************************************************************)
(* Bytes and their bits.                                                   *)
(***************************************************************************)

\* The powers of two below a byte.
LEMMA Powers ==
  /\ 2^0 = 1 /\ 2^1 = 2 /\ 2^2 = 4 /\ 2^3 = 8
  /\ 2^4 = 16 /\ 2^5 = 32 /\ 2^6 = 64 /\ 2^7 = 128 /\ 2^8 = 256
OBVIOUS

\* A byte is less than 256.
LEMMA ByteRange == Byte = 0..255
BY Powers DEF Byte, MASK_CHUNK_BITS

\* A position in a byte is one of eight, and so are the powers of two.
LEMMA EightPositions ==
  ASSUME NEW i \in 0..7
  PROVE  \/ i = 0 /\ 2^i = 1
         \/ i = 1 /\ 2^i = 2
         \/ i = 2 /\ 2^i = 4
         \/ i = 3 /\ 2^i = 8
         \/ i = 4 /\ 2^i = 16
         \/ i = 5 /\ 2^i = 32
         \/ i = 6 /\ 2^i = 64
         \/ i = 7 /\ 2^i = 128
<1>0. i = 0 \/ i = 1 \/ i = 2 \/ i = 3 \/ i = 4 \/ i = 5 \/ i = 6 \/ i = 7
  OBVIOUS
<1>1. CASE i = 0
  <2>1. 2^i = 1
    BY <1>1, Powers
  <2> QED
    BY <1>1, <2>1
<1>2. CASE i = 1
  <2>1. 2^i = 2
    BY <1>2, Powers
  <2> QED
    BY <1>2, <2>1
<1>3. CASE i = 2
  <2>1. 2^i = 4
    BY <1>3, Powers
  <2> QED
    BY <1>3, <2>1
<1>4. CASE i = 3
  <2>1. 2^i = 8
    BY <1>4, Powers
  <2> QED
    BY <1>4, <2>1
<1>5. CASE i = 4
  <2>1. 2^i = 16
    BY <1>5, Powers
  <2> QED
    BY <1>5, <2>1
<1>6. CASE i = 5
  <2>1. 2^i = 32
    BY <1>6, Powers
  <2> QED
    BY <1>6, <2>1
<1>7. CASE i = 6
  <2>1. 2^i = 64
    BY <1>7, Powers
  <2> QED
    BY <1>7, <2>1
<1>8. CASE i = 7
  <2>1. 2^i = 128
    BY <1>8, Powers
  <2> QED
    BY <1>8, <2>1
<1> QED
  BY <1>0, <1>1, <1>2, <1>3, <1>4, <1>5, <1>6, <1>7, <1>8

\* A bit is 0 or 1.
LEMMA BitBinary ==
  ASSUME NEW x \in Nat, NEW i \in 0..7
  PROVE  Bit(x, i) \in {0, 1}
BY EightPositions DEF Bit

\* Zero has no bit.
LEMMA ZeroBit ==
  ASSUME NEW i \in 0..7
  PROVE  Bit(0, i) = 0
<1>1. \/ 2^i = 1 \/ 2^i = 2 \/ 2^i = 4 \/ 2^i = 8
      \/ 2^i = 16 \/ 2^i = 32 \/ 2^i = 64 \/ 2^i = 128
  BY EightPositions, ZenonT(60)
<1>2. \A d \in Nat \ {0} : (0 \div d) % 2 = 0
  OBVIOUS
<1> QED
  BY <1>1, <1>2 DEF Bit

\* Eight bits make a byte, and can be read back.
LEMMA ByteOfBits ==
  ASSUME NEW b \in [0..7 -> {0, 1}]
  PROVE  /\ ByteOf(b) \in 0..255
         /\ \A i \in 0..7 : Bit(ByteOf(b), i) = b[i]
<1> DEFINE B == ByteOf(b)
<1>1. /\ b[0] \in {0, 1} /\ b[1] \in {0, 1} /\ b[2] \in {0, 1}
      /\ b[3] \in {0, 1} /\ b[4] \in {0, 1} /\ b[5] \in {0, 1}
      /\ b[6] \in {0, 1} /\ b[7] \in {0, 1}
  OBVIOUS
<1>2. B = b[0] + 2 * b[1] + 4 * b[2] + 8 * b[3]
            + 16 * b[4] + 32 * b[5] + 64 * b[6] + 128 * b[7]
  BY DEF ByteOf
<1>3. /\ B \div 1 = B
      /\ B \div 2 = b[1] + 2 * b[2] + 4 * b[3] + 8 * b[4] + 16 * b[5]
                      + 32 * b[6] + 64 * b[7]
      /\ B \div 4 = b[2] + 2 * b[3] + 4 * b[4] + 8 * b[5] + 16 * b[6]
                      + 32 * b[7]
      /\ B \div 8 = b[3] + 2 * b[4] + 4 * b[5] + 8 * b[6] + 16 * b[7]
  BY <1>1, <1>2
<1>4. /\ B \div 16 = b[4] + 2 * b[5] + 4 * b[6] + 8 * b[7]
      /\ B \div 32 = b[5] + 2 * b[6] + 4 * b[7]
      /\ B \div 64 = b[6] + 2 * b[7]
      /\ B \div 128 = b[7]
  BY <1>1, <1>2
<1>5. B \in 0..255
  BY <1>1, <1>2
<1> HIDE DEF B
<1>6. (B \div 1) % 2 = b[0] /\ (B \div 2) % 2 = b[1]
  <2> DEFINE r == b[2] + 2 * b[3] + 4 * b[4] + 8 * b[5] + 16 * b[6] + 32 * b[7]
  <2>1. r \in Int
    BY <1>1
  <2>2. B \div 1 = b[0] + 2 * (b[1] + 2 * r) /\ B \div 2 = b[1] + 2 * r
    <3>1. B \div 1 = B
      BY <1>3
    <3>2. B = b[0] + 2 * (b[1] + 2 * r)
      BY <1>1, <1>2
    <3>3. B \div 2 = b[1] + 2 * r
      BY <1>1, <1>3
    <3> QED
      BY <3>1, <3>2, <3>3
  <2> HIDE DEF r
  <2> QED
    BY <1>1, <2>1, <2>2
<1>9. /\ (B \div 4) % 2 = b[2] /\ (B \div 8) % 2 = b[3]
  BY <1>1, <1>3
<1>7. /\ (B \div 16) % 2 = b[4] /\ (B \div 32) % 2 = b[5]
      /\ (B \div 64) % 2 = b[6] /\ (B \div 128) % 2 = b[7]
  BY <1>1, <1>4
<1>8. ASSUME NEW i \in 0..7 PROVE Bit(B, i) = b[i]
  BY <1>6, <1>7, <1>9, EightPositions, ZenonT(60) DEF Bit
<1> QED
  BY <1>5, <1>8 DEF B

\* The byte with one bit has that bit and no other.
LEMMA OneBit ==
  ASSUME NEW k \in 0..7
  PROVE  /\ 2^k \in 1..128
         /\ \A i \in 0..7 : Bit(2^k, i) = IF i = k THEN 1 ELSE 0
<1> DEFINE b == [i \in 0..7 |-> IF i = k THEN 1 ELSE 0]
<1>1. b \in [0..7 -> {0, 1}]
  OBVIOUS
<1>2. \/ k = 0 /\ 2^k = 1
      \/ k = 1 /\ 2^k = 2
      \/ k = 2 /\ 2^k = 4
      \/ k = 3 /\ 2^k = 8
      \/ k = 4 /\ 2^k = 16
      \/ k = 5 /\ 2^k = 32
      \/ k = 6 /\ 2^k = 64
      \/ k = 7 /\ 2^k = 128
  <2> HIDE DEF b
  <2> QED
    BY EightPositions
<1>3. 2^k \in 1..128
  <2> HIDE DEF b
  <2> QED
    BY <1>2
<1>4. ByteOf(b) = b[0] + 2 * b[1] + 4 * b[2] + 8 * b[3]
                    + 16 * b[4] + 32 * b[5] + 64 * b[6] + 128 * b[7]
  BY DEF ByteOf
<1>5. ByteOf(b) = 2^k
  BY <1>2, <1>4
<1> QED
  BY <1>1, <1>3, <1>5, ByteOfBits

\* Or with one bit sets it and leaves the others.
LEMMA OrOneBit ==
  ASSUME NEW x \in Byte, NEW k \in 0..7
  PROVE  /\ Or(x, 2^k) \in Byte
         /\ \A i \in 0..7 : Bit(Or(x, 2^k), i) = IF i = k THEN 1 ELSE Bit(x, i)
<1> DEFINE b == [i \in 0..7 |-> IF Bit(x, i) = 1 \/ Bit(2^k, i) = 1
                                THEN 1 ELSE 0]
<1>1. b \in [0..7 -> {0, 1}]
  OBVIOUS
<1>2. Or(x, 2^k) = ByteOf(b)
  BY DEF Or
<1>3. ASSUME NEW i \in 0..7 PROVE b[i] = IF i = k THEN 1 ELSE Bit(x, i)
  <2>1. x \in Nat
    BY ByteRange
  <2>2. Bit(x, i) \in {0, 1} /\ Bit(2^k, i) = IF i = k THEN 1 ELSE 0
    BY <2>1, BitBinary, OneBit
  <2> QED
    BY <2>2
<1> HIDE DEF b
<1> QED
  BY <1>1, <1>2, <1>3, ByteOfBits, ByteRange

\* And with the complement of one bit clears it and leaves the others.
LEMMA AndNotOneBit ==
  ASSUME NEW x \in Byte, NEW k \in 0..7
  PROVE  /\ And(x, Not(2^k)) \in Byte
         /\ \A i \in 0..7 :
              Bit(And(x, Not(2^k)), i) = IF i = k THEN 0 ELSE Bit(x, i)
<1> DEFINE c == [i \in 0..7 |-> 1 - Bit(2^k, i)]
           b == [i \in 0..7 |-> IF Bit(x, i) = 1 /\ Bit(Not(2^k), i) = 1
                                THEN 1 ELSE 0]
<1>1. ASSUME NEW i \in 0..7 PROVE c[i] = IF i = k THEN 0 ELSE 1
  <2>1. Bit(2^k, i) = IF i = k THEN 1 ELSE 0
    BY OneBit
  <2> QED
    BY <2>1
<1>2. c \in [0..7 -> {0, 1}]
  BY <1>1
<1>3. Not(2^k) = ByteOf(c)
  BY DEF Not
<1>4. \A i \in 0..7 : Bit(Not(2^k), i) = c[i]
  <2> HIDE DEF c
  <2> QED
    BY <1>2, <1>3, ByteOfBits
<1>5. b \in [0..7 -> {0, 1}]
  OBVIOUS
<1>6. And(x, Not(2^k)) = ByteOf(b)
  BY DEF And
<1>7. ASSUME NEW i \in 0..7 PROVE b[i] = IF i = k THEN 0 ELSE Bit(x, i)
  <2>1. x \in Nat
    BY ByteRange
  <2>2. Bit(x, i) \in {0, 1}
    BY <2>1, BitBinary
  <2>3. Bit(Not(2^k), i) = IF i = k THEN 0 ELSE 1
    BY <1>1, <1>4
  <2> QED
    BY <2>2, <2>3
<1> HIDE DEF b, c
<1> QED
  BY <1>5, <1>6, <1>7, ByteOfBits, ByteRange

-----------------------------------------------------------------------------
(***************************************************************************)
(* Masks and their sets.                                                   *)
(***************************************************************************)

Masks == [0..(MaskLen - 1) -> Byte]

Positions == 0..(MaskLen * MASK_CHUNK_BITS - 1)

\* The mask m represents the set S.
Represents(m, S) ==
    /\ m \in Masks
    /\ S \subseteq Positions
    /\ \A p \in Positions : IsSet(m, p) <=> p \in S

\* Where a position in range is, and that two positions differ in one part.
LEMMA Located ==
  ASSUME NEW p \in Positions
  PROVE  /\ Locate(p).byte \in 0..(MaskLen - 1)
         /\ Locate(p).bit \in 0..7
         /\ p = 8 * Locate(p).byte + Locate(p).bit
<1>1. MaskLen \in Nat /\ p \in Nat /\ p < MaskLen * 8
  BY BitMaskAssumption DEF Positions, MASK_CHUNK_BITS
<1>2. p \div 8 \in 0..(MaskLen - 1) /\ p % 8 \in 0..7
      /\ p = 8 * (p \div 8) + (p % 8)
  BY <1>1
<1> QED
  BY <1>2 DEF Locate, MASK_CHUNK_BITS

\* One round of set_bits.
WithBit(m, p) == [m EXCEPT ![Locate(p).byte] = Or(@, 2^Locate(p).bit)]

\* One round of clear_bits.
WithoutBit(m, p) == [m EXCEPT ![Locate(p).byte] = And(@, Not(2^Locate(p).bit))]

\* A mask of which one byte is replaced by one that differs in one bit.
LEMMA OneBitWritten ==
  ASSUME NEW m \in Masks, NEW p \in Positions, NEW y \in Byte,
         NEW v \in {0, 1},
         \A i \in 0..7 : Bit(y, i) = IF i = Locate(p).bit THEN v
                                     ELSE Bit(m[Locate(p).byte], i),
         NEW w, w = [m EXCEPT ![Locate(p).byte] = y]
  PROVE  /\ w \in Masks
         /\ \A q \in Positions :
              IsSet(w, q) <=> IF q = p THEN v = 1 ELSE IsSet(m, q)
<1> DEFINE at == Locate(p)
<1>1. /\ at.byte \in 0..(MaskLen - 1)
      /\ at.bit \in 0..7
      /\ p = 8 * at.byte + at.bit
  BY Located
<1>2. w \in Masks
  BY <1>1 DEF Masks
<1>3. ASSUME NEW q \in Positions
      PROVE  IsSet(w, q) <=> IF q = p THEN v = 1 ELSE IsSet(m, q)
  <2> DEFINE qt == Locate(q)
  <2>1. /\ qt.byte \in 0..(MaskLen - 1)
        /\ qt.bit \in 0..7
        /\ q = 8 * qt.byte + qt.bit
    BY Located
  <2>2. IsSet(w, q) <=> Bit(w[qt.byte], qt.bit) = 1
    BY DEF IsSet
  <2>3. IsSet(m, q) <=> Bit(m[qt.byte], qt.bit) = 1
    BY DEF IsSet
  <2>4. w[qt.byte] = IF qt.byte = at.byte THEN y ELSE m[qt.byte]
    BY <2>1 DEF Masks
  <2>5. q = p <=> qt.byte = at.byte /\ qt.bit = at.bit
    BY <1>1, <2>1, BitMaskAssumption
  <2>6. Bit(y, qt.bit) = IF qt.bit = at.bit THEN v ELSE Bit(m[at.byte], qt.bit)
    BY <2>1
  <2> HIDE DEF at, qt
  <2>7. CASE qt.byte = at.byte
    BY <2>2, <2>3, <2>4, <2>5, <2>6, <2>7
  <2>8. CASE qt.byte # at.byte
    BY <2>2, <2>3, <2>4, <2>5, <2>8
  <2> QED
    BY <2>7, <2>8
<1> QED
  BY <1>2, <1>3

\* Setting one bit adds one member to the set.
LEMMA WithBitAdds ==
  ASSUME NEW m, NEW S, Represents(m, S), NEW p \in Positions
  PROVE  Represents(WithBit(m, p), S \cup {p})
<1> DEFINE y == Or(m[Locate(p).byte], 2^Locate(p).bit)
<1>1. m \in Masks /\ S \subseteq Positions
      /\ \A q \in Positions : IsSet(m, q) <=> q \in S
  BY DEF Represents
<1>2. Locate(p).byte \in 0..(MaskLen - 1) /\ Locate(p).bit \in 0..7
  BY Located
<1>3. m[Locate(p).byte] \in Byte
  BY <1>1, <1>2 DEF Masks
<1>4. /\ y \in Byte
      /\ \A i \in 0..7 : Bit(y, i) = IF i = Locate(p).bit THEN 1
                                     ELSE Bit(m[Locate(p).byte], i)
  BY <1>2, <1>3, OrOneBit
<1>5. WithBit(m, p) = [m EXCEPT ![Locate(p).byte] = y]
  BY DEF WithBit
<1> DEFINE v == 1
<1>6. v \in {0, 1}
  OBVIOUS
<1>7. \A i \in 0..7 : Bit(y, i) = IF i = Locate(p).bit THEN v
                                 ELSE Bit(m[Locate(p).byte], i)
  BY <1>4
<1> HIDE DEF y, v
<1>8. /\ WithBit(m, p) \in Masks
      /\ \A q \in Positions :
           IsSet(WithBit(m, p), q) <=> IF q = p THEN v = 1 ELSE IsSet(m, q)
  BY <1>1, <1>4, <1>5, <1>6, <1>7, OneBitWritten, ZenonT(60)
<1> QED
  BY <1>1, <1>8 DEF Represents, v

\* Clearing one bit removes one member from the set.
LEMMA WithoutBitRemoves ==
  ASSUME NEW m, NEW S, Represents(m, S), NEW p \in Positions
  PROVE  Represents(WithoutBit(m, p), S \ {p})
<1> DEFINE y == And(m[Locate(p).byte], Not(2^Locate(p).bit))
<1>1. m \in Masks /\ S \subseteq Positions
      /\ \A q \in Positions : IsSet(m, q) <=> q \in S
  BY DEF Represents
<1>2. Locate(p).byte \in 0..(MaskLen - 1) /\ Locate(p).bit \in 0..7
  BY Located
<1>3. m[Locate(p).byte] \in Byte
  BY <1>1, <1>2 DEF Masks
<1>4. /\ y \in Byte
      /\ \A i \in 0..7 : Bit(y, i) = IF i = Locate(p).bit THEN 0
                                     ELSE Bit(m[Locate(p).byte], i)
  BY <1>2, <1>3, AndNotOneBit
<1>5. WithoutBit(m, p) = [m EXCEPT ![Locate(p).byte] = y]
  BY DEF WithoutBit
<1> DEFINE v == 0
<1>6. v \in {0, 1}
  OBVIOUS
<1>7. \A i \in 0..7 : Bit(y, i) = IF i = Locate(p).bit THEN v
                                 ELSE Bit(m[Locate(p).byte], i)
  BY <1>4
<1> HIDE DEF y, v
<1>8. /\ WithoutBit(m, p) \in Masks
      /\ \A q \in Positions :
           IsSet(WithoutBit(m, p), q) <=> IF q = p THEN v = 1 ELSE IsSet(m, q)
  BY <1>1, <1>4, <1>5, <1>6, <1>7, OneBitWritten, ZenonT(60)
<1> QED
  BY <1>1, <1>8 DEF Represents, v

\* set_bits adds the positions of a list.
LEMMA SetBitsAdds ==
  ASSUME NEW m, NEW S, Represents(m, S), NEW ps \in Seq(Positions)
  PROVE  Represents(SetBits(m, ps), S \cup ToSet(ps))
<1> DEFINE n == Len(ps)
           F(t) == [i \in 0..n |-> IF i = 0 THEN m ELSE WithBit(t[i-1], ps[i])]
           after == CHOOSE t : t = F(t)
           step == [i \in 1..n |-> [x \in Masks |-> WithBit(x, ps[i])]]
           Seen(i) == {ps[j] : j \in 1..i}
<1>1. n \in Nat /\ m \in Masks /\ \A i \in 1..n : ps[i] \in Positions
  BY DEF Represents
<1>2. step \in Steps(n, Masks)
  <2>1. ASSUME NEW x \in Masks, NEW p \in Positions
        PROVE  WithBit(x, p) \in Masks
    <3> DEFINE T == {q \in Positions : IsSet(x, q)}
    <3>1. Represents(x, T)
      BY DEF Represents
    <3> HIDE DEF T
    <3>2. Represents(WithBit(x, p), T \cup {p})
      BY <3>1, WithBitAdds
    <3> QED
      BY <3>2 DEF Represents
  <2> QED
    BY <1>1, <2>1 DEF Steps
<1>3. PICK f : IsTrace(n, Masks, m, step, f)
  <2> HIDE DEF step, n
  <2> QED
    BY <1>1, <1>2, PrefixRecursion
<1>4. f = F(f)
  <2>1. /\ f \in [0..n -> Masks]
        /\ f[0] = m
        /\ \A i \in 1..n : f[i] = step[i][f[i-1]]
    BY <1>3 DEF IsTrace
  <2>2. ASSUME NEW i \in 1..n PROVE f[i] = WithBit(f[i-1], ps[i])
    <3>1. f[i-1] \in Masks
      BY <1>1, <2>1
    <3> QED
      BY <2>1, <3>1
  <2> HIDE DEF n
  <2> QED
    BY <1>1, <2>1, <2>2
<1>5. SetBits(m, ps) = after[n]
  BY DEF SetBits, WithBit
<1>6. after = F(after)
  <2> HIDE DEF F
  <2> QED
    BY <1>4
<1>7. after[0] = m /\ \A i \in 1..n : after[i] = WithBit(after[i-1], ps[i])
  <2> HIDE DEF after, n
  <2> QED
    BY <1>1, <1>6
<1> HIDE DEF after, n
<1> DEFINE R == {i \in 0..n : Represents(after[i], S \cup Seen(i))}
<1>8. 0 \in R
  <2>1. S \cup Seen(0) = S
    OBVIOUS
  <2> HIDE DEF Seen
  <2>2. Represents(after[0], S \cup Seen(0))
    BY <1>7, <2>1
  <2>3. 0 \in 0..n
    BY <1>1
  <2> QED
    BY <2>2, <2>3
<1>9. ASSUME NEW i \in 1..n, i - 1 \in R PROVE i \in R
  <2>1. S \cup Seen(i) = (S \cup Seen(i - 1)) \cup {ps[i]}
    BY <1>1
  <2>2. Represents(after[i-1], S \cup Seen(i - 1))
    BY <1>9
  <2> HIDE DEF Seen
  <2>3. Represents(after[i], S \cup Seen(i))
    BY <1>1, <1>7, <2>1, <2>2, WithBitAdds
  <2> QED
    BY <1>1, <2>3
<1>10. n \in R
  <2> HIDE DEF R
  <2>1. \A i \in 0..n : i \in R
    BY <1>1, <1>8, <1>9, PrefixInduction
  <2> QED
    BY <1>1, <2>1
<1>11. Seen(n) = ToSet(ps)
  BY DEF ToSet, n
<1> QED
  BY <1>5, <1>10, <1>11

\* clear_bits removes the positions of a list.
LEMMA ClearBitsRemoves ==
  ASSUME NEW m, NEW S, Represents(m, S), NEW ps \in Seq(Positions)
  PROVE  Represents(ClearBits(m, ps), S \ ToSet(ps))
<1> DEFINE n == Len(ps)
           F(t) == [i \in 0..n |-> IF i = 0 THEN m ELSE WithoutBit(t[i-1], ps[i])]
           after == CHOOSE t : t = F(t)
           step == [i \in 1..n |-> [x \in Masks |-> WithoutBit(x, ps[i])]]
           Seen(i) == {ps[j] : j \in 1..i}
<1>1. n \in Nat /\ m \in Masks /\ \A i \in 1..n : ps[i] \in Positions
  BY DEF Represents
<1>2. step \in Steps(n, Masks)
  <2>1. ASSUME NEW x \in Masks, NEW p \in Positions
        PROVE  WithoutBit(x, p) \in Masks
    <3> DEFINE T == {q \in Positions : IsSet(x, q)}
    <3>1. Represents(x, T)
      BY DEF Represents
    <3> HIDE DEF T
    <3>2. Represents(WithoutBit(x, p), T \ {p})
      BY <3>1, WithoutBitRemoves
    <3> QED
      BY <3>2 DEF Represents
  <2> QED
    BY <1>1, <2>1 DEF Steps
<1>3. PICK f : IsTrace(n, Masks, m, step, f)
  <2> HIDE DEF step, n
  <2> QED
    BY <1>1, <1>2, PrefixRecursion
<1>4. f = F(f)
  <2>1. /\ f \in [0..n -> Masks]
        /\ f[0] = m
        /\ \A i \in 1..n : f[i] = step[i][f[i-1]]
    BY <1>3 DEF IsTrace
  <2>2. ASSUME NEW i \in 1..n PROVE f[i] = WithoutBit(f[i-1], ps[i])
    <3>1. f[i-1] \in Masks
      BY <1>1, <2>1
    <3> QED
      BY <2>1, <3>1
  <2> HIDE DEF n
  <2> QED
    BY <1>1, <2>1, <2>2
<1>5. ClearBits(m, ps) = after[n]
  BY DEF ClearBits, WithoutBit
<1>6. after = F(after)
  <2> HIDE DEF F
  <2> QED
    BY <1>4
<1>7. after[0] = m /\ \A i \in 1..n : after[i] = WithoutBit(after[i-1], ps[i])
  <2> HIDE DEF after, n
  <2> QED
    BY <1>1, <1>6
<1> HIDE DEF after, n
<1> DEFINE R == {i \in 0..n : Represents(after[i], S \ Seen(i))}
<1>8. 0 \in R
  <2>1. S \ Seen(0) = S
    OBVIOUS
  <2> HIDE DEF Seen
  <2>2. Represents(after[0], S \ Seen(0))
    BY <1>7, <2>1
  <2>3. 0 \in 0..n
    BY <1>1
  <2> QED
    BY <2>2, <2>3
<1>9. ASSUME NEW i \in 1..n, i - 1 \in R PROVE i \in R
  <2>1. S \ Seen(i) = (S \ Seen(i - 1)) \ {ps[i]}
    BY <1>1
  <2>2. Represents(after[i-1], S \ Seen(i - 1))
    BY <1>9
  <2> HIDE DEF Seen
  <2>3. Represents(after[i], S \ Seen(i))
    BY <1>1, <1>7, <2>1, <2>2, WithoutBitRemoves
  <2> QED
    BY <1>1, <2>3
<1>10. n \in R
  <2> HIDE DEF R
  <2>1. \A i \in 0..n : i \in R
    BY <1>1, <1>8, <1>9, PrefixInduction
  <2> QED
    BY <1>1, <2>1
<1>11. Seen(n) = ToSet(ps)
  BY DEF ToSet, n
<1> QED
  BY <1>5, <1>10, <1>11

\* The bytes represent the history.
MaskInv == Represents(mask, bits)

\* A list whose positions are all in range.
LEMMA ListInRange ==
  ASSUME NEW ps \in BoundedSeq(PositionArg, MaxList), AllInRange(ps)
  PROVE  ps \in Seq(Positions)
<1>1. PICK n \in 0..MaxList : ps \in [1..n -> PositionArg]
  BY DEF BoundedSeq, SeqOf
<1>2. n \in Nat
  BY BitMaskAssumption
<1>3. ASSUME NEW i \in 1..n PROVE ps[i] \in Positions
  <2>1. ps[i] \in Nat /\ ps[i] < MaskLen * MASK_CHUNK_BITS
    BY <1>1, BitMaskAssumption DEF AllInRange, InRange
  <2> QED
    BY <2>1, BitMaskAssumption DEF Positions, MASK_CHUNK_BITS
<1>4. ps \in [1..n -> Positions]
  BY <1>1, <1>3
<1> QED
  BY <1>2, <1>4

\* A new account is all zeros and represents the empty set.
LEMMA MaskInvInit == MaskInit => MaskInv
<1> SUFFICES ASSUME MaskInit PROVE MaskInv
  OBVIOUS
<1>1. mask = [i \in 0..(MaskLen - 1) |-> 0] /\ bits = {}
  BY DEF MaskInit
<1>2. mask \in Masks
  BY <1>1, ByteRange DEF Masks
<1>3. ASSUME NEW p \in Positions PROVE ~IsSet(mask, p)
  <2>1. Locate(p).byte \in 0..(MaskLen - 1) /\ Locate(p).bit \in 0..7
    BY Located
  <2>2. mask[Locate(p).byte] = 0
    BY <1>1, <2>1
  <2>3. Bit(0, Locate(p).bit) = 0
    BY <2>1, ZeroBit
  <2> QED
    BY <2>2, <2>3 DEF IsSet
<1> QED
  BY <1>1, <1>2, <1>3 DEF MaskInv, Represents

\* Enabling and disabling keep the bytes and the set together.
LEMMA MaskInvStep == MaskInv /\ [MaskNext]_maskVars => MaskInv'
<1>1. ASSUME MaskInv, UNCHANGED maskVars PROVE MaskInv'
  BY <1>1 DEF MaskInv, maskVars
<1>2. ASSUME MaskInv, NEW ps \in BoundedSeq(PositionArg, MaxList), Enable(ps)
      PROVE  MaskInv'
  BY <1>2, ListInRange, SetBitsAdds DEF Enable, MaskInv
<1>3. ASSUME MaskInv, NEW ps \in BoundedSeq(PositionArg, MaxList), Disable(ps)
      PROVE  MaskInv'
  BY <1>3, ListInRange, ClearBitsRemoves DEF Disable, MaskInv
<1> QED
  BY <1>1, <1>2, <1>3 DEF MaskNext

\* Whatever lists grant_roles, revoke_roles and their counterparts of the
\* factory have been given, in a mask of any length the bytes tell exactly the
\* positions that were enabled last (set_bits, clear_bits, is_set).
THEOREM MasksAreSets == MaskSpec => []MaskIsItsSet
<1>1. MaskInit => MaskInv
  BY MaskInvInit
<1>2. MaskInv /\ [MaskNext]_maskVars => MaskInv'
  BY MaskInvStep
<1>3. MaskInv => MaskIsItsSet
  <2>1. ASSUME NEW p \in Positions PROVE InRange(p)
    BY BitMaskAssumption DEF Positions, InRange, MASK_CHUNK_BITS
  <2> QED
    BY <2>1 DEF MaskInv, Represents, Masks, Positions, MaskIsItsSet
<1> QED
  BY <1>1, <1>2, <1>3, PTL DEF MaskSpec

-----------------------------------------------------------------------------
(***************************************************************************)
(* Digests: what LeafHash and NodeHash make, and nothing else.             *)
(***************************************************************************)

\* One string after another.
Cat(s, t) == s \o t

\* Two strings make one as long as both.
LEMMA CatType ==
  ASSUME NEW s \in Seq(Nat), NEW t \in Seq(Nat)
  PROVE  Cat(s, t) \in Seq(Nat) /\ Len(Cat(s, t)) = Len(s) + Len(t)
BY DEF Cat

\* The empty string changes nothing.
LEMMA CatEmpty ==
  ASSUME NEW s \in Seq(Nat)
  PROVE  Cat(s, <<>>) = s
BY DEF Cat

\* Concatenation is associative.
LEMMA CatAssoc ==
  ASSUME NEW s \in Seq(Nat), NEW t \in Seq(Nat), NEW u \in Seq(Nat)
  PROVE  Cat(Cat(s, t), u) = Cat(s, Cat(t, u))
BY SMTT(60) DEF Cat

\* Where the letters of the second string are.
LEMMA CatSecond ==
  ASSUME NEW s \in Seq(Nat), NEW t \in Seq(Nat), NEW i \in 1..Len(t)
  PROVE  Cat(s, t)[Len(s) + i] = t[i]
BY DEF Cat

\* What follows the same beginning is the same.
LEMMA CatCancel ==
  ASSUME NEW s \in Seq(Nat), NEW t \in Seq(Nat), NEW u \in Seq(Nat),
         Cat(s, t) = Cat(s, u)
  PROVE  t = u
<1>1. Len(s) \in Nat /\ Len(t) \in Nat /\ Len(u) \in Nat
  OBVIOUS
<1>2. Len(t) = Len(u)
  <2>1. Len(Cat(s, t)) = Len(s) + Len(t)
    BY CatType
  <2>2. Len(Cat(s, u)) = Len(s) + Len(u)
    BY CatType
  <2> QED
    BY <1>1, <2>1, <2>2
<1>3. ASSUME NEW i \in 1..Len(t) PROVE t[i] = u[i]
  <2>1. Cat(s, t)[Len(s) + i] = t[i]
    BY CatSecond
  <2>2. Cat(s, u)[Len(s) + i] = u[i]
    BY <1>2, CatSecond, SMTT(60)
  <2> QED
    BY <2>1, <2>2
<1> QED
  BY <1>2, <1>3, SeqEqual

\* A set of strings of numbers that holds the leaves and, with two digests,
\* their nodes.
Closed(S) ==
    /\ \A k \in Nat, b \in Nat : LeafHash(k, b) \in S
    /\ \A l \in S, r \in S : NodeHash(l, r) \in S

\* The least such set.
Hashes == {d \in Seq(Nat) : \A S \in SUBSET Seq(Nat) : Closed(S) => d \in S}

\* Strings are closed themselves.
LEMMA StringsClosed ==
  /\ \A k \in Nat, b \in Nat : LeafHash(k, b) \in Seq(Nat)
  /\ \A l \in Seq(Nat), r \in Seq(Nat) : NodeHash(l, r) \in Seq(Nat)
BY DEF LeafHash, NodeHash

\* The digests are closed.
LEMMA HashesClosed == Closed(Hashes)
<1>1. ASSUME NEW k \in Nat, NEW b \in Nat PROVE LeafHash(k, b) \in Hashes
  BY StringsClosed DEF Hashes, Closed
<1>2. ASSUME NEW l \in Hashes, NEW r \in Hashes PROVE NodeHash(l, r) \in Hashes
  <2>1. l \in Seq(Nat) /\ r \in Seq(Nat)
    BY DEF Hashes
  <2>2. ASSUME NEW S \in SUBSET Seq(Nat), Closed(S) PROVE NodeHash(l, r) \in S
    <3>1. l \in S /\ r \in S
      BY <2>2 DEF Hashes
    <3> QED
      BY <2>2, <3>1 DEF Closed
  <2>3. NodeHash(l, r) \in Seq(Nat)
    BY <2>1, StringsClosed
  <2> QED
    BY <2>2, <2>3 DEF Hashes
<1> QED
  BY <1>1, <1>2 DEF Closed

\* Whether d is a leaf, or a node of two digests.
IsLeaf(d) == \E k \in Nat, b \in Nat : d = LeafHash(k, b)
IsNode(d) == \E l \in Hashes, r \in Hashes : d = NodeHash(l, r)

\* A digest is the one or the other.
LEMMA LeafOrNode ==
  ASSUME NEW d \in Hashes
  PROVE  IsLeaf(d) \/ IsNode(d)
<1> DEFINE S == {x \in Hashes : IsLeaf(x) \/ IsNode(x)}
<1>1. S \in SUBSET Seq(Nat)
  BY DEF Hashes
<1>2. Closed(S)
  <2>1. ASSUME NEW k \in Nat, NEW b \in Nat PROVE LeafHash(k, b) \in S
    <3>1. LeafHash(k, b) \in Hashes
      BY HashesClosed DEF Closed
    <3> QED
      BY <3>1 DEF IsLeaf
  <2>2. ASSUME NEW l \in S, NEW r \in S PROVE NodeHash(l, r) \in S
    <3>1. NodeHash(l, r) \in Hashes
      BY HashesClosed DEF Closed
    <3> QED
      BY <3>1 DEF IsNode
  <2> HIDE DEF S
  <2> QED
    BY <2>1, <2>2 DEF Closed
<1>3. d \in S
  <2> HIDE DEF S
  <2> QED
    BY <1>1, <1>2 DEF Hashes
<1> QED
  BY <1>3

\* How a leaf begins, whatever follows it.
LEMMA LeafBegins ==
  ASSUME NEW k \in Nat, NEW b \in Nat, NEW s \in Seq(Nat)
  PROVE  /\ Cat(LeafHash(k, b), s)[1] = 40
         /\ Cat(LeafHash(k, b), s)[2] = k
         /\ Cat(LeafHash(k, b), s)[3] = b
BY DEF LeafHash, Cat

\* Leaves that begin the same string are the same.
LEMMA LeavesAgree ==
  ASSUME NEW u, NEW v, IsLeaf(u), IsLeaf(v),
         NEW s \in Seq(Nat), NEW t \in Seq(Nat), Cat(u, s) = Cat(v, t)
  PROVE  u = v
<1>1. PICK k \in Nat, b \in Nat : u = LeafHash(k, b)
  BY DEF IsLeaf
<1>2. PICK k2 \in Nat, b2 \in Nat : v = LeafHash(k2, b2)
  BY DEF IsLeaf
<1>3. Cat(LeafHash(k, b), s)[2] = k /\ Cat(LeafHash(k, b), s)[3] = b
  BY LeafBegins
<1>4. Cat(LeafHash(k2, b2), t)[2] = k2 /\ Cat(LeafHash(k2, b2), t)[3] = b2
  BY LeafBegins
<1>5. k = k2 /\ b = b2
  BY <1>1, <1>2, <1>3, <1>4, Zenon
<1> QED
  BY <1>1, <1>2, <1>5, Zenon

\* The first letter of a node.
NodeTag == <<64>>

\* How a string begins that begins with it.
LEMMA TagBegins ==
  /\ NodeTag \in Seq(Nat)
  /\ Len(NodeTag) = 1
  /\ \A s \in Seq(Nat) : Cat(NodeTag, s)[1] = 64
BY DEF NodeTag, Cat

\* A node as a string.
LEMMA NodeString ==
  ASSUME NEW l, NEW r
  PROVE  NodeHash(l, r) = Cat(Cat(NodeTag, l), r)
BY DEF NodeHash, Cat, NodeTag

\* How a node begins, whatever follows it, and its length.
LEMMA NodeBegins ==
  ASSUME NEW l \in Seq(Nat), NEW r \in Seq(Nat), NEW s \in Seq(Nat)
  PROVE  /\ Cat(NodeHash(l, r), s) = Cat(NodeTag, Cat(l, Cat(r, s)))
         /\ Cat(NodeHash(l, r), s)[1] = 64
         /\ Len(NodeHash(l, r)) = 1 + Len(l) + Len(r)
<1>1. /\ NodeTag \in Seq(Nat) /\ Cat(NodeTag, l) \in Seq(Nat)
      /\ Cat(r, s) \in Seq(Nat) /\ Cat(l, Cat(r, s)) \in Seq(Nat)
  BY TagBegins, CatType
<1>2. Cat(Cat(Cat(NodeTag, l), r), s) = Cat(Cat(NodeTag, l), Cat(r, s))
  BY <1>1, CatAssoc
<1>3. Cat(Cat(NodeTag, l), Cat(r, s)) = Cat(NodeTag, Cat(l, Cat(r, s)))
  BY <1>1, CatAssoc
<1>4. Len(Cat(Cat(NodeTag, l), r)) = 1 + Len(l) + Len(r)
  <2>1. Len(Cat(Cat(NodeTag, l), r)) = Len(Cat(NodeTag, l)) + Len(r)
    BY <1>1, CatType
  <2>2. Len(Cat(NodeTag, l)) = Len(NodeTag) + Len(l)
    BY <1>1, CatType
  <2> QED
    BY <2>1, <2>2, TagBegins
<1> QED
  BY <1>1, <1>2, <1>3, <1>4, NodeString, TagBegins

\* No digest begins another one: two strings that begin with a digest and are
\* equal begin with the same one.
LEMMA PrefixFree ==
  ASSUME NEW x \in Hashes, NEW y \in Hashes, NEW s \in Seq(Nat),
         NEW t \in Seq(Nat), Cat(x, s) = Cat(y, t)
  PROVE  x = y
<1> DEFINE Same(u) == \A v \in Hashes, a \in Seq(Nat), c \in Seq(Nat) :
                         Cat(u, a) = Cat(v, c) => u = v
           N == Len(x)
           R == {n \in 0..N : \A u \in Hashes : Len(u) <= n => Same(u)}
<1>1. ASSUME NEW u \in Hashes PROVE u \in Seq(Nat) /\ Len(u) \in Nat
  BY DEF Hashes
<1>2. ASSUME NEW u \in Hashes PROVE Len(u) >= 1
  <2>1. CASE IsLeaf(u)
    <3>1. PICK k \in Nat, b \in Nat : u = LeafHash(k, b)
      BY <2>1 DEF IsLeaf
    <3> QED
      BY <3>1 DEF LeafHash
  <2>2. CASE IsNode(u)
    <3>1. PICK l \in Hashes, r \in Hashes : u = NodeHash(l, r)
      BY <2>2 DEF IsNode
    <3>2. l \in Seq(Nat) /\ r \in Seq(Nat) /\ u \in Seq(Nat)
      BY <1>1
    <3>3. Len(u) = 1 + Len(l) + Len(r)
      BY <3>1, <3>2, NodeBegins
    <3> QED
      BY <1>1, <3>3
  <2> QED
    BY <2>1, <2>2, LeafOrNode
<1>3. N \in Nat
  BY <1>1
<1> HIDE DEF N
<1>4. 0 \in R
  <2>1. ASSUME NEW u \in Hashes, Len(u) <= 0 PROVE FALSE
    BY <1>1, <1>2, <2>1
  <2> HIDE DEF Same
  <2> QED
    BY <1>3, <2>1
<1>5. ASSUME NEW n \in 1..N, n - 1 \in R PROVE n \in R
  <2>1. ASSUME NEW u \in Hashes, Len(u) <= n, NEW v \in Hashes,
               NEW a \in Seq(Nat), NEW c \in Seq(Nat), Cat(u, a) = Cat(v, c)
        PROVE  u = v
    <3>1. CASE IsLeaf(u) /\ IsLeaf(v)
      BY <2>1, <3>1, LeavesAgree
    <3>2. CASE IsNode(u) /\ IsNode(v)
      <4>1. PICK l \in Hashes, r \in Hashes : u = NodeHash(l, r)
        BY <3>2 DEF IsNode
      <4>2. PICK l2 \in Hashes, r2 \in Hashes : v = NodeHash(l2, r2)
        BY <3>2 DEF IsNode
      <4>3. /\ l \in Seq(Nat) /\ r \in Seq(Nat)
            /\ l2 \in Seq(Nat) /\ r2 \in Seq(Nat)
        BY <1>1
      <4>4. /\ Cat(u, a) = Cat(NodeTag, Cat(l, Cat(r, a)))
            /\ Cat(v, c) = Cat(NodeTag, Cat(l2, Cat(r2, c)))
            /\ Len(u) = 1 + Len(l) + Len(r)
        <5>1. /\ Cat(NodeHash(l, r), a) = Cat(NodeTag, Cat(l, Cat(r, a)))
              /\ Len(NodeHash(l, r)) = 1 + Len(l) + Len(r)
          BY <4>3, NodeBegins
        <5>2. Cat(NodeHash(l2, r2), c) = Cat(NodeTag, Cat(l2, Cat(r2, c)))
          BY <4>3, NodeBegins
        <5> QED
          BY <4>1, <4>2, <5>1, <5>2
      <4>5. /\ Cat(r, a) \in Seq(Nat) /\ Cat(r2, c) \in Seq(Nat)
            /\ Cat(l, Cat(r, a)) \in Seq(Nat)
            /\ Cat(l2, Cat(r2, c)) \in Seq(Nat)
        BY <4>3, CatType
      <4>6. Cat(l, Cat(r, a)) = Cat(l2, Cat(r2, c))
        <5> DEFINE p == Cat(l, Cat(r, a))
                   q == Cat(l2, Cat(r2, c))
        <5>1. /\ p \in Seq(Nat) /\ q \in Seq(Nat) /\ NodeTag \in Seq(Nat)
              /\ Cat(NodeTag, p) = Cat(NodeTag, q)
          BY <2>1, <4>4, <4>5, TagBegins
        <5> HIDE DEF p, q
        <5>2. p = q
          BY <5>1, CatCancel
        <5> QED
          BY <5>2 DEF p, q
      <4>7. Len(l) <= n - 1 /\ Len(r) <= n - 1
        <5>1. Len(l) \in Nat /\ Len(r) \in Nat
          BY <1>1
        <5> QED
          BY <1>3, <2>1, <4>4, <5>1
      <4>8. Same(l) /\ Same(r)
        <5> HIDE DEF Same
        <5> QED
          BY <1>5, <4>7
      <4>9. l = l2
        BY <4>5, <4>6, <4>8
      <4>10. Cat(r, a) = Cat(r2, c)
        BY <4>3, <4>5, <4>6, <4>9, CatCancel
      <4>11. r = r2
        BY <4>8, <4>10
      <4> QED
        BY <4>1, <4>2, <4>9, <4>11
    <3>3. ASSUME NEW k \in Nat, NEW b \in Nat,
                 NEW l \in Hashes, NEW r \in Hashes,
                 NEW p \in Seq(Nat), NEW q \in Seq(Nat),
                 Cat(LeafHash(k, b), p) = Cat(NodeHash(l, r), q)
          PROVE  FALSE
      <4>1. l \in Seq(Nat) /\ r \in Seq(Nat)
        BY <1>1
      <4>2. Cat(LeafHash(k, b), p)[1] = 40
        BY LeafBegins
      <4>3. Cat(NodeHash(l, r), q)[1] = 64
        BY <4>1, NodeBegins
      <4> QED
        BY <3>3, <4>2, <4>3
    <3>4. ~(IsLeaf(u) /\ IsNode(v)) /\ ~(IsNode(u) /\ IsLeaf(v))
      BY <2>1, <3>3, ZenonT(60) DEF IsLeaf, IsNode
    <3> QED
      BY <3>1, <3>2, <3>4, LeafOrNode
  <2>2. \A u \in Hashes : Len(u) <= n => Same(u)
    BY <2>1
  <2> HIDE DEF Same
  <2> QED
    BY <1>3, <2>2
<1>6. N \in R
  <2> HIDE DEF R
  <2>1. \A i \in 0..N : i \in R
    BY <1>3, <1>4, <1>5, PrefixInduction
  <2> QED
    BY <1>3, <2>1
<1>7. Len(x) <= N
  BY <1>3 DEF N
<1>8. Same(x)
  <2> HIDE DEF Same
  <2> QED
    BY <1>6, <1>7
<1> QED
  BY <1>8

\* A digest tells what it was made of: which account and balance, or which
\* two digests; and no leaf is a node (the lengths of the preimages differ).
LEMMA HashInjective ==
  /\ \A k \in Nat, b \in Nat, k2 \in Nat, b2 \in Nat :
       LeafHash(k, b) = LeafHash(k2, b2) => k = k2 /\ b = b2
  /\ \A l \in Hashes, r \in Hashes, l2 \in Hashes, r2 \in Hashes :
       NodeHash(l, r) = NodeHash(l2, r2) => l = l2 /\ r = r2
  /\ \A k \in Nat, b \in Nat, l \in Hashes, r \in Hashes :
       LeafHash(k, b) # NodeHash(l, r)
<1> DEFINE e == <<>>
<1>0. e \in Seq(Nat) /\ \A u \in Seq(Nat) : Cat(u, e) = u
  BY CatEmpty
<1> HIDE DEF e
<1>1. \A u \in Hashes : u \in Seq(Nat)
  BY DEF Hashes
<1>2. ASSUME NEW k \in Nat, NEW b \in Nat, NEW k2 \in Nat, NEW b2 \in Nat,
             LeafHash(k, b) = LeafHash(k2, b2)
      PROVE  k = k2 /\ b = b2
  BY <1>2 DEF LeafHash
<1>3. ASSUME NEW l \in Hashes, NEW r \in Hashes, NEW l2 \in Hashes,
             NEW r2 \in Hashes, NodeHash(l, r) = NodeHash(l2, r2)
      PROVE  l = l2 /\ r = r2
  <2>1. /\ l \in Seq(Nat) /\ r \in Seq(Nat)
        /\ l2 \in Seq(Nat) /\ r2 \in Seq(Nat)
    BY <1>1
  <2>2. Cat(NodeTag, Cat(l, r)) = Cat(NodeTag, Cat(l2, r2))
    <3>1. /\ Cat(NodeHash(l, r), e) = Cat(NodeTag, Cat(l, Cat(r, e)))
          /\ Cat(NodeHash(l2, r2), e) = Cat(NodeTag, Cat(l2, Cat(r2, e)))
      BY <1>0, <2>1, NodeBegins
    <3>2. Cat(r, e) = r /\ Cat(r2, e) = r2
      BY <1>0, <2>1
    <3> QED
      BY <1>3, <3>1, <3>2
  <2>3. Cat(l, r) \in Seq(Nat) /\ Cat(l2, r2) \in Seq(Nat)
    BY <2>1, CatType
  <2>4. Cat(l, r) = Cat(l2, r2)
    BY <2>2, <2>3, TagBegins, CatCancel
  <2>5. l = l2
    BY <2>1, <2>4, PrefixFree
  <2>6. r = r2
    BY <2>1, <2>4, <2>5, CatCancel
  <2> QED
    BY <2>5, <2>6
<1>4. ASSUME NEW k \in Nat, NEW b \in Nat, NEW l \in Hashes, NEW r \in Hashes
      PROVE  LeafHash(k, b) # NodeHash(l, r)
  <2>1. Cat(LeafHash(k, b), e)[1] = 40
    BY <1>0, LeafBegins
  <2>2. Cat(NodeHash(l, r), e)[1] = 64
    BY <1>0, <1>1, NodeBegins
  <2> QED
    BY <2>1, <2>2
<1> QED
  BY <1>2, <1>3, <1>4

-----------------------------------------------------------------------------
(***************************************************************************)
(* The order of two digests.                                               *)
(***************************************************************************)

\* One string begins another if it agrees with it as far as it goes.
LEMMA PrefixByLetters ==
  ASSUME NEW x \in Seq(Nat), NEW y \in Seq(Nat)
  PROVE  IsPrefix(x, y) <=> /\ Len(x) <= Len(y)
                            /\ \A i \in 1..Len(x) : x[i] = y[i]
<1>1. Len(x) \in Nat /\ Len(y) \in Nat
  OBVIOUS
<1>2. ASSUME Len(x) <= Len(y)
      PROVE  SubSeq(x, 1, Len(x)) = SubSeq(y, 1, Len(x))
               <=> \A i \in 1..Len(x) : x[i] = y[i]
  <2> DEFINE n == Len(x)
             u == SubSeq(x, 1, n)
             v == SubSeq(y, 1, n)
  <2>1. u \in Seq(Nat) /\ Len(u) = n /\ \A i \in 1..n : u[i] = x[i]
    BY <1>1
  <2>2. v \in Seq(Nat) /\ Len(v) = n /\ \A i \in 1..n : v[i] = y[i]
    BY <1>1, <1>2
  <2> HIDE DEF u, v, n
  <2>3. u = v <=> \A i \in 1..n : u[i] = v[i]
    BY <2>1, <2>2, SeqEqual
  <2>4. u = v <=> \A i \in 1..n : x[i] = y[i]
    BY <2>1, <2>2, <2>3
  <2> QED
    BY <2>4 DEF u, v, n
<1> QED
  BY <1>2 DEF IsPrefix

\* x is smaller than y at their first difference.
SmallerAt(x, y, i) ==
    /\ i \in 1..Len(x) /\ i \in 1..Len(y)
    /\ x[i] < y[i]
    /\ \A j \in 1..(i - 1) : x[j] = y[j]

\* The order in these terms.
LEMMA LeqByLetters ==
  ASSUME NEW x \in Seq(Nat), NEW y \in Seq(Nat)
  PROVE  Leq(x, y) <=> \/ /\ Len(x) <= Len(y)
                          /\ \A i \in 1..Len(x) : x[i] = y[i]
                       \/ \E i \in Nat : SmallerAt(x, y, i)
<1>1. DOMAIN x = 1..Len(x) /\ DOMAIN y = 1..Len(y)
  OBVIOUS
<1>2. (\E i \in Nat : SmallerAt(x, y, i))
        <=> \E i \in DOMAIN x \cap DOMAIN y :
              x[i] < y[i] /\ \A j \in 1..(i - 1) : x[j] = y[j]
  <2>1. ASSUME NEW i \in DOMAIN x \cap DOMAIN y PROVE i \in Nat
    BY <1>1
  <2> QED
    BY <1>1, <2>1 DEF SmallerAt
<1> QED
  BY <1>2, PrefixByLetters DEF Leq

\* Of two strings one comes first.
LEMMA LeqTotal ==
  ASSUME NEW x \in Seq(Nat), NEW y \in Seq(Nat)
  PROVE  Leq(x, y) \/ Leq(y, x)
<1> DEFINE T == {i \in Nat : i \in 1..Len(x) /\ i \in 1..Len(y) /\ x[i] # y[i]}
<1>1. /\ Len(x) \in Nat /\ Len(y) \in Nat
      /\ \A i \in 1..Len(x) : x[i] \in Nat
      /\ \A i \in 1..Len(y) : y[i] \in Nat
  OBVIOUS
<1>2. CASE T = {}
  <2>1. \A i \in Nat : i \in 1..Len(x) /\ i \in 1..Len(y) => x[i] = y[i]
    BY <1>2
  <2>2. \/ Len(x) <= Len(y) /\ \A i \in 1..Len(x) : x[i] = y[i]
        \/ Len(y) <= Len(x) /\ \A i \in 1..Len(y) : y[i] = x[i]
    <3>1. CASE Len(x) <= Len(y)
      <4>1. ASSUME NEW i \in 1..Len(x) PROVE i \in Nat /\ i \in 1..Len(y)
        BY <1>1, <3>1
      <4> QED
        BY <2>1, <3>1, <4>1
    <3>2. CASE ~(Len(x) <= Len(y))
      <4>1. Len(y) <= Len(x)
        BY <1>1, <3>2
      <4>2. ASSUME NEW i \in 1..Len(y) PROVE i \in Nat /\ i \in 1..Len(x)
        BY <1>1, <4>1
      <4> QED
        BY <2>1, <4>1, <4>2
    <3> QED
      BY <3>1, <3>2
  <2> QED
    BY <2>2, LeqByLetters
<1>3. CASE T # {}
  <2>1. PICK i \in T : \A j \in T : i <= j
    <3>1. T \subseteq Nat
      OBVIOUS
    <3> HIDE DEF T
    <3> QED
      BY <1>3, <3>1, LeastNat
  <2>2. i \in Nat /\ i \in 1..Len(x) /\ i \in 1..Len(y) /\ x[i] # y[i]
    OBVIOUS
  <2>3. ASSUME NEW j \in 1..(i - 1) PROVE x[j] = y[j]
    <3>1. j \in Nat /\ j \in 1..Len(x) /\ j \in 1..Len(y) /\ j < i
      BY <1>1, <2>2, SMTT(60)
    <3>2. j \notin T
      BY <2>1, <2>2, <3>1
    <3> QED
      BY <3>1, <3>2
  <2>4. x[i] < y[i] \/ y[i] < x[i]
    BY <1>1, <2>2
  <2>5. SmallerAt(x, y, i) \/ SmallerAt(y, x, i)
    BY <2>2, <2>3, <2>4 DEF SmallerAt
  <2> QED
    BY <2>2, <2>5, LeqByLetters
<1> QED
  BY <1>2, <1>3

\* Strings that are each the first of the two are equal.
LEMMA LeqAntisymmetric ==
  ASSUME NEW x \in Seq(Nat), NEW y \in Seq(Nat), Leq(x, y), Leq(y, x)
  PROVE  x = y
<1>1. /\ Len(x) \in Nat /\ Len(y) \in Nat
      /\ \A i \in 1..Len(x) : x[i] \in Nat
      /\ \A i \in 1..Len(y) : y[i] \in Nat
  OBVIOUS
<1> DEFINE Begins(u, v) == Len(u) <= Len(v) /\ \A i \in 1..Len(u) : u[i] = v[i]
<1>2. ASSUME NEW u \in Seq(Nat), NEW v \in Seq(Nat), Begins(u, v),
             NEW i \in Nat, SmallerAt(v, u, i)
      PROVE  FALSE
  <2>1. i \in 1..Len(u) /\ i \in 1..Len(v) /\ v[i] < u[i]
    BY <1>2 DEF SmallerAt
  <2>2. u[i] = v[i] /\ u[i] \in Nat /\ v[i] \in Nat
    BY <1>2, <2>1
  <2> QED
    BY <2>1, <2>2
<1>3. ASSUME NEW i \in Nat, NEW j \in Nat, SmallerAt(x, y, i), SmallerAt(y, x, j)
      PROVE  FALSE
  <2>1. /\ i \in 1..Len(x) /\ i \in 1..Len(y) /\ x[i] < y[i]
        /\ j \in 1..Len(x) /\ j \in 1..Len(y) /\ y[j] < x[j]
        /\ \A m \in 1..(i - 1) : x[m] = y[m]
        /\ \A m \in 1..(j - 1) : y[m] = x[m]
    BY <1>3 DEF SmallerAt
  <2>2. x[i] \in Nat /\ y[i] \in Nat /\ x[j] \in Nat /\ y[j] \in Nat
    BY <1>1, <2>1
  <2>3. CASE i < j
    <3>1. i \in 1..(j - 1)
      BY <2>1, <2>3
    <3>2. x[i] = y[i]
      BY <2>1, <3>1
    <3> QED
      BY <2>1, <2>2, <3>2
  <2>4. CASE j < i
    <3>1. j \in 1..(i - 1)
      BY <2>1, <2>4
    <3>2. x[j] = y[j]
      BY <2>1, <3>1
    <3> QED
      BY <2>1, <2>2, <3>2
  <2>5. CASE i = j
    BY <2>1, <2>2, <2>5
  <2> QED
    BY <2>3, <2>4, <2>5
<1>4. /\ Begins(x, y) \/ \E i \in Nat : SmallerAt(x, y, i)
      /\ Begins(y, x) \/ \E i \in Nat : SmallerAt(y, x, i)
  BY LeqByLetters
<1>5. Begins(x, y) /\ Begins(y, x)
  <2> HIDE DEF Begins
  <2> QED
    BY <1>2, <1>3, <1>4
<1>6. Len(x) = Len(y) /\ \A i \in 1..Len(x) : x[i] = y[i]
  BY <1>1, <1>5
<1> QED
  BY <1>6, SeqEqual

\* The order in which two digests are met does not matter.
LEMMA AbsorbCommutes ==
  ASSUME NEW x \in Seq(Nat), NEW y \in Seq(Nat)
  PROVE  Absorb(x, y) = Absorb(y, x)
BY LeqTotal, LeqAntisymmetric DEF Absorb

\* What is absorbed is a digest, none of a leaf, and only of the two.
LEMMA AbsorbHash ==
  ASSUME NEW x \in Hashes, NEW y \in Hashes
  PROVE  /\ Absorb(x, y) \in Hashes
         /\ \A k \in Nat, b \in Nat : Absorb(x, y) # LeafHash(k, b)
         /\ \A c \in Hashes, d \in Hashes :
              Absorb(c, d) = Absorb(x, y) => c \in {x, y}
<1>1. Absorb(x, y) \in {NodeHash(x, y), NodeHash(y, x)}
  BY DEF Absorb
<1>2. \A c \in Hashes, d \in Hashes :
        Absorb(c, d) \in {NodeHash(c, d), NodeHash(d, c)}
  BY DEF Absorb
<1>3. NodeHash(x, y) \in Hashes /\ NodeHash(y, x) \in Hashes
  BY HashesClosed DEF Closed
<1> QED
  BY <1>1, <1>2, <1>3, HashInjective

-----------------------------------------------------------------------------
(***************************************************************************)
(* The loop of verify_balance_proof.                                       *)
(***************************************************************************)

\* f is what the loop computes, sibling after sibling.
Path(p, k, b, f) ==
    /\ f \in [0..Len(p) -> Hashes]
    /\ f[0] = LeafHash(k, b)
    /\ \A i \in 1..Len(p) : f[i] = Absorb(f[i-1], p[i])

\* The loop computes something.
LEMMA PathExists ==
  ASSUME NEW p \in Seq(Hashes), NEW k \in Nat, NEW b \in Nat
  PROVE  \E f : Path(p, k, b, f)
<1> DEFINE n == Len(p)
           A == Hashes
           init == LeafHash(k, b)
           step == [i \in 1..n |-> [x \in A |-> Absorb(x, p[i])]]
<1>1. n \in Nat /\ \A i \in 1..n : p[i] \in A
  OBVIOUS
<1>2. init \in A
  BY HashesClosed DEF Closed
<1>3. step \in Steps(n, A)
  <2>1. ASSUME NEW i \in 1..n, NEW x \in A PROVE Absorb(x, p[i]) \in A
    BY <1>1, AbsorbHash
  <2> HIDE DEF n, A
  <2> QED
    BY <2>1 DEF Steps
<1>4. PICK f : IsTrace(n, A, init, step, f)
  <2> HIDE DEF n, A, init, step
  <2> QED
    BY <1>1, <1>2, <1>3, PrefixRecursion
<1>5. f \in [0..n -> A] /\ f[0] = init /\ \A i \in 1..n : f[i] = step[i][f[i-1]]
  BY <1>4 DEF IsTrace
<1>6. ASSUME NEW i \in 1..n PROVE f[i] = Absorb(f[i-1], p[i])
  <2>1. f[i-1] \in A
    BY <1>1, <1>5
  <2> HIDE DEF n, A
  <2> QED
    BY <1>5, <2>1
<1> QED
  BY <1>5, <1>6 DEF Path

\* The loop computes the last digest of the path.
LEMMA VerifyPath ==
  ASSUME NEW p \in Seq(Hashes), NEW k \in Nat, NEW b \in Nat,
         NEW f, Path(p, k, b, f), NEW root
  PROVE  VerifyBalanceProof(p, root, k, b) <=> f[Len(p)] = root
<1> DEFINE n == Len(p)
           F(t) == [i \in 0..n |-> IF i = 0 THEN LeafHash(k, b)
                                   ELSE Absorb(t[i-1], p[i])]
           computed == CHOOSE t : t = F(t)
<1>1. n \in Nat
  OBVIOUS
<1>2. /\ f \in [0..n -> Hashes]
      /\ f[0] = LeafHash(k, b)
      /\ \A i \in 1..n : f[i] = Absorb(f[i-1], p[i])
  BY DEF Path
<1>3. f = F(f)
  <2> HIDE DEF n
  <2>1. ASSUME NEW i \in 0..n PROVE f[i] = F(f)[i]
    <3>1. CASE i = 0
      BY <1>2, <3>1
    <3>2. CASE i # 0
      <4>1. i \in 1..n
        BY <1>1, <3>2
      <4> QED
        BY <1>2, <3>2, <4>1
    <3> QED
      BY <3>1, <3>2
  <2>2. DOMAIN f = 0..n /\ DOMAIN F(f) = 0..n
    BY <1>2
  <2> QED
    BY <1>2, <2>1
<1>4. VerifyBalanceProof(p, root, k, b) <=> computed[n] = root
  BY DEF VerifyBalanceProof
<1>5. computed = F(computed)
  <2> HIDE DEF F
  <2> QED
    BY <1>3
<1>6. /\ computed[0] = LeafHash(k, b)
      /\ \A i \in 1..n : computed[i] = Absorb(computed[i-1], p[i])
  <2> HIDE DEF computed, n
  <2>1. computed[0] = F(computed)[0] /\ 0 \in 0..n
    BY <1>1, <1>5
  <2>2. ASSUME NEW i \in 1..n PROVE computed[i] = Absorb(computed[i-1], p[i])
    <3>1. computed[i] = F(computed)[i] /\ i \in 0..n /\ i # 0
      BY <1>1, <1>5
    <3> QED
      BY <3>1
  <2> QED
    BY <2>1, <2>2
<1> HIDE DEF computed, n
<1> DEFINE R == {i \in 0..n : computed[i] = f[i]}
<1>7. 0 \in R
  BY <1>1, <1>2, <1>6
<1>8. ASSUME NEW i \in 1..n, i - 1 \in R PROVE i \in R
  BY <1>1, <1>2, <1>6, <1>8
<1>9. n \in R
  <2> HIDE DEF R
  <2>1. \A i \in 0..n : i \in R
    BY <1>1, <1>7, <1>8, PrefixInduction
  <2> QED
    BY <1>1, <2>1
<1> QED
  BY <1>4, <1>9 DEF n

\* A proof of no sibling is one of the leaf itself.
LEMMA VerifyEmpty ==
  ASSUME NEW p \in Seq(Hashes), Len(p) = 0, NEW k \in Nat, NEW b \in Nat, NEW root
  PROVE  VerifyBalanceProof(p, root, k, b) <=> LeafHash(k, b) = root
<1>1. PICK f : Path(p, k, b, f)
  BY PathExists
<1>2. f[0] = LeafHash(k, b)
  BY <1>1 DEF Path
<1>3. VerifyBalanceProof(p, root, k, b) <=> f[Len(p)] = root
  BY <1>1, VerifyPath
<1> QED
  BY <1>2, <1>3

\* A proof of one sibling more: its beginning leads to some digest, which is
\* absorbed with the last sibling.
LEMMA VerifyLast ==
  ASSUME NEW p \in Seq(Hashes), NEW q \in Seq(Hashes), NEW d \in Hashes,
         Len(q) = Len(p) + 1, q[Len(q)] = d,
         \A i \in 1..Len(p) : q[i] = p[i],
         NEW k \in Nat, NEW b \in Nat
  PROVE  \E c \in Hashes :
           /\ VerifyBalanceProof(p, c, k, b)
           /\ \A r : VerifyBalanceProof(p, r, k, b) <=> r = c
           /\ \A r : VerifyBalanceProof(q, r, k, b) <=> r = Absorb(c, d)
<1>0. PICK f : Path(q, k, b, f)
  BY PathExists
<1> DEFINE n == Len(p)
           g == [i \in 0..n |-> f[i]]
           c == f[n]
<1>1. n \in Nat /\ Len(q) = n + 1 /\ q[n + 1] = d
  OBVIOUS
<1>2. /\ f \in [0..(n + 1) -> Hashes]
      /\ f[0] = LeafHash(k, b)
      /\ \A i \in 1..(n + 1) : f[i] = Absorb(f[i-1], q[i])
  BY <1>0, <1>1 DEF Path
<1>3. \A i \in 1..n : q[i] = p[i]
  OBVIOUS
<1>4. \A r : VerifyBalanceProof(q, r, k, b) <=> f[n + 1] = r
  BY <1>0, <1>1, VerifyPath
<1>5. Path(p, k, b, g)
  <2> HIDE DEF n
  <2>1. g \in [0..n -> Hashes]
    BY <1>1, <1>2
  <2>2. g[0] = LeafHash(k, b)
    BY <1>1, <1>2
  <2>3. ASSUME NEW i \in 1..n PROVE g[i] = Absorb(g[i-1], p[i])
    <3>1. i \in 0..n /\ i - 1 \in 0..n /\ i \in 1..(n + 1)
      BY <1>1
    <3> QED
      BY <1>2, <1>3, <3>1
  <2> HIDE DEF g
  <2> QED
    BY <2>1, <2>2, <2>3 DEF Path, n
<1>6. \A r : VerifyBalanceProof(p, r, k, b) <=> g[n] = r
  <2> HIDE DEF g
  <2> QED
    BY <1>5, VerifyPath
<1> HIDE DEF n
<1>7. g[n] = c /\ c \in Hashes
  BY <1>1, <1>2
<1>8. f[n + 1] = Absorb(c, d)
  <2>1. n + 1 \in 1..(n + 1) /\ (n + 1) - 1 = n
    BY <1>1
  <2> QED
    BY <1>1, <1>2, <2>1
<1> HIDE DEF c, g
<1> QED
  BY <1>4, <1>6, <1>7, <1>8

-----------------------------------------------------------------------------
(***************************************************************************)
(* The trees.                                                              *)
(***************************************************************************)

\* No account is in two trees, and what is kept is made of digests.
TreesTyped ==
    /\ DOMAIN snapshot \subseteq Key
    /\ \A k \in DOMAIN snapshot : snapshot[k] \in Balance
    /\ proofs \in [DOMAIN snapshot -> Seq(Hashes)]
    /\ \A t \in trees : t.keys \subseteq DOMAIN snapshot /\ t.root \in Hashes
    /\ \A s \in trees, t \in trees : s # t => s.keys \cap t.keys = {}

\* Every holder in a tree can prove their balance.
Complete ==
    \A t \in trees : \A k \in t.keys :
        VerifyBalanceProof(proofs[k], t.root, k, snapshot[k])

\* Digests of any origin, however many, prove nothing else.
Sound ==
    \A t \in trees, k \in Key, b \in Balance : \A p \in Seq(Hashes) :
        VerifyBalanceProof(p, t.root, k, b) => k \in t.keys /\ snapshot[k] = b

MerkleInv == TreesTyped /\ Complete /\ Sound

\* What proves the root of a leaf is the leaf; what proves a root above is a
\* proof of one of the two roots below it and a sibling.
LEMMA ProofsOfRoots ==
  ASSUME NEW p \in Seq(Hashes), NEW k \in Nat, NEW b \in Nat
  PROVE  /\ \A k2 \in Nat, b2 \in Nat :
              VerifyBalanceProof(p, LeafHash(k2, b2), k, b) => k = k2 /\ b = b2
         /\ \A x \in Hashes, y \in Hashes :
              VerifyBalanceProof(p, Absorb(x, y), k, b) =>
                \E q \in Seq(Hashes) : \/ VerifyBalanceProof(q, x, k, b)
                                       \/ VerifyBalanceProof(q, y, k, b)
<1>1. Len(p) \in Nat /\ \A i \in 1..Len(p) : p[i] \in Hashes
  OBVIOUS
<1>2. CASE Len(p) = 0
  <2>1. ASSUME NEW r PROVE VerifyBalanceProof(p, r, k, b) <=> LeafHash(k, b) = r
    BY <1>2, VerifyEmpty
  <2> QED
    BY <2>1, HashInjective, AbsorbHash
<1>3. CASE Len(p) # 0
  <2> DEFINE n == Len(p)
             q == SubSeq(p, 1, n - 1)
             d == p[n]
  <2>1. d \in Hashes
    BY <1>1, <1>3
  <2>2. q \in Seq(Hashes) /\ n = Len(q) + 1 /\ \A i \in 1..Len(q) : p[i] = q[i]
    <3>1. /\ q \in Seq(Hashes)
          /\ Len(q) = IF 1 <= n - 1 THEN (n - 1) - 1 + 1 ELSE 0
          /\ \A i \in 1..((n - 1) - 1 + 1) : q[i] = p[1 + i - 1]
      <4>1. 1 \in Int /\ n - 1 \in Int /\ \A i \in 1..(n - 1) : p[i] \in Hashes
        BY <1>1
      <4> HIDE DEF n
      <4> QED
        BY <4>1, SubSeqProperties
    <3>2. Len(q) = n - 1
      <4>1. n \in Nat /\ n # 0
        BY <1>1, <1>3
      <4> HIDE DEF n, q
      <4> QED
        BY <3>1, <4>1
    <3>3. \A i \in 1..(n - 1) : q[i] = p[i]
      <4>1. \A i \in 1..(n - 1) : i \in 1..((n - 1) - 1 + 1) /\ 1 + i - 1 = i
        BY <1>1
      <4> HIDE DEF q
      <4> QED
        BY <3>1, <4>1
    <3> HIDE DEF q
    <3> QED
      BY <1>1, <3>1, <3>2, <3>3
  <2> HIDE DEF q
  <2>3. PICK c \in Hashes :
          /\ VerifyBalanceProof(q, c, k, b)
          /\ \A r : VerifyBalanceProof(p, r, k, b) <=> r = Absorb(c, d)
    <3>1. Len(p) = Len(q) + 1 /\ p[Len(p)] = d
      BY <2>2
    <3> HIDE DEF d, n
    <3> QED
      BY <2>1, <2>2, <3>1, VerifyLast
  <2> HIDE DEF d, n
  <2>4. ASSUME NEW k2 \in Nat, NEW b2 \in Nat
        PROVE  ~VerifyBalanceProof(p, LeafHash(k2, b2), k, b)
    <3>1. Absorb(c, d) # LeafHash(k2, b2)
      BY <2>1, AbsorbHash
    <3> QED
      BY <2>3, <3>1
  <2>5. ASSUME NEW x \in Hashes, NEW y \in Hashes,
               VerifyBalanceProof(p, Absorb(x, y), k, b)
        PROVE  c \in {x, y}
    <3>1. Absorb(x, y) = Absorb(c, d)
      BY <2>3, <2>5
    <3> QED
      BY <2>1, <3>1, AbsorbHash
  <2> QED
    BY <2>2, <2>3, <2>4, <2>5
<1> QED
  BY <1>2, <1>3

\* The leaves are trees.
LEMMA MerkleInvInit == MerkleInit => MerkleInv
<1> SUFFICES ASSUME MerkleInit PROVE MerkleInv
  OBVIOUS
<1>1. PICK ks \in SUBSET Key : snapshot \in [ks -> Balance]
  BY DEF MerkleInit
<1>2. /\ DOMAIN snapshot \subseteq Key
      /\ \A k \in DOMAIN snapshot : /\ snapshot[k] \in Balance
                                    /\ k \in Nat /\ snapshot[k] \in Nat
  BY <1>1, MerkleAssumption
<1>3. ASSUME NEW t \in trees
      PROVE  \E k \in DOMAIN snapshot :
               t.keys = {k} /\ t.root = LeafHash(k, snapshot[k])
                 /\ t = [keys |-> {k}, root |-> LeafHash(k, snapshot[k])]
  BY DEF MerkleInit
<1>4. <<>> \in Seq(Hashes) /\ Len(<<>>) = 0
  OBVIOUS
<1>5. proofs = [k \in DOMAIN snapshot |-> <<>>]
  BY DEF MerkleInit
<1>6. TreesTyped
  <2>1. proofs \in [DOMAIN snapshot -> Seq(Hashes)]
    BY <1>4, <1>5
  <2>2. ASSUME NEW t \in trees
        PROVE  t.keys \subseteq DOMAIN snapshot /\ t.root \in Hashes
    BY <1>2, <1>3, HashesClosed DEF Closed
  <2>3. ASSUME NEW s \in trees, NEW t \in trees, s # t
        PROVE  s.keys \cap t.keys = {}
    BY <1>3, <2>3
  <2> QED
    BY <1>2, <2>1, <2>2, <2>3 DEF TreesTyped
<1>7. Complete
  <2>1. ASSUME NEW t \in trees, NEW k \in t.keys
        PROVE  VerifyBalanceProof(proofs[k], t.root, k, snapshot[k])
    <3>1. k \in DOMAIN snapshot /\ t.root = LeafHash(k, snapshot[k])
      BY <1>3
    <3>2. proofs[k] = <<>>
      BY <1>5, <3>1
    <3>3. proofs[k] \in Seq(Hashes) /\ Len(proofs[k]) = 0
      BY <1>4, <3>2
    <3> QED
      BY <1>2, <3>1, <3>3, VerifyEmpty
  <2> QED
    BY <2>1 DEF Complete
<1>8. Sound
  <2>1. ASSUME NEW t \in trees, NEW k \in Key, NEW b \in Balance,
               NEW p \in Seq(Hashes), VerifyBalanceProof(p, t.root, k, b)
        PROVE  k \in t.keys /\ snapshot[k] = b
    <3>1. PICK k2 \in DOMAIN snapshot :
            t.keys = {k2} /\ t.root = LeafHash(k2, snapshot[k2])
      BY <1>3
    <3>2. k \in Nat /\ b \in Nat /\ k2 \in Nat /\ snapshot[k2] \in Nat
      BY <1>2, MerkleAssumption
    <3>3. k = k2 /\ b = snapshot[k2]
      BY <2>1, <3>1, <3>2, ProofsOfRoots
    <3> QED
      BY <3>1, <3>3
  <2> QED
    BY <2>1 DEF Sound
<1> QED
  BY <1>6, <1>7, <1>8 DEF MerkleInv

\* Two trees make one.
LEMMA JoinPreserves ==
  ASSUME MerkleInv, NEW s \in trees, NEW t \in trees, Join(s, t)
  PROVE  MerkleInv'
<1> DEFINE new == [keys |-> s.keys \cup t.keys, root |-> Absorb(s.root, t.root)]
<1>1. /\ s # t
      /\ trees' = (trees \ {s, t}) \cup {new}
      /\ snapshot' = snapshot
  BY DEF Join, Parent, Absorb
<1>2. new.keys = s.keys \cup t.keys /\ new.root = Absorb(s.root, t.root)
  OBVIOUS
<1> HIDE DEF new
<1>3. TreesTyped /\ Complete /\ Sound
  BY DEF MerkleInv
<1>4. /\ DOMAIN snapshot \subseteq Key
      /\ \A k \in DOMAIN snapshot : snapshot[k] \in Balance
      /\ proofs \in [DOMAIN snapshot -> Seq(Hashes)]
      /\ \A u \in trees : u.keys \subseteq DOMAIN snapshot /\ u.root \in Hashes
      /\ \A u \in trees, v \in trees : u # v => u.keys \cap v.keys = {}
  BY <1>3 DEF TreesTyped
<1>5. \A k \in DOMAIN snapshot : k \in Nat /\ snapshot[k] \in Nat
  BY <1>4, MerkleAssumption
<1>6. s.root \in Hashes /\ t.root \in Hashes /\ new.root \in Hashes
  BY <1>2, <1>4, AbsorbHash
<1>7. proofs' = [k \in DOMAIN snapshot |->
                   CASE k \in s.keys -> Append(proofs[k], t.root)
                     [] k \in t.keys -> Append(proofs[k], s.root)
                     [] OTHER        -> proofs[k]]
  BY <1>4 DEF Join
<1>8. /\ s.keys \cap t.keys = {}
      /\ s.keys \subseteq DOMAIN snapshot /\ t.keys \subseteq DOMAIN snapshot
  BY <1>1, <1>4
<1>9. /\ \A k \in s.keys : proofs'[k] = Append(proofs[k], t.root)
      /\ \A k \in t.keys : proofs'[k] = Append(proofs[k], s.root)
      /\ \A k \in DOMAIN snapshot : k \notin s.keys /\ k \notin t.keys =>
           proofs'[k] = proofs[k]
  <2>1. ASSUME NEW k \in s.keys PROVE proofs'[k] = Append(proofs[k], t.root)
    <3>1. k \in DOMAIN snapshot /\ k \in s.keys /\ k \notin t.keys
      BY <1>8
    <3> QED
      BY <1>7, <3>1
  <2>2. ASSUME NEW k \in t.keys PROVE proofs'[k] = Append(proofs[k], s.root)
    <3>1. k \in DOMAIN snapshot /\ k \notin s.keys /\ k \in t.keys
      BY <1>8
    <3> QED
      BY <1>7, <3>1
  <2>3. ASSUME NEW k \in DOMAIN snapshot, k \notin s.keys, k \notin t.keys
        PROVE  proofs'[k] = proofs[k]
    BY <1>7, <2>3
  <2> QED
    BY <2>1, <2>2, <2>3
<1>10. proofs' \in [DOMAIN snapshot -> Seq(Hashes)]
  <2>1. ASSUME NEW k \in DOMAIN snapshot PROVE proofs'[k] \in Seq(Hashes)
    <3>1. proofs[k] \in Seq(Hashes)
      BY <1>4
    <3>2. /\ Append(proofs[k], t.root) \in Seq(Hashes)
          /\ Append(proofs[k], s.root) \in Seq(Hashes)
      BY <1>6, <3>1, AppendProperties
    <3> QED
      BY <1>9, <3>1, <3>2
  <2>2. proofs' = [k \in DOMAIN snapshot |-> proofs'[k]]
    BY <1>7
  <2> QED
    BY <2>1, <2>2
<1>11. TreesTyped'
  <2>1. ASSUME NEW u \in trees'
        PROVE  u.keys \subseteq DOMAIN snapshot /\ u.root \in Hashes
    BY <1>1, <1>2, <1>4, <1>6, <1>8
  <2>2. ASSUME NEW u \in trees', NEW v \in trees', u # v
        PROVE  u.keys \cap v.keys = {}
    <3>1. ASSUME NEW x \in trees \ {s, t} PROVE x.keys \cap new.keys = {}
      BY <1>2, <1>4
    <3>2. /\ u \in trees \ {s, t} \/ u = new
          /\ v \in trees \ {s, t} \/ v = new
      BY <1>1
    <3> QED
      BY <1>4, <2>2, <3>1, <3>2
  <2> QED
    BY <1>1, <1>4, <1>10, <2>1, <2>2 DEF TreesTyped
<1>12. ASSUME NEW k \in DOMAIN snapshot, NEW x \in Hashes, NEW y \in Hashes,
              VerifyBalanceProof(proofs[k], x, k, snapshot[k])
       PROVE  VerifyBalanceProof(Append(proofs[k], y), Absorb(x, y), k, snapshot[k])
  <2> DEFINE p == proofs[k]
             q == Append(p, y)
  <2>1. p \in Seq(Hashes) /\ k \in Nat /\ snapshot[k] \in Nat
    BY <1>4, <1>5
  <2>2. /\ q \in Seq(Hashes) /\ Len(q) = Len(p) + 1
        /\ \A i \in 1..Len(p) : q[i] = p[i]
        /\ q[Len(p) + 1] = y
    <3> HIDE DEF p
    <3> QED
      BY <2>1, AppendProperties
  <2>3. VerifyBalanceProof(p, x, k, snapshot[k])
    BY <1>12
  <2> HIDE DEF p, q
  <2>4. PICK c \in Hashes :
          /\ \A r : VerifyBalanceProof(p, r, k, snapshot[k]) <=> r = c
          /\ \A r : VerifyBalanceProof(q, r, k, snapshot[k]) <=> r = Absorb(c, y)
    BY <2>1, <2>2, VerifyLast
  <2>5. VerifyBalanceProof(q, Absorb(x, y), k, snapshot[k])
    BY <2>3, <2>4
  <2> QED
    BY <2>5 DEF p, q
<1>13. Complete'
  <2>1. ASSUME NEW u \in trees', NEW k \in u.keys
        PROVE  VerifyBalanceProof(proofs'[k], u.root, k, snapshot[k])
    <3>1. CASE u = new /\ k \in s.keys
      <4>1. VerifyBalanceProof(proofs[k], s.root, k, snapshot[k])
        BY <1>3, <3>1 DEF Complete
      <4>2. VerifyBalanceProof(Append(proofs[k], t.root),
                               Absorb(s.root, t.root), k, snapshot[k])
        BY <1>6, <1>8, <1>12, <3>1, <4>1
      <4> QED
        BY <1>2, <1>9, <3>1, <4>2
    <3>2. CASE u = new /\ k \in t.keys
      <4>1. VerifyBalanceProof(proofs[k], t.root, k, snapshot[k])
        BY <1>3, <3>2 DEF Complete
      <4>2. VerifyBalanceProof(Append(proofs[k], s.root),
                               Absorb(t.root, s.root), k, snapshot[k])
        BY <1>6, <1>8, <1>12, <3>2, <4>1
      <4>3. Absorb(t.root, s.root) = Absorb(s.root, t.root)
        <5>1. s.root \in Seq(Nat) /\ t.root \in Seq(Nat)
          BY <1>6 DEF Hashes
        <5> QED
          BY <5>1, AbsorbCommutes
      <4> QED
        BY <1>2, <1>9, <3>2, <4>2, <4>3
    <3>3. CASE u \in trees \ {s, t}
      <4>1. k \in DOMAIN snapshot /\ k \notin s.keys /\ k \notin t.keys
        BY <1>4, <3>3
      <4>2. VerifyBalanceProof(proofs[k], u.root, k, snapshot[k])
        BY <1>3, <3>3 DEF Complete
      <4> QED
        BY <1>9, <4>1, <4>2
    <3> QED
      BY <1>1, <1>2, <3>1, <3>2, <3>3
  <2> QED
    BY <1>1, <2>1 DEF Complete
<1>14. Sound'
  <2>1. ASSUME NEW u \in trees', NEW k \in Key, NEW b \in Balance,
               NEW p \in Seq(Hashes), VerifyBalanceProof(p, u.root, k, b)
        PROVE  k \in u.keys /\ snapshot[k] = b
    <3>1. CASE u \in trees
      BY <1>3, <2>1, <3>1 DEF Sound
    <3>2. CASE u = new
      <4>1. k \in Nat /\ b \in Nat
        BY MerkleAssumption
      <4>2. VerifyBalanceProof(p, Absorb(s.root, t.root), k, b)
        BY <1>2, <2>1, <3>2
      <4>3. PICK q \in Seq(Hashes) : \/ VerifyBalanceProof(q, s.root, k, b)
                                     \/ VerifyBalanceProof(q, t.root, k, b)
        BY <1>6, <4>1, <4>2, ProofsOfRoots
      <4>4. (k \in s.keys \/ k \in t.keys) /\ snapshot[k] = b
        BY <1>3, <4>3 DEF Sound
      <4> QED
        BY <1>2, <3>2, <4>4
    <3> QED
      BY <1>1, <3>1, <3>2
  <2> QED
    BY <1>1, <2>1 DEF Sound
<1> QED
  BY <1>11, <1>13, <1>14 DEF MerkleInv

\* A root commits to its snapshot (verify_balance_proof): in a tree of any
\* shape and size every holder can prove their balance, and no list of
\* digests, of whatever length, proves another balance or another account.
THEOREM RootsCommitToSnapshots == MerkleSpec => []RootsCommit
<1>1. MerkleInit => MerkleInv
  BY MerkleInvInit
<1>2. MerkleInv /\ [MerkleNext]_merkleVars => MerkleInv'
  <2>1. ASSUME MerkleInv, UNCHANGED merkleVars PROVE MerkleInv'
    BY <2>1 DEF MerkleInv, TreesTyped, Complete, Sound, merkleVars
  <2> QED
    BY <2>1, JoinPreserves DEF MerkleNext
<1>3. MerkleInv => RootsCommit
  <2> SUFFICES ASSUME MerkleInv, NEW t \in trees, NEW k \in Key, NEW b \in Balance
               PROVE  IF k \in t.keys /\ snapshot[k] = b
                      THEN VerifyBalanceProof(proofs[k], t.root, k, b)
                      ELSE \A p \in BoundedSeq(Digest, MaxProof) :
                             ~VerifyBalanceProof(p, t.root, k, b)
    BY DEF RootsCommit
  <2>1. TreesTyped /\ Complete /\ Sound
    BY DEF MerkleInv
  <2>2. Digest \subseteq Hashes
    <3>1. ASSUME NEW u \in trees PROVE u.root \in Hashes
      BY <2>1 DEF TreesTyped
    <3>2. ASSUME NEW j \in DOMAIN proofs, NEW i \in DOMAIN proofs[j]
          PROVE  proofs[j][i] \in Hashes
      <4>1. proofs[j] \in Seq(Hashes)
        BY <2>1 DEF TreesTyped
      <4> QED
        BY <4>1
    <3>3. ASSUME NEW j \in Key, NEW a \in Balance PROVE LeafHash(j, a) \in Hashes
      <4>1. j \in Nat /\ a \in Nat
        BY MerkleAssumption
      <4> QED
        BY <4>1, HashesClosed DEF Closed
    <3> DEFINE roots == {u.root : u \in trees}
               siblings == {{proofs[j][i] : i \in DOMAIN proofs[j]} :
                              j \in DOMAIN proofs}
               leaves == {LeafHash(j, a) : j \in Key, a \in Balance}
    <3>4. Digest = roots \cup (UNION siblings) \cup leaves
      BY DEF Digest
    <3>5. roots \subseteq Hashes /\ leaves \subseteq Hashes
      BY <3>1, <3>3
    <3>6. \A S \in siblings : S \subseteq Hashes
      BY <3>2
    <3> HIDE DEF roots, siblings, leaves
    <3>7. ASSUME NEW d \in UNION siblings PROVE d \in Hashes
      BY <3>6
    <3> QED
      BY <3>4, <3>5, <3>7
  <2>3. ASSUME NEW p \in BoundedSeq(Digest, MaxProof) PROVE p \in Seq(Hashes)
    <3>1. PICK n \in 0..MaxProof : p \in [1..n -> Digest]
      BY DEF BoundedSeq, SeqOf
    <3>2. n \in Nat /\ p \in [1..n -> Hashes]
      BY <2>2, <3>1, MerkleAssumption
    <3> QED
      BY <3>2
  <2>4. CASE k \in t.keys /\ snapshot[k] = b
    BY <2>1, <2>4 DEF Complete
  <2>5. CASE ~(k \in t.keys /\ snapshot[k] = b)
    BY <2>1, <2>3, <2>5 DEF Sound
  <2> QED
    BY <2>4, <2>5
<1> QED
  BY <1>1, <1>2, <1>3, PTL DEF MerkleSpec

=============================================================================
