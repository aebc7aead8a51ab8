-------------------------- MODULE HyperLogLogProofs --------------------------
(***************************************************************************)
(* Proofs about hyperloglogs and what counts with them, for every number   *)
(* of registers and every limit of the sparse representation: packed       *)
(* registers hold what is written to them (HllDense); each operation       *)
(* leaves a hyperloglog that stands for the registers of the elements it   *)
(* got, in either representation, and whose cached estimate is theirs      *)
(* (HyperLogLog); and the maxima of the dry run are those of its periods   *)
(* (DryRun).                                                               *)
(***************************************************************************)
EXTENDS DryRun, NumberLemmas, FiniteSetTheorems

----------------------------------------------------------------------------
(***************************************************************************)
(* Packed registers: register r has the bits 6 r to 6 r + 5 of the bytes   *)
(* in a row, bit c of byte x being bit 8 x + c.                            *)
(***************************************************************************)

\* Where a register begins.
LEMMA RegisterPlace ==
  ASSUME NEW r \in Regs
  PROVE  LET byte == (r * HLL_BITS) \div 8
             fb   == (r * HLL_BITS) % 8
         IN  /\ byte \in Bytes /\ byte + 1 \in Bytes
             /\ byte \in Nat /\ fb \in 0..7
             /\ 6 * r = 8 * byte + fb
<1> DEFINE byte == (r * HLL_BITS) \div 8
           fb == (r * HLL_BITS) % 8
           size == (HLL_REGISTERS * 6 + 7) \div 8
<1>1. HLL_REGISTERS \in Nat /\ r \in Nat /\ r + 1 <= HLL_REGISTERS
  BY Powers, PAssumption DEF Regs, HLL_REGISTERS
<1>2. byte \in Nat /\ fb \in 0..7 /\ 6 * r = 8 * byte + fb
  BY <1>1 DEF HLL_BITS
<1>3. size \in Nat /\ 8 * size <= 6 * HLL_REGISTERS + 7 /\ 6 * HLL_REGISTERS + 7 < 8 * size + 8
  BY <1>1
<1>4. HLL_DENSE_SIZE = size + 1
  BY DEF HLL_DENSE_SIZE, HLL_BITS
<1> HIDE DEF byte, fb, size
<1>5. byte + 1 <= size
  BY <1>1, <1>2, <1>3
<1>6. byte \in Bytes /\ byte + 1 \in Bytes
  BY <1>2, <1>3, <1>4, <1>5 DEF Bytes
<1>7. QED
  BY <1>2, <1>6 DEF byte, fb

\* Every bit of a register is a bit of a byte.
LEMMA BitPlace ==
  ASSUME NEW r \in Regs, NEW b \in HLL_REGISTER_MAX
  PROVE  \E x \in Bytes, c \in Bit : 8 * x + c = 6 * r + b
<1> DEFINE byte == (r * HLL_BITS) \div 8
           fb == (r * HLL_BITS) % 8
<1>1. /\ byte \in Bytes /\ byte + 1 \in Bytes /\ byte \in Nat /\ fb \in 0..7
      /\ 6 * r = 8 * byte + fb
  BY RegisterPlace
<1>2. b \in 0..5
  BY DEF HLL_REGISTER_MAX, HLL_BITS
<1> HIDE DEF byte, fb
<1>3. CASE fb + b < 8
  <2>1. fb + b \in Bit /\ 8 * byte + (fb + b) = 6 * r + b
    BY <1>1, <1>2, <1>3 DEF Bit
  <2>2. QED
    BY <1>1, <2>1
<1>4. CASE fb + b >= 8
  <2>1. fb + b - 8 \in Bit /\ 8 * (byte + 1) + (fb + b - 8) = 6 * r + b
    BY <1>1, <1>2, <1>4 DEF Bit
  <2>2. QED
    BY <1>1, <2>1
<1>5. QED
  BY <1>1, <1>2, <1>3, <1>4

\* What shifts do to a set of bits.
LEMMA Shifts ==
  ASSUME NEW bits \in SUBSET Int, NEW n \in Nat, NEW b \in Int
  PROVE  /\ b \in Left(bits, n) <=> b - n \in bits
         /\ b \in Right(bits, n) <=> (b >= 0 /\ b + n \in bits)
<1>1. b \in Left(bits, n) <=> b - n \in bits
  <2>1. (b - n) + n = b /\ \A c \in Int : c + n = b => c = b - n
    OBVIOUS
  <2>2. QED
    BY <2>1 DEF Left
<1>2. b \in Right(bits, n) <=> (b >= 0 /\ b + n \in bits)
  <2>1. (b + n) - n = b /\ \A c \in Int : c - n = b => c = b + n
    OBVIOUS
  <2>2. b + n >= n <=> b >= 0
    OBVIOUS
  <2>3. QED
    BY <2>1, <2>2 DEF Right
<1>3. QED
  BY <1>1, <1>2

\* HLL_DENSE_GET_REGISTER reads the bits of the register.
LEMMA GetBit ==
  ASSUME NEW p \in Dense, NEW r \in Regs, NEW b \in HLL_REGISTER_MAX,
         NEW x \in Bytes, NEW c \in Bit, 8 * x + c = 6 * r + b
  PROVE  b \in HLL_DENSE_GET_REGISTER(p, r) <=> c \in p[x]
<1> DEFINE byte == (r * HLL_BITS) \div 8
           fb == (r * HLL_BITS) % 8
<1>1. /\ byte \in Bytes /\ byte + 1 \in Bytes /\ byte \in Nat /\ fb \in 0..7
      /\ 6 * r = 8 * byte + fb
  BY RegisterPlace
<1>2. b \in 0..5 /\ c \in 0..7 /\ x \in Int
  BY DEF HLL_REGISTER_MAX, HLL_BITS, Bit, Bytes
<1>3. \A y \in Bytes : p[y] \in SUBSET (0..7)
  BY DEF Dense, Bit
<1>4. b \in HLL_DENSE_GET_REGISTER(p, r) <=>
        (b \in Right(p[byte], fb) \/ b \in Left(p[byte + 1], 8 - fb))
  BY DEF HLL_DENSE_GET_REGISTER
<1> HIDE DEF byte, fb
<1>5. b \in Right(p[byte], fb) <=> b + fb \in p[byte]
  <2>1. p[byte] \in SUBSET Int /\ fb \in Nat /\ b \in Int /\ b >= 0
    BY <1>1, <1>2, <1>3
  <2>2. QED
    BY <2>1, Shifts
<1>6. b \in Left(p[byte + 1], 8 - fb) <=> b - (8 - fb) \in p[byte + 1]
  <2>1. p[byte + 1] \in SUBSET Int /\ 8 - fb \in Nat /\ b \in Int
    BY <1>1, <1>2, <1>3
  <2>2. QED
    BY <2>1, Shifts
<1>7. CASE b + fb < 8
  <2>1. x = byte /\ c = b + fb
    BY <1>1, <1>2, <1>7
  <2>2. b - (8 - fb) \notin p[byte + 1]
    <3>1. b - (8 - fb) < 0
      BY <1>1, <1>2, <1>7
    <3>2. QED
      BY <1>1, <1>3, <3>1
  <2>3. QED
    BY <1>4, <1>5, <1>6, <2>1, <2>2
<1>8. CASE b + fb >= 8
  <2>1. x = byte + 1 /\ c = b - (8 - fb)
    BY <1>1, <1>2, <1>8
  <2>2. b + fb \notin p[byte]
    BY <1>1, <1>3, <1>8
  <2>3. QED
    BY <1>4, <1>5, <1>6, <2>1, <2>2
<1>9. QED
  BY <1>1, <1>2, <1>7, <1>8

\* HLL_DENSE_SET_REGISTER writes the bits of the register and no others.
LEMMA SetBit ==
  ASSUME NEW p \in Dense, NEW r \in Regs, NEW v \in SUBSET HLL_REGISTER_MAX,
         NEW x \in Bytes, NEW c \in Bit
  PROVE  /\ HLL_DENSE_SET_REGISTER(p, r, v) \in Dense
         /\ c \in HLL_DENSE_SET_REGISTER(p, r, v)[x] <=>
              IF 6 * r <= 8 * x + c /\ 8 * x + c < 6 * r + 6
              THEN 8 * x + c - 6 * r \in v
              ELSE c \in p[x]
<1> DEFINE byte == (r * HLL_BITS) \div 8
           fb == (r * HLL_BITS) % 8
           q == HLL_DENSE_SET_REGISTER(p, r, v)
           low == ((p[byte] \ Left(HLL_REGISTER_MAX, fb)) \cup Left(v, fb)) \cap Bit
           high == (p[byte + 1] \ Right(HLL_REGISTER_MAX, 8 - fb)) \cup Right(v, 8 - fb)
<1>1. /\ byte \in Bytes /\ byte + 1 \in Bytes /\ byte \in Nat /\ fb \in 0..7
      /\ 6 * r = 8 * byte + fb
  BY RegisterPlace
<1>2. c \in 0..7 /\ x \in Int /\ HLL_REGISTER_MAX = 0..5 /\ r \in Int
  BY DEF HLL_REGISTER_MAX, HLL_BITS, Bit, Bytes, Regs
<1>3. p \in [Bytes -> SUBSET Bit]
  BY DEF Dense
<1>4. q = [p EXCEPT ![byte] = low, ![byte + 1] = high]
  BY DEF HLL_DENSE_SET_REGISTER
<1>5. /\ HLL_REGISTER_MAX \in SUBSET Int /\ v \in SUBSET Int /\ fb \in Nat /\ 8 - fb \in Nat
  BY <1>1, <1>2
<1> HIDE DEF byte, fb, q
<1>6. low \in SUBSET Bit
  OBVIOUS
<1>7. high \in SUBSET Bit
  <2>1. ASSUME NEW y \in Right(v, 8 - fb)
        PROVE  y \in Bit
    <3>1. y \in Int
      BY <1>5 DEF Right
    <3>2. y >= 0 /\ y + (8 - fb) \in v
      BY <1>5, <3>1, Shifts
    <3>3. QED
      BY <1>1, <1>2, <3>1, <3>2 DEF Bit
  <2>2. QED
    BY <1>1, <1>3, <2>1
<1>8. byte # byte + 1
  BY <1>1
<1>9. /\ q \in Dense
      /\ q[byte] = low /\ q[byte + 1] = high
      /\ \A y \in Bytes : y # byte /\ y # byte + 1 => q[y] = p[y]
  <2> HIDE DEF low, high
  <2>1. QED
    BY <1>1, <1>3, <1>4, <1>6, <1>7, <1>8 DEF Dense
<1>10. c \in low <=> (IF 0 <= c - fb /\ c - fb < 6 THEN c - fb \in v ELSE c \in p[byte])
  <2>1. c \in Left(v, fb) <=> c - fb \in v
    BY <1>2, <1>5, Shifts
  <2>2. c \in Left(HLL_REGISTER_MAX, fb) <=> c - fb \in 0..5
    BY <1>2, <1>5, Shifts
  <2>3. c - fb \in 0..5 <=> (0 <= c - fb /\ c - fb < 6)
    BY <1>1, <1>2
  <2>4. c - fb \in v => c - fb \in 0..5
    BY <1>2
  <2>5. QED
    BY <2>1, <2>2, <2>3, <2>4
<1>11. c \in high <=> (IF c + (8 - fb) < 6 THEN c + (8 - fb) \in v ELSE c \in p[byte + 1])
  <2>1. c \in Right(v, 8 - fb) <=> c + (8 - fb) \in v
    BY <1>2, <1>5, Shifts
  <2>2. c \in Right(HLL_REGISTER_MAX, 8 - fb) <=> c + (8 - fb) \in 0..5
    BY <1>2, <1>5, Shifts
  <2>3. c + (8 - fb) \in 0..5 <=> c + (8 - fb) < 6
    BY <1>1, <1>2
  <2>4. c + (8 - fb) \in v => c + (8 - fb) \in 0..5
    BY <1>2
  <2>5. QED
    BY <2>1, <2>2, <2>3, <2>4
<1> HIDE DEF low, high
<1>12. c \in q[x] <=> IF 6 * r <= 8 * x + c /\ 8 * x + c < 6 * r + 6
                      THEN 8 * x + c - 6 * r \in v
                      ELSE c \in p[x]
  <2>1. CASE x = byte
    <3>1. 8 * x + c - 6 * r = c - fb
      BY <1>1, <1>2, <2>1
    <3>2. (6 * r <= 8 * x + c /\ 8 * x + c < 6 * r + 6) <=> (0 <= c - fb /\ c - fb < 6)
      BY <1>1, <1>2, <2>1
    <3>3. QED
      BY <1>9, <1>10, <2>1, <3>1, <3>2
  <2>2. CASE x = byte + 1
    <3>1. 8 * x + c - 6 * r = c + (8 - fb)
      BY <1>1, <1>2, <2>2
    <3>2. (6 * r <= 8 * x + c /\ 8 * x + c < 6 * r + 6) <=> c + (8 - fb) < 6
      BY <1>1, <1>2, <2>2
    <3>3. QED
      BY <1>9, <1>11, <2>2, <3>1, <3>2
  <2>3. CASE x # byte /\ x # byte + 1
    <3>1. ~(6 * r <= 8 * x + c /\ 8 * x + c < 6 * r + 6)
      <4>1. x < byte \/ x > byte + 1
        BY <1>1, <1>2, <2>3
      <4>2. QED
        BY <1>1, <1>2, <4>1
    <3>2. QED
      BY <1>9, <2>3, <3>1
  <2>4. QED
    BY <2>1, <2>2, <2>3
<1>13. QED
  BY <1>9, <1>12 DEF q

\* Setting a register makes it read as it was set, and no other register reads
\* otherwise than before, also those that share its bytes.
THEOREM DenseReadsBack ==
  ASSUME NEW p \in Dense, NEW r \in Regs, NEW v \in SUBSET HLL_REGISTER_MAX
  PROVE  /\ HLL_DENSE_SET_REGISTER(p, r, v) \in Dense
         /\ \A s \in Regs :
              HLL_DENSE_GET_REGISTER(HLL_DENSE_SET_REGISTER(p, r, v), s) =
                IF s = r THEN v ELSE HLL_DENSE_GET_REGISTER(p, s)
<1> DEFINE q == HLL_DENSE_SET_REGISTER(p, r, v)
<1>1. q \in Dense
  <2>1. PICK x \in Bytes : x = (r * HLL_BITS) \div 8
    BY RegisterPlace
  <2>2. 0 \in Bit
    BY DEF Bit
  <2>3. QED
    BY <2>1, <2>2, SetBit
<1>2. ASSUME NEW s \in Regs, NEW b \in HLL_REGISTER_MAX
      PROVE  b \in HLL_DENSE_GET_REGISTER(q, s) <=>
               b \in IF s = r THEN v ELSE HLL_DENSE_GET_REGISTER(p, s)
  <2>1. PICK x \in Bytes, c \in Bit : 8 * x + c = 6 * s + b
    BY BitPlace
  <2>2. b \in HLL_DENSE_GET_REGISTER(q, s) <=> c \in q[x]
    BY <1>1, <2>1, GetBit
  <2>3. b \in HLL_DENSE_GET_REGISTER(p, s) <=> c \in p[x]
    BY <2>1, GetBit
  <2>4. c \in q[x] <=> IF 6 * r <= 8 * x + c /\ 8 * x + c < 6 * r + 6
                       THEN 8 * x + c - 6 * r \in v
                       ELSE c \in p[x]
    BY SetBit
  <2> HIDE DEF q
  <2>5. b \in 0..5 /\ r \in Int /\ s \in Int /\ x \in Int /\ c \in Int
    BY DEF HLL_REGISTER_MAX, HLL_BITS, Regs, Bytes, Bit
  <2>6. CASE s = r
    <3>1. 6 * r <= 8 * x + c /\ 8 * x + c < 6 * r + 6 /\ 8 * x + c - 6 * r = b
      BY <2>1, <2>5, <2>6
    <3>2. QED
      BY <2>2, <2>4, <2>6, <3>1
  <2>7. CASE s # r
    <3>1. s < r \/ s > r
      BY <2>5, <2>7
    <3>2. ~(6 * r <= 8 * x + c /\ 8 * x + c < 6 * r + 6)
      BY <2>1, <2>5, <3>1
    <3>3. QED
      BY <2>2, <2>3, <2>4, <2>7, <3>2
  <2>8. QED
    BY <2>6, <2>7
<1>3. \A s \in Regs : /\ HLL_DENSE_GET_REGISTER(q, s) \subseteq HLL_REGISTER_MAX
                      /\ HLL_DENSE_GET_REGISTER(p, s) \subseteq HLL_REGISTER_MAX
  BY DEF HLL_DENSE_GET_REGISTER
<1> HIDE DEF q
<1>4. ASSUME NEW s \in Regs
      PROVE  HLL_DENSE_GET_REGISTER(q, s) = IF s = r THEN v ELSE HLL_DENSE_GET_REGISTER(p, s)
  <2> DEFINE want == IF s = r THEN v ELSE HLL_DENSE_GET_REGISTER(p, s)
  <2>1. want \subseteq HLL_REGISTER_MAX
    BY <1>3
  <2>2. \A b \in HLL_REGISTER_MAX : b \in HLL_DENSE_GET_REGISTER(q, s) <=> b \in want
    BY <1>2
  <2> HIDE DEF want
  <2>3. HLL_DENSE_GET_REGISTER(q, s) = want
    BY <1>3, <2>1, <2>2
  <2>4. QED
    BY <2>3 DEF want
<1>5. QED
  BY <1>1, <1>4 DEF q

\* hllMerge(): or-ing the bytes or-s each register.
THEOREM OrMergesRegisters ==
  ASSUME NEW p \in Dense, NEW q \in Dense
  PROVE  /\ BitwiseOr(p, q) \in Dense
         /\ \A r \in Regs :
              HLL_DENSE_GET_REGISTER(BitwiseOr(p, q), r) =
                HLL_DENSE_GET_REGISTER(p, r) \cup HLL_DENSE_GET_REGISTER(q, r)
<1> DEFINE o == BitwiseOr(p, q)
<1>1. o \in Dense /\ \A x \in Bytes : o[x] = p[x] \cup q[x]
  BY DEF BitwiseOr, Dense
<1> HIDE DEF o
<1>2. ASSUME NEW r \in Regs
      PROVE  HLL_DENSE_GET_REGISTER(o, r) =
               HLL_DENSE_GET_REGISTER(p, r) \cup HLL_DENSE_GET_REGISTER(q, r)
  <2>1. ASSUME NEW b \in HLL_REGISTER_MAX
        PROVE  b \in HLL_DENSE_GET_REGISTER(o, r) <=>
                 (b \in HLL_DENSE_GET_REGISTER(p, r) \/ b \in HLL_DENSE_GET_REGISTER(q, r))
    <3>1. PICK x \in Bytes, c \in Bit : 8 * x + c = 6 * r + b
      BY BitPlace
    <3>2. /\ b \in HLL_DENSE_GET_REGISTER(o, r) <=> c \in o[x]
          /\ b \in HLL_DENSE_GET_REGISTER(p, r) <=> c \in p[x]
          /\ b \in HLL_DENSE_GET_REGISTER(q, r) <=> c \in q[x]
      BY <1>1, <3>1, GetBit
    <3>3. QED
      BY <1>1, <3>2
  <2>2. /\ HLL_DENSE_GET_REGISTER(o, r) \subseteq HLL_REGISTER_MAX
        /\ HLL_DENSE_GET_REGISTER(p, r) \subseteq HLL_REGISTER_MAX
        /\ HLL_DENSE_GET_REGISTER(q, r) \subseteq HLL_REGISTER_MAX
    BY DEF HLL_DENSE_GET_REGISTER
  <2>3. QED
    BY <2>1, <2>2
<1>3. QED
  BY <1>1, <1>2 DEF o

\* hllDenseSum(): the shifts of its unrolled loop, which are others than those of
\* HLL_DENSE_GET_REGISTER, see the same value in every register.
THEOREM SumSeesRegisters ==
  ASSUME NEW p \in Dense, NEW r \in Regs
  PROVE  SummedRegister(p, r) = HLL_DENSE_GET_REGISTER(p, r)
<1> DEFINE q == 3 * (r \div 4)
           m == r % 4
           N == HLL_DENSE_SIZE - 1
<1>1. HLL_REGISTERS \in Nat /\ r \in Nat /\ r + 1 <= HLL_REGISTERS
  BY Powers, PAssumption DEF Regs, HLL_REGISTERS
<1>2. q \in Nat /\ m \in 0..3 /\ 6 * r = 8 * q + 6 * m
  BY <1>1
<1>3. N \in Nat /\ 6 * HLL_REGISTERS + 7 < 8 * N + 8 /\ Bytes = 0..N
  <2> DEFINE size == (HLL_REGISTERS * 6 + 7) \div 8
  <2>1. size \in Nat /\ 6 * HLL_REGISTERS + 7 < 8 * size + 8
    BY <1>1
  <2>2. HLL_DENSE_SIZE = size + 1
    BY DEF HLL_DENSE_SIZE, HLL_BITS
  <2> HIDE DEF size
  <2>3. N = size
    BY <2>1, <2>2
  <2>4. QED
    BY <2>1, <2>2, <2>3 DEF Bytes
<1>4. \A x \in Bytes : p[x] \in SUBSET (0..7)
  BY DEF Dense, Bit
<1>5. HLL_REGISTER_MAX = 0..5
  BY DEF HLL_REGISTER_MAX, HLL_BITS
<1>6. HLL_DENSE_GET_REGISTER(p, r) \subseteq 0..5
  BY <1>5 DEF HLL_DENSE_GET_REGISTER
<1>7. /\ m = 0 => SummedRegister(p, r) = p[q] \cap 0..5
      /\ m = 1 => SummedRegister(p, r) = (Right(p[q], 6) \cup Left(p[q + 1], 2)) \cap 0..5
      /\ m = 2 => SummedRegister(p, r) = (Right(p[q + 1], 4) \cup Left(p[q + 2], 4)) \cap 0..5
      /\ m = 3 => SummedRegister(p, r) = Right(p[q + 2], 2) \cap 0..5
  BY <1>5 DEF SummedRegister
<1> HIDE DEF q, m, N
<1>8. ASSUME NEW b \in 0..5, NEW x \in Bytes, NEW c \in Bit, 8 * x + c = 6 * r + b
      PROVE  b \in HLL_DENSE_GET_REGISTER(p, r) <=> c \in p[x]
  BY <1>5, <1>8, GetBit
<1>9. ASSUME NEW b \in 0..5
      PROVE  b \in SummedRegister(p, r) <=> b \in HLL_DENSE_GET_REGISTER(p, r)
  <2>1. PICK x \in Bytes, c \in Bit : 8 * x + c = 6 * r + b
    BY <1>5, BitPlace
  <2>2. b \in HLL_DENSE_GET_REGISTER(p, r) <=> c \in p[x]
    BY <1>8, <2>1
  <2>3. x \in Nat /\ c \in 0..7 /\ b \in Int
    BY <1>3 DEF Bit
  <2>4. CASE m = 0
    <3>1. x = q /\ c = b
      BY <1>2, <2>1, <2>3, <2>4
    <3>2. QED
      BY <1>7, <2>2, <2>4, <3>1
  <2>5. CASE m = 1
    <3>1. q \in Bytes /\ q + 1 \in Bytes
      BY <1>1, <1>2, <1>3, <2>5
    <3>2. p[q] \in SUBSET Int /\ p[q + 1] \in SUBSET Int
      BY <1>4, <3>1
    <3>3. /\ b \in Right(p[q], 6) <=> b + 6 \in p[q]
          /\ b \in Left(p[q + 1], 2) <=> b - 2 \in p[q + 1]
      <4> DEFINE low  == p[q]
                 high == p[q + 1]
      <4>1. low \in SUBSET Int /\ high \in SUBSET Int /\ b \in Int
        BY <2>3, <3>2
      <4> HIDE DEF low, high
      <4>2. b \in Right(low, 6) <=> b + 6 \in low
        BY <4>1, Shifts
      <4>3. b \in Left(high, 2) <=> b - 2 \in high
        BY <4>1, Shifts
      <4>4. QED
        BY <4>2, <4>3 DEF low, high
    <3>4. (b < 2 /\ x = q /\ c = b + 6) \/ (b >= 2 /\ x = q + 1 /\ c = b - 2)
      BY <1>2, <2>1, <2>3, <2>5
    <3>5. (b < 2 => b - 2 \notin p[q + 1]) /\ (b >= 2 => b + 6 \notin p[q])
      <4>1. p[q] \in SUBSET (0..7) /\ p[q + 1] \in SUBSET (0..7)
        BY <1>4, <3>1
      <4>2. (b < 2 => b - 2 \notin 0..7) /\ (b >= 2 => b + 6 \notin 0..7)
        BY <2>3
      <4>3. QED
        BY <4>1, <4>2
    <3>6. QED
      BY <1>7, <2>2, <2>5, <3>3, <3>4, <3>5
  <2>6. CASE m = 2
    <3>1. q + 1 \in Bytes /\ q + 2 \in Bytes
      BY <1>1, <1>2, <1>3, <2>6
    <3>2. p[q + 1] \in SUBSET Int /\ p[q + 2] \in SUBSET Int
      BY <1>4, <3>1
    <3>3. /\ b \in Right(p[q + 1], 4) <=> b + 4 \in p[q + 1]
          /\ b \in Left(p[q + 2], 4) <=> b - 4 \in p[q + 2]
      <4> DEFINE low  == p[q + 1]
                 high == p[q + 2]
      <4>1. low \in SUBSET Int /\ high \in SUBSET Int /\ b \in Int
        BY <2>3, <3>2
      <4> HIDE DEF low, high
      <4>2. b \in Right(low, 4) <=> b + 4 \in low
        BY <4>1, Shifts
      <4>3. b \in Left(high, 4) <=> b - 4 \in high
        BY <4>1, Shifts
      <4>4. QED
        BY <4>2, <4>3 DEF low, high
    <3>4. (b < 4 /\ x = q + 1 /\ c = b + 4) \/ (b >= 4 /\ x = q + 2 /\ c = b - 4)
      BY <1>2, <2>1, <2>3, <2>6
    <3>5. (b < 4 => b - 4 \notin p[q + 2]) /\ (b >= 4 => b + 4 \notin p[q + 1])
      <4>1. p[q + 1] \in SUBSET (0..7) /\ p[q + 2] \in SUBSET (0..7)
        BY <1>4, <3>1
      <4>2. (b < 4 => b - 4 \notin 0..7) /\ (b >= 4 => b + 4 \notin 0..7)
        BY <2>3
      <4>3. QED
        BY <4>1, <4>2
    <3>6. QED
      BY <1>7, <2>2, <2>6, <3>3, <3>4, <3>5
  <2>7. CASE m = 3
    <3>1. q + 2 \in Bytes
      BY <1>1, <1>2, <1>3, <2>7
    <3>2. b \in Right(p[q + 2], 2) <=> b + 2 \in p[q + 2]
      <4>1. p[q + 2] \in SUBSET Int
        BY <1>4, <3>1
      <4>2. QED
        BY <2>3, <4>1, Shifts
    <3>3. x = q + 2 /\ c = b + 2
      BY <1>2, <2>1, <2>3, <2>7
    <3>4. QED
      BY <1>7, <2>2, <2>7, <3>2, <3>3
  <2>8. QED
    BY <1>2, <2>4, <2>5, <2>6, <2>7
<1>10. SummedRegister(p, r) \subseteq 0..5
  BY <1>5 DEF SummedRegister
<1>11. QED
  BY <1>6, <1>9, <1>10

\* The sums of a concatenation.
LEMMA SumsConcat ==
  ASSUME NEW s \in Seq(Nat), NEW t \in Seq(Nat)
  PROVE  /\ s \o t \in Seq(Nat) /\ Len(s \o t) = Len(s) + Len(t)
         /\ \A n \in 0..Len(s) : Sums(s \o t)[n] = Sums(s)[n]
         /\ \A n \in 0..Len(t) : Sums(s \o t)[Len(s) + n] = Sums(s)[Len(s)] + Sums(t)[n]
<1> DEFINE u == s \o t
           f == Sums(u)
           g == Sums(s)
           h == Sums(t)
           M == Len(s)
           N == Len(t)
<1>1. /\ u \in Seq(Nat) /\ Len(u) = M + N /\ M \in Nat /\ N \in Nat
      /\ \A i \in 1..M : u[i] = s[i]
      /\ \A i \in 1..N : u[M + i] = t[i]
      /\ \A i \in 1..M : s[i] \in Nat
      /\ \A i \in 1..N : t[i] \in Nat
  OBVIOUS
<1>2. /\ g \in [0..M -> Nat] /\ g[0] = 0 /\ \A i \in 1..M : g[i] = g[i - 1] + s[i]
      /\ h \in [0..N -> Nat] /\ h[0] = 0 /\ \A i \in 1..N : h[i] = h[i - 1] + t[i]
  BY SumsAre
<1>3. f \in [0..(M + N) -> Nat] /\ f[0] = 0 /\ \A i \in 1..(M + N) : f[i] = f[i - 1] + u[i]
  <2>1. f \in [0..Len(u) -> Nat] /\ f[0] = 0 /\ \A i \in 1..Len(u) : f[i] = f[i - 1] + u[i]
    BY <1>1, SumsAre
  <2>2. QED
    BY <1>1, <2>1
<1> HIDE DEF u, f, g, h, M, N
<1> DEFINE P == {n \in Nat : n <= M => f[n] = g[n]}
<1>4. P = Nat
  <2>1. P \in SUBSET Nat /\ 0 \in P
    BY <1>2, <1>3
  <2>2. ASSUME NEW n \in Nat, n \in P
        PROVE  n + 1 \in P
    <3>1. ASSUME n + 1 <= M
          PROVE  f[n + 1] = g[n + 1]
      <4>1. n + 1 \in 1..M /\ n + 1 \in 1..(M + N) /\ (n + 1) - 1 = n /\ n <= M
        BY <1>1, <3>1
      <4>2. f[n + 1] = f[n] + u[n + 1]
        BY <1>3, <4>1
      <4>3. g[n + 1] = g[n] + s[n + 1]
        BY <1>2, <4>1
      <4>4. f[n] = g[n] /\ u[n + 1] = s[n + 1]
        BY <1>1, <2>2, <4>1
      <4>5. QED
        BY <4>2, <4>3, <4>4
    <3>2. QED
      BY <3>1
  <2> HIDE DEF P
  <2>3. QED
    BY <2>1, <2>2, Induction
<1>5. \A n \in 0..M : f[n] = g[n]
  <2>1. \A n \in 0..M : n \in Nat /\ n <= M
    BY <1>1
  <2>2. \A n \in Nat : n <= M => f[n] = g[n]
    BY <1>4
  <2>3. QED
    BY <2>1, <2>2
<1> HIDE DEF P
<1> DEFINE Q == {n \in Nat : n <= N => f[M + n] = g[M] + h[n]}
<1>6. Q = Nat
  <2>1. Q \in SUBSET Nat /\ 0 \in Q
    <3>1. M \in 0..M /\ M + 0 = M /\ g[M] \in Nat
      BY <1>1, <1>2
    <3>2. f[M + 0] = g[M] + h[0]
      BY <1>2, <1>5, <3>1
    <3>3. QED
      BY <3>2
  <2>2. ASSUME NEW n \in Nat, n \in Q
        PROVE  n + 1 \in Q
    <3>1. ASSUME n + 1 <= N
          PROVE  f[M + (n + 1)] = g[M] + h[n + 1]
      <4>1. /\ n + 1 \in 1..N /\ M + (n + 1) \in 1..(M + N)
            /\ (M + (n + 1)) - 1 = M + n /\ (n + 1) - 1 = n /\ n <= N
            /\ n \in 0..N /\ M \in 0..M
        BY <1>1, <3>1
      <4>2. f[M + (n + 1)] = f[M + n] + u[M + (n + 1)]
        BY <1>3, <4>1
      <4>3. h[n + 1] = h[n] + t[n + 1]
        BY <1>2, <4>1
      <4>4. f[M + n] = g[M] + h[n] /\ u[M + (n + 1)] = t[n + 1]
        BY <1>1, <2>2, <4>1
      <4>5. g[M] \in Nat /\ h[n] \in Nat /\ t[n + 1] \in Nat
        BY <1>1, <1>2, <4>1
      <4>6. QED
        BY <4>2, <4>3, <4>4, <4>5
    <3>2. QED
      BY <3>1
  <2> HIDE DEF Q
  <2>3. QED
    BY <2>1, <2>2, Induction
<1>7. \A n \in 0..N : f[M + n] = g[M] + h[n]
  <2>1. \A n \in 0..N : n \in Nat /\ n <= N
    BY <1>1
  <2>2. \A n \in Nat : n \in Q
    <3> HIDE DEF Q
    <3>1. QED
      BY <1>6
  <2>3. QED
    BY <2>1, <2>2
<1> HIDE DEF Q
<1>8. QED
  BY <1>1, <1>5, <1>7 DEF f, g, h, u, M, N

----------------------------------------------------------------------------
(***************************************************************************)
(* Runs of opcodes.  Reads(ops, a, b, regs): the opcodes are well formed,  *)
(* cover the registers from a to before b, and regs are their values.      *)
(***************************************************************************)

Opcode ==
  [op : {"zero"}, len : 1..HLL_SPARSE_ZERO_MAX_LEN, val : {0}]
    \cup [op : {"xzero"}, len : 1..HLL_SPARSE_XZERO_MAX_LEN, val : {0}]
    \cup [op : {"val"}, len : 1..HLL_SPARSE_VAL_MAX_LEN, val : 1..HLL_SPARSE_VAL_MAX_VALUE]

Holds(regs, first, end, val) == \A r \in first..(end - 1) : regs[r] = val

Reads(ops, a, b, regs) ==
  /\ b = a + Covered(ops)
  /\ \A k \in 1..Len(ops) :
       Holds(regs, a + Ends(ops)[k - 1], a + Ends(ops)[k], ops[k].val)

\* What an opcode is.
LEMMA OpcodeFields ==
  ASSUME NEW o \in Opcode
  PROVE  /\ o.op \in {"zero", "xzero", "val"}
         /\ o.len \in Nat \ {0} /\ o.val \in Nat
         /\ OpBytes(o) \in {1, 2} /\ Fits(o)
         /\ o.val <= HLL_SPARSE_VAL_MAX_VALUE
         /\ o.op = "val" => /\ o.val \in 1..HLL_SPARSE_VAL_MAX_VALUE
                            /\ o.len \in 1..HLL_SPARSE_VAL_MAX_LEN
         /\ o.op # "val" => o.val = 0
BY HllAssumption, Powers DEF Opcode, OpBytes, Fits

\* How far opcodes reach.
LEMMA EndsAre ==
  ASSUME NEW ops \in Seq(Opcode)
  PROVE  /\ Ends(ops) \in [0..Len(ops) -> Nat]
         /\ Ends(ops)[0] = 0
         /\ \A k \in 1..Len(ops) : Ends(ops)[k] = Ends(ops)[k - 1] + ops[k].len
         /\ \A m, n \in 0..Len(ops) : m <= n => Ends(ops)[m] <= Ends(ops)[n]
         /\ Covered(ops) \in Nat
         /\ SparseLen(ops) \in Nat
<1> DEFINE s == [k \in 1..Len(ops) |-> ops[k].len]
           t == [k \in 1..Len(ops) |-> OpBytes(ops[k])]
<1>1. s \in Seq(Nat) /\ Len(s) = Len(ops) /\ Len(ops) \in Nat
  <2>1. \A k \in 1..Len(ops) : ops[k].len \in Nat
    BY OpcodeFields
  <2>2. QED
    BY <2>1
<1>2. t \in Seq(Nat) /\ Len(t) = Len(ops)
  <2>1. \A k \in 1..Len(ops) : OpBytes(ops[k]) \in Nat
    BY OpcodeFields
  <2>2. QED
    BY <2>1
<1>3. \A k \in 1..Len(ops) : s[k] = ops[k].len
  OBVIOUS
<1>4. Ends(ops) = Sums(s) /\ Covered(ops) = Ends(ops)[Len(ops)] /\ SparseLen(ops) = Sums(t)[Len(ops)]
  BY DEF Ends, Covered, SparseLen
<1> HIDE DEF s, t
<1>5. /\ Sums(s) \in [0..Len(ops) -> Nat] /\ Sums(s)[0] = 0
      /\ \A k \in 1..Len(ops) : Sums(s)[k] = Sums(s)[k - 1] + s[k]
  BY <1>1, SumsAre
<1>6. Sums(t) \in [0..Len(ops) -> Nat]
  BY <1>2, SumsAre
<1>7. \A m, n \in 0..Len(ops) : m <= n => Sums(s)[m] <= Sums(s)[n]
  BY <1>1, SumsMonotone
<1>8. Len(ops) \in 0..Len(ops)
  BY <1>1
<1>9. QED
  BY <1>3, <1>4, <1>5, <1>6, <1>7, <1>8

\* Two runs, one behind the other.
LEMMA EndsConcat ==
  ASSUME NEW x \in Seq(Opcode), NEW y \in Seq(Opcode)
  PROVE  /\ x \o y \in Seq(Opcode) /\ Len(x \o y) = Len(x) + Len(y)
         /\ \A n \in 0..Len(x) : Ends(x \o y)[n] = Ends(x)[n]
         /\ \A n \in 0..Len(y) : Ends(x \o y)[Len(x) + n] = Covered(x) + Ends(y)[n]
         /\ Covered(x \o y) = Covered(x) + Covered(y)
         /\ SparseLen(x \o y) = SparseLen(x) + SparseLen(y)
<1> DEFINE lens(ops) == [k \in 1..Len(ops) |-> ops[k].len]
           bytes(ops) == [k \in 1..Len(ops) |-> OpBytes(ops[k])]
<1>1. /\ x \o y \in Seq(Opcode) /\ Len(x \o y) = Len(x) + Len(y)
      /\ Len(x) \in Nat /\ Len(y) \in Nat
      /\ \A i \in 1..Len(x) : (x \o y)[i] = x[i]
      /\ \A i \in 1..Len(y) : (x \o y)[Len(x) + i] = y[i]
  OBVIOUS
<1>2. \A ops \in Seq(Opcode) : /\ lens(ops) \in Seq(Nat) /\ Len(lens(ops)) = Len(ops)
                               /\ bytes(ops) \in Seq(Nat) /\ Len(bytes(ops)) = Len(ops)
  <2>1. ASSUME NEW ops \in Seq(Opcode)
        PROVE  /\ lens(ops) \in Seq(Nat) /\ Len(lens(ops)) = Len(ops)
               /\ bytes(ops) \in Seq(Nat) /\ Len(bytes(ops)) = Len(ops)
    <3>1. \A k \in 1..Len(ops) : ops[k].len \in Nat /\ OpBytes(ops[k]) \in Nat
      BY OpcodeFields
    <3>2. QED
      BY <3>1
  <2>2. QED
    BY <2>1
<1>3. lens(x \o y) = lens(x) \o lens(y) /\ bytes(x \o y) = bytes(x) \o bytes(y)
  <2> DEFINE z == x \o y
  <2>1. \A k \in 1..(Len(x) + Len(y)) :
          IF k <= Len(x) THEN z[k] = x[k] ELSE k - Len(x) \in 1..Len(y) /\ z[k] = y[k - Len(x)]
    BY <1>1
  <2>2. Len(z) = Len(x) + Len(y)
    BY <1>1
  <2> HIDE DEF z
  <2>3. lens(z) = lens(x) \o lens(y)
    BY <1>1, <2>1, <2>2
  <2>4. bytes(z) = bytes(x) \o bytes(y)
    BY <1>1, <2>1, <2>2
  <2>5. QED
    BY <2>3, <2>4 DEF z
<1>4. \A ops : Ends(ops) = Sums(lens(ops)) /\ SparseLen(ops) = Sums(bytes(ops))[Len(ops)]
  BY DEF Ends, SparseLen
<1> HIDE DEF lens, bytes
<1>5. /\ \A n \in 0..Len(x) : Ends(x \o y)[n] = Ends(x)[n]
      /\ \A n \in 0..Len(y) : Ends(x \o y)[Len(x) + n] = Ends(x)[Len(x)] + Ends(y)[n]
  <2>1. /\ \A n \in 0..Len(lens(x)) : Sums(lens(x) \o lens(y))[n] = Sums(lens(x))[n]
        /\ \A n \in 0..Len(lens(y)) :
             Sums(lens(x) \o lens(y))[Len(lens(x)) + n] =
               Sums(lens(x))[Len(lens(x))] + Sums(lens(y))[n]
    BY <1>2, SumsConcat
  <2>2. QED
    BY <1>2, <1>3, <1>4, <2>1
<1>6. SparseLen(x \o y) = SparseLen(x) + SparseLen(y)
  <2>1. \A n \in 0..Len(bytes(y)) :
          Sums(bytes(x) \o bytes(y))[Len(bytes(x)) + n] =
            Sums(bytes(x))[Len(bytes(x))] + Sums(bytes(y))[n]
    BY <1>2, SumsConcat
  <2>2. Len(y) \in 0..Len(y)
    BY <1>1
  <2>3. QED
    BY <1>1, <1>2, <1>3, <1>4, <2>1, <2>2
<1>7. QED
  <2>1. Len(y) \in 0..Len(y)
    BY <1>1
  <2>2. Ends(x \o y)[Len(x) + Len(y)] = Ends(x)[Len(x)] + Ends(y)[Len(y)]
    BY <1>5, <2>1
  <2>3. QED
    BY <1>1, <1>5, <1>6, <2>2 DEF Covered

\* The registers of two runs are those of the one and those of the other.
LEMMA ReadsConcat ==
  ASSUME NEW x \in Seq(Opcode), NEW y \in Seq(Opcode), NEW a \in Nat, NEW c \in Nat, NEW regs
  PROVE  Reads(x \o y, a, c, regs) <=>
           Reads(x, a, a + Covered(x), regs) /\ Reads(y, a + Covered(x), c, regs)
<1> DEFINE z == x \o y
           b == a + Covered(x)
           Run(ops, from, k) ==
             Holds(regs, from + Ends(ops)[k - 1], from + Ends(ops)[k], ops[k].val)
<1>1. /\ Len(x) \in Nat /\ Len(y) \in Nat /\ Len(z) = Len(x) + Len(y)
      /\ \A i \in 1..Len(x) : z[i] = x[i]
      /\ \A i \in 1..Len(y) : z[Len(x) + i] = y[i]
  OBVIOUS
<1>2. /\ \A n \in 0..Len(x) : Ends(z)[n] = Ends(x)[n]
      /\ \A n \in 0..Len(y) : Ends(z)[Len(x) + n] = Covered(x) + Ends(y)[n]
      /\ Covered(z) = Covered(x) + Covered(y)
  BY EndsConcat
<1>3. /\ Covered(x) \in Nat /\ Covered(y) \in Nat
      /\ Ends(x) \in [0..Len(x) -> Nat] /\ Ends(y) \in [0..Len(y) -> Nat]
  BY EndsAre
<1> HIDE DEF z
<1>4. \A k \in 1..Len(x) : Run(z, a, k) <=> Run(x, a, k)
  <2>1. ASSUME NEW k \in 1..Len(x)
        PROVE  z[k] = x[k] /\ Ends(z)[k] = Ends(x)[k] /\ Ends(z)[k - 1] = Ends(x)[k - 1]
    <3>1. k \in 0..Len(x) /\ k - 1 \in 0..Len(x)
      BY <1>1
    <3>2. QED
      BY <1>1, <1>2, <3>1
  <2>2. QED
    BY <2>1
<1>5. \A k \in 1..Len(y) : Run(z, a, Len(x) + k) <=> Run(y, b, k)
  <2>1. ASSUME NEW k \in 1..Len(y)
        PROVE  /\ z[Len(x) + k] = y[k]
               /\ a + Ends(z)[Len(x) + k] = b + Ends(y)[k]
               /\ a + Ends(z)[(Len(x) + k) - 1] = b + Ends(y)[k - 1]
    <3>1. k \in 0..Len(y) /\ k - 1 \in 0..Len(y) /\ (Len(x) + k) - 1 = Len(x) + (k - 1)
      BY <1>1
    <3>2. /\ Ends(z)[Len(x) + k] = Covered(x) + Ends(y)[k]
          /\ Ends(z)[(Len(x) + k) - 1] = Covered(x) + Ends(y)[k - 1]
      BY <1>2, <3>1
    <3>3. Ends(y)[k] \in Nat /\ Ends(y)[k - 1] \in Nat
      BY <1>3, <3>1
    <3>4. QED
      BY <1>1, <1>3, <3>2, <3>3
  <2>2. ASSUME NEW k \in 1..Len(y)
        PROVE  Run(z, a, Len(x) + k) <=> Run(y, b, k)
    <3>1. /\ z[Len(x) + k] = y[k]
          /\ a + Ends(z)[Len(x) + k] = b + Ends(y)[k]
          /\ a + Ends(z)[(Len(x) + k) - 1] = b + Ends(y)[k - 1]
      BY <2>1, <2>2
    <3> HIDE DEF b
    <3>2. QED
      BY <3>1
  <2>3. QED
    BY <2>2
<1>6. Reads(z, a, c, regs) <=> c = a + Covered(z) /\ \A k \in 1..Len(z) : Run(z, a, k)
  BY DEF Reads
<1>7. Reads(x, a, b, regs) <=> \A k \in 1..Len(x) : Run(x, a, k)
  BY DEF Reads
<1>8. Reads(y, b, c, regs) <=> c = b + Covered(y) /\ \A k \in 1..Len(y) : Run(y, b, k)
  BY DEF Reads
<1>9. (\A k \in 1..Len(z) : Run(z, a, k)) <=>
        (\A k \in 1..Len(x) : Run(z, a, k)) /\ (\A k \in 1..Len(y) : Run(z, a, Len(x) + k))
  <2>1. \A k \in 1..Len(x) : k \in 1..Len(z)
    BY <1>1
  <2>2. \A k \in 1..Len(y) : Len(x) + k \in 1..Len(z)
    BY <1>1
  <2>3. \A k \in 1..Len(z) : k \in 1..Len(x) \/ \E i \in 1..Len(y) : k = Len(x) + i
    <3>1. ASSUME NEW k \in 1..Len(z), k \notin 1..Len(x)
          PROVE  k - Len(x) \in 1..Len(y) /\ k = Len(x) + (k - Len(x))
      BY <1>1, <3>1
    <3>2. QED
      BY <3>1
  <2> HIDE DEF Run
  <2>4. QED
    BY <2>1, <2>2, <2>3
<1> HIDE DEF Run
<1>10. c = a + Covered(z) <=> c = b + Covered(y)
  BY <1>2, <1>3
<1>11. QED
  BY <1>4, <1>5, <1>6, <1>7, <1>8, <1>9, <1>10 DEF z

\* A run of one opcode, and of none.
LEMMA ReadsOne ==
  ASSUME NEW o \in Opcode, NEW a \in Nat, NEW b \in Nat, NEW regs
  PROVE  /\ <<o>> \in Seq(Opcode) /\ Len(<<o>>) = 1
         /\ Covered(<<o>>) = o.len /\ SparseLen(<<o>>) = OpBytes(o)
         /\ Reads(<<o>>, a, b, regs) <=> b = a + o.len /\ Holds(regs, a, b, o.val)
<1>1. /\ <<o>> \in Seq(Opcode) /\ Len(<<o>>) = 1 /\ <<o>>[1] = o
      /\ o.len \in Nat /\ OpBytes(o) \in Nat
  BY OpcodeFields
<1>2. Ends(<<o>>)[0] = 0 /\ Ends(<<o>>)[1] = o.len
  <2>1. Ends(<<o>>)[0] = 0
    BY <1>1, EndsAre
  <2> DEFINE s == <<o>>
  <2>2. Ends(s)[1] = Ends(s)[1 - 1] + s[1].len
    <3>1. s \in Seq(Opcode) /\ 1 \in 1..Len(s)
      BY <1>1
    <3> HIDE DEF s
    <3>2. QED
      BY <3>1, EndsAre
  <2>3. s[1] = o
    BY <1>1
  <2>4. QED
    BY <1>1, <2>1, <2>2, <2>3
<1>3. SparseLen(<<o>>) = OpBytes(o)
  <2> DEFINE t == [k \in 1..Len(<<o>>) |-> OpBytes(<<o>>[k])]
  <2>1. t \in Seq(Nat) /\ Len(t) = 1 /\ t[1] = OpBytes(o)
    BY <1>1
  <2>2. SparseLen(<<o>>) = Sums(t)[1]
    BY <1>1 DEF SparseLen
  <2> HIDE DEF t
  <2>3. Sums(t)[0] = 0 /\ Sums(t)[1] = Sums(t)[1 - 1] + t[1]
    BY <2>1, SumsAre
  <2>4. QED
    BY <1>1, <2>1, <2>2, <2>3
<1>4. Covered(<<o>>) = o.len
  BY <1>1, <1>2 DEF Covered
<1>5. Reads(<<o>>, a, b, regs) <=>
        b = a + o.len /\ Holds(regs, a + 0, a + o.len, o.val)
  <2>1. \A k \in 1..Len(<<o>>) : k = 1 /\ k - 1 = 0
    BY <1>1
  <2>2. 1 \in 1..Len(<<o>>)
    BY <1>1
  <2>3. QED
    BY <1>1, <1>2, <1>4, <2>1, <2>2 DEF Reads
<1>6. a + 0 = a
  OBVIOUS
<1>7. QED
  BY <1>1, <1>3, <1>4, <1>5, <1>6

LEMMA ReadsNone ==
  ASSUME NEW a \in Nat, NEW b \in Nat, NEW regs
  PROVE  /\ <<>> \in Seq(Opcode) /\ Covered(<<>>) = 0 /\ SparseLen(<<>>) = 0
         /\ Reads(<<>>, a, b, regs) <=> a = b
<1>1. <<>> \in Seq(Opcode) /\ Len(<<>>) = 0
  OBVIOUS
<1>2. Covered(<<>>) = 0
  BY <1>1, EndsAre DEF Covered
<1>3. SparseLen(<<>>) = 0
  <2> DEFINE t == [k \in 1..Len(<<>>) |-> OpBytes(<<>>[k])]
  <2>1. t \in Seq(Nat) /\ Len(t) = 0
    BY <1>1
  <2>2. SparseLen(<<>>) = Sums(t)[0]
    BY <1>1 DEF SparseLen
  <2> HIDE DEF t
  <2>3. QED
    BY <2>1, <2>2, SumsAre
<1>4. \A k : k \notin 1..0
  OBVIOUS
<1>5. QED
  BY <1>1, <1>2, <1>3, <1>4 DEF Reads

\* What is read depends on the registers covered only.
LEMMA ReadsSame ==
  ASSUME NEW ops \in Seq(Opcode), NEW a \in Nat, NEW b \in Nat, NEW regs, NEW other,
         Reads(ops, a, b, regs), \A r \in a..(b - 1) : regs[r] = other[r]
  PROVE  Reads(ops, a, b, other)
<1>1. /\ Ends(ops) \in [0..Len(ops) -> Nat] /\ Len(ops) \in Nat
      /\ \A m, n \in 0..Len(ops) : m <= n => Ends(ops)[m] <= Ends(ops)[n]
      /\ b = a + Ends(ops)[Len(ops)]
  BY EndsAre DEF Reads, Covered
<1>2. ASSUME NEW k \in 1..Len(ops), NEW r \in (a + Ends(ops)[k - 1])..((a + Ends(ops)[k]) - 1)
      PROVE  other[r] = ops[k].val
  <2>1. k \in 0..Len(ops) /\ k - 1 \in 0..Len(ops) /\ Len(ops) \in 0..Len(ops) /\ k <= Len(ops)
    BY <1>1
  <2>2. /\ Ends(ops)[k - 1] \in Nat /\ Ends(ops)[k] \in Nat /\ Ends(ops)[Len(ops)] \in Nat
        /\ Ends(ops)[k] <= Ends(ops)[Len(ops)]
    BY <1>1, <2>1
  <2>3. r \in a..(b - 1)
    <3> DEFINE from == Ends(ops)[k - 1]
               to == Ends(ops)[k]
               all == Ends(ops)[Len(ops)]
    <3>1. /\ from \in Nat /\ to \in Nat /\ all \in Nat /\ to <= all
          /\ b = a + all /\ r \in (a + from)..((a + to) - 1)
      BY <1>1, <1>2, <2>2
    <3> HIDE DEF from, to, all
    <3>2. QED
      BY ONLY <3>1, a \in Nat, b \in Nat
  <2>4. regs[r] = ops[k].val
    <3>1. Holds(regs, a + Ends(ops)[k - 1], a + Ends(ops)[k], ops[k].val)
      BY DEF Reads
    <3>2. QED
      BY <3>1, <1>2 DEF Holds
  <2>5. QED
    BY <2>3, <2>4
<1>3. \A k \in 1..Len(ops) : Holds(other, a + Ends(ops)[k - 1], a + Ends(ops)[k], ops[k].val)
  BY <1>2 DEF Holds
<1>4. QED
  BY <1>3 DEF Reads

\* What is left of an opcode on one side of the register that is set.
Part(o, len) == IF o.op = "val" THEN ValRun(o.val, len) ELSE ZeroRun(len)

LEMMA PartReads ==
  ASSUME NEW o \in Opcode, NEW a \in Nat, NEW len \in Nat, len < o.len, NEW regs,
         Holds(regs, a, a + len, o.val)
  PROVE  /\ Part(o, len) \in Seq(Opcode)
         /\ Covered(Part(o, len)) = len
         /\ Reads(Part(o, len), a, a + len, regs)
         /\ SparseLen(Part(o, len)) \in 0..OpBytes(o)
<1>1. a + len \in Nat /\ OpBytes(o) \in {1, 2} /\ o.op \in {"zero", "xzero", "val"} /\ o.len \in Nat
  BY OpcodeFields
<1>2. CASE len = 0
  <2>1. Part(o, len) = <<>>
    BY <1>2 DEF Part, ValRun, ZeroRun
  <2>2. /\ <<>> \in Seq(Opcode) /\ Covered(<<>>) = 0 /\ SparseLen(<<>>) = 0
        /\ Reads(<<>>, a, a + len, regs)
    BY <1>1, <1>2, ReadsNone
  <2> DEFINE s == <<>>
  <2>3. s \in Seq(Opcode) /\ Covered(s) = 0 /\ SparseLen(s) = 0 /\ Reads(s, a, a + len, regs)
    BY <2>2
  <2>4. Part(o, len) = s
    BY <2>1
  <2>5. 0 \in 0..OpBytes(o)
    BY <1>1
  <2> HIDE DEF s
  <2>6. QED
    BY <1>2, <2>3, <2>4, <2>5
<1>3. CASE len # 0
  <2>1. PICK q \in Opcode : /\ Part(o, len) = <<q>> /\ q.len = len /\ q.val = o.val
                            /\ OpBytes(q) <= OpBytes(o)
    <3>1. CASE o.op = "val"
      <4>1. /\ VAL(o.val, len) \in Opcode /\ VAL(o.val, len).len = len
            /\ VAL(o.val, len).val = o.val /\ OpBytes(VAL(o.val, len)) = 1
        <5>1. o.val \in 1..HLL_SPARSE_VAL_MAX_VALUE /\ o.len \in 1..HLL_SPARSE_VAL_MAX_LEN
          BY <3>1, OpcodeFields
        <5>2. len \in 1..HLL_SPARSE_VAL_MAX_LEN
          BY <1>3, <5>1, HllAssumption
        <5>3. QED
          BY <5>1, <5>2 DEF VAL, Opcode, OpBytes
      <4>2. Part(o, len) = <<VAL(o.val, len)>>
        BY <1>3, <3>1 DEF Part, ValRun
      <4>3. QED
        BY <1>1, <4>1, <4>2
    <3>2. CASE o.op # "val" /\ len > HLL_SPARSE_ZERO_MAX_LEN
      <4>1. o.op = "xzero" /\ o.len \in 1..HLL_SPARSE_XZERO_MAX_LEN /\ o.val = 0 /\ OpBytes(o) = 2
        BY <3>2, HllAssumption DEF Opcode, OpBytes
      <4>2. len \in 1..HLL_SPARSE_XZERO_MAX_LEN
        BY <1>3, <4>1, HllAssumption
      <4>3. /\ XZERO(len) \in Opcode /\ XZERO(len).len = len
            /\ XZERO(len).val = 0 /\ OpBytes(XZERO(len)) = 2
        BY <4>2 DEF XZERO, Opcode, OpBytes
      <4>4. Part(o, len) = <<XZERO(len)>>
        BY <1>3, <3>2 DEF Part, ZeroRun
      <4>5. QED
        BY <4>1, <4>3, <4>4
    <3>3. CASE o.op # "val" /\ ~(len > HLL_SPARSE_ZERO_MAX_LEN)
      <4>1. len \in 1..HLL_SPARSE_ZERO_MAX_LEN /\ o.val = 0
        BY <1>3, <3>3, HllAssumption, OpcodeFields
      <4>2. /\ ZERO(len) \in Opcode /\ ZERO(len).len = len
            /\ ZERO(len).val = 0 /\ OpBytes(ZERO(len)) = 1
        BY <4>1 DEF ZERO, Opcode, OpBytes
      <4>3. Part(o, len) = <<ZERO(len)>>
        BY <1>3, <3>3 DEF Part, ZeroRun
      <4>4. QED
        BY <1>1, <4>1, <4>2, <4>3
    <3>4. QED
      BY <3>1, <3>2, <3>3
  <2>2. /\ <<q>> \in Seq(Opcode) /\ Covered(<<q>>) = len /\ SparseLen(<<q>>) = OpBytes(q)
        /\ Reads(<<q>>, a, a + len, regs)
    BY <1>1, <2>1, ReadsOne
  <2>3. OpBytes(q) \in {1, 2}
    BY OpcodeFields
  <2> DEFINE s == <<q>>
  <2>4. Part(o, len) = s
    BY <2>1
  <2>5. s \in Seq(Opcode) /\ Covered(s) = len /\ Reads(s, a, a + len, regs)
    BY <2>2
  <2>6. SparseLen(s) = OpBytes(q)
    BY <2>2
  <2>7. OpBytes(q) \in 0..OpBytes(o)
    BY <1>1, <2>1, <2>3
  <2> HIDE DEF s
  <2>8. QED
    BY <2>4, <2>5, <2>6, <2>7
<1>4. QED
  BY <1>2, <1>3

\* One of the registers from a to before b is set.
SetAt(other, regs, a, b, index, value) ==
  other[index] = value /\ \A r \in a..(b - 1) : r # index => other[r] = regs[r]

\* Step 2: the sequence that replaces an opcode covers the same registers, with
\* the one that is set set, and is at most three bytes longer.
LEMMA SplitReads ==
  ASSUME NEW o \in Opcode, NEW first \in Nat, NEW index \in Nat,
         NEW value \in 1..HLL_SPARSE_VAL_MAX_VALUE,
         first <= index, index < first + o.len, NEW regs, NEW other,
         NEW end \in Nat, end = first + o.len,
         Holds(regs, first, end, o.val), SetAt(other, regs, first, end, index, value)
  PROVE  /\ Split(o, first, index, value) \in Seq(Opcode)
         /\ Reads(Split(o, first, index, value), first, end, other)
         /\ SparseLen(Split(o, first, index, value)) \in Nat
         /\ SparseLen(Split(o, first, index, value)) <= OpBytes(o) + 3
<1> DEFINE before == index - first
           after == (first + o.len - 1) - index
           x == Part(o, before)
           v == VAL(value, 1)
           y == Part(o, after)
<1>0. other[index] = value /\ \A r \in first..(end - 1) : r # index => other[r] = regs[r]
  BY DEF SetAt
<1>1. o.len \in Nat /\ before \in Nat /\ after \in Nat /\ before < o.len /\ after < o.len
  BY OpcodeFields
<1>2. /\ first + before = index /\ index + 1 + after = first + o.len
      /\ index + 1 \in Nat /\ first + o.len \in Nat
  BY <1>1
<1> DEFINE w == <<v>>
<1>3. Split(o, first, index, value) = (x \o w) \o y
  <2> DEFINE last == first + o.len - 1
             rest == last - index
  <2>1. x = Part(o, index - first) /\ y = Part(o, rest) /\ w = <<VAL(value, 1)>>
    <3>1. before = index - first /\ v = VAL(value, 1)
      BY DEF before, v
    <3>2. after = rest
      BY DEF after
    <3> HIDE DEF rest
    <3>3. QED
      BY <3>1, <3>2
  <2>2. CASE o.op = "val"
    <3>1. x = ValRun(o.val, index - first) /\ y = ValRun(o.val, rest)
      BY <2>1, <2>2 DEF Part
    <3>2. Split(o, first, index, value) =
            ValRun(o.val, index - first) \o <<VAL(value, 1)>> \o ValRun(o.val, rest)
      BY <2>2 DEF Split
    <3> HIDE DEF x, y, w, rest
    <3>3. QED
      BY <2>1, <3>1, <3>2
  <2>3. CASE o.op # "val"
    <3>1. x = ZeroRun(index - first) /\ y = ZeroRun(rest)
      BY <2>1, <2>3 DEF Part
    <3>2. Split(o, first, index, value) =
            ZeroRun(index - first) \o <<VAL(value, 1)>> \o ZeroRun(rest)
      BY <2>3 DEF Split
    <3> HIDE DEF x, y, w, rest
    <3>3. QED
      BY <2>1, <3>1, <3>2
  <2>4. QED
    BY <2>2, <2>3
<1>4. v \in Opcode /\ v.len = 1 /\ v.val = value /\ OpBytes(v) = 1
  BY HllAssumption DEF VAL, Opcode, OpBytes
<1> HIDE DEF before, after, v
<1>5. Holds(other, first, first + before, o.val)
  BY <1>0, <1>1, <1>2 DEF Holds
<1>6. Holds(other, index + 1, index + 1 + after, o.val)
  BY <1>0, <1>1, <1>2 DEF Holds
<1>7. /\ x \in Seq(Opcode) /\ Covered(x) = before /\ Reads(x, first, index, other)
      /\ SparseLen(x) \in 0..OpBytes(o)
  BY <1>1, <1>2, <1>5, PartReads
<1>8. /\ y \in Seq(Opcode) /\ Covered(y) = after /\ Reads(y, index + 1, first + o.len, other)
      /\ SparseLen(y) \in 0..OpBytes(o)
  BY <1>1, <1>2, <1>6, PartReads
<1>9. /\ w \in Seq(Opcode) /\ Covered(w) = 1 /\ SparseLen(w) = 1
      /\ Reads(w, index, index + 1, other)
  <2>1. Holds(other, index, index + 1, value)
    BY <1>0 DEF Holds
  <2>2. QED
    BY <1>2, <1>4, <2>1, ReadsOne DEF w
<1> HIDE DEF x, y, w
<1>10. /\ x \o w \in Seq(Opcode) /\ Covered(x \o w) = before + 1
       /\ SparseLen(x \o w) = SparseLen(x) + 1
  BY <1>7, <1>9, EndsConcat
<1>11. Reads(x \o w, first, index + 1, other)
  BY <1>2, <1>7, <1>9, ReadsConcat
<1>12. first + (before + 1) = index + 1
  BY <1>1, <1>2
<1> DEFINE z == x \o w
<1>13. Reads(z \o y, first, first + o.len, other)
  <2>1. first + Covered(z) = index + 1
    <3>1. Covered(z) = before + 1
      BY <1>10
    <3> HIDE DEF z
    <3>2. QED
      BY <1>12, <3>1
  <2> HIDE DEF z
  <2>2. z \in Seq(Opcode) /\ Reads(z, first, index + 1, other)
    BY <1>10, <1>11 DEF z
  <2>3. QED
    BY <1>2, <1>8, <2>1, <2>2, ReadsConcat
<1>14. z \o y \in Seq(Opcode) /\ SparseLen(z \o y) = SparseLen(z) + SparseLen(y)
  <2>1. z \in Seq(Opcode)
    BY <1>10
  <2> HIDE DEF z
  <2>2. QED
    BY <1>8, <2>1, EndsConcat
<1> HIDE DEF z
<1>15. OpBytes(o) \in {1, 2}
  BY OpcodeFields
<1>16. /\ SparseLen(x) + 1 + SparseLen(y) \in Nat
       /\ SparseLen(x) + 1 + SparseLen(y) <= OpBytes(o) + 3
  <2> DEFINE sx == SparseLen(x)
             sy == SparseLen(y)
             so == OpBytes(o)
  <2>1. sx \in 0..so /\ sy \in 0..so /\ so \in {1, 2}
    BY <1>7, <1>8, <1>15
  <2> HIDE DEF sx, sy, so
  <2>2. sx + 1 + sy \in Nat /\ sx + 1 + sy <= so + 3
    BY ONLY <2>1
  <2>3. QED
    BY ONLY <2>2 DEF sx, sy, so
<1>17. SparseLen(z) = SparseLen(x) + 1 /\ Split(o, first, index, value) = z \o y
  BY <1>3, <1>10 DEF z
<1>18. QED
  BY <1>13, <1>14, <1>16, <1>17

\* Three runs, of which the middle one is replaced.
LEMMA ReadsThree ==
  ASSUME NEW x \in Seq(Opcode), NEW m \in Seq(Opcode), NEW y \in Seq(Opcode), NEW n \in Nat, NEW regs
  PROVE  /\ (x \o m) \o y \in Seq(Opcode)
         /\ SparseLen((x \o m) \o y) = SparseLen(x) + SparseLen(m) + SparseLen(y)
         /\ Reads((x \o m) \o y, 0, n, regs) <=>
              /\ Reads(x, 0, Covered(x), regs)
              /\ Reads(m, Covered(x), Covered(x) + Covered(m), regs)
              /\ Reads(y, Covered(x) + Covered(m), n, regs)
<1> DEFINE z == x \o m
           a == Covered(x)
           b == Covered(x) + Covered(m)
<1>1. a \in Nat /\ Covered(m) \in Nat /\ b \in Nat /\ 0 + a = a
  BY EndsAre
<1>2. z \in Seq(Opcode) /\ Covered(z) = b /\ SparseLen(z) = SparseLen(x) + SparseLen(m)
  BY EndsConcat
<1>3. \A c \in Nat : Reads(z, 0, c, regs) <=> Reads(x, 0, a, regs) /\ Reads(m, a, c, regs)
  <2>1. ASSUME NEW c \in Nat
        PROVE  Reads(z, 0, c, regs) <=> Reads(x, 0, 0 + a, regs) /\ Reads(m, 0 + a, c, regs)
    BY ReadsConcat
  <2>2. QED
    BY <1>1, <2>1
<1> HIDE DEF z
<1>4. z \o y \in Seq(Opcode) /\ SparseLen(z \o y) = SparseLen(z) + SparseLen(y)
  BY <1>2, EndsConcat
<1>5. 0 + Covered(z) = b
  BY <1>1, <1>2
<1>6. Reads(z \o y, 0, n, regs) <=> Reads(z, 0, b, regs) /\ Reads(y, b, n, regs)
  <2>1. Reads(z \o y, 0, n, regs) <=>
          Reads(z, 0, 0 + Covered(z), regs) /\ Reads(y, 0 + Covered(z), n, regs)
    BY <1>2, ReadsConcat
  <2> HIDE DEF b
  <2>2. QED
    BY <1>5, <2>1
<1>7. SparseLen(z) = SparseLen(x) + SparseLen(m)
  BY <1>2
<1>8. Reads(z, 0, b, regs) <=> Reads(x, 0, a, regs) /\ Reads(m, a, b, regs)
  BY <1>1, <1>3
<1> HIDE DEF a, b
<1>9. /\ z \o y \in Seq(Opcode)
      /\ SparseLen(z \o y) = SparseLen(x) + SparseLen(m) + SparseLen(y)
      /\ Reads(z \o y, 0, n, regs) <=>
           Reads(x, 0, a, regs) /\ Reads(m, a, b, regs) /\ Reads(y, b, n, regs)
  <2>1. SparseLen(z \o y) = SparseLen(x) + SparseLen(m) + SparseLen(y)
    BY <1>4, <1>7
  <2>2. QED
    BY <1>4, <1>6, <1>8, <2>1
<1>10. QED
  BY <1>9 DEF z, a, b

\* How long they are.
SameOutside(regs, other, n, a, b) ==
  \A r \in 0..(n - 1) : r \notin a..(b - 1) => regs[r] = other[r]
LEMMA BytesThree ==
  ASSUME NEW x \in Seq(Opcode), NEW m \in Seq(Opcode), NEW y \in Seq(Opcode)
  PROVE  SparseLen((x \o m) \o y) = SparseLen(x) + SparseLen(m) + SparseLen(y)
<1>1. 0 \in Nat
  OBVIOUS
<1>2. QED
  BY <1>1, ReadsThree

LEMMA Replaced ==
  ASSUME NEW x \in Seq(Opcode), NEW m \in Seq(Opcode), NEW y \in Seq(Opcode), NEW new \in Seq(Opcode),
         NEW n \in Nat, NEW regs, NEW other, Reads((x \o m) \o y, 0, n, regs),
         Reads(new, Covered(x), Covered(x) + Covered(m), other),
         SameOutside(regs, other, n, Covered(x), Covered(x) + Covered(m))
  PROVE  /\ (x \o new) \o y \in Seq(Opcode)
         /\ Reads((x \o new) \o y, 0, n, other)
         /\ SparseLen((x \o new) \o y) = SparseLen(x) + SparseLen(new) + SparseLen(y)
<1> DEFINE a == Covered(x)
           b == Covered(x) + Covered(m)
<1>0. \A r \in 0..(n - 1) : r \notin a..(b - 1) => regs[r] = other[r]
  BY DEF SameOutside
<1>1. a \in Nat /\ Covered(m) \in Nat /\ Covered(new) \in Nat /\ Covered(y) \in Nat
  BY EndsAre
<1>2. Reads(x, 0, a, regs) /\ Reads(m, a, b, regs) /\ Reads(y, b, n, regs)
  BY ReadsThree
<1>3. Covered(new) = Covered(m)
  <2>1. b = a + Covered(new)
    BY DEF Reads
  <2>2. QED
    BY <1>1, <2>1
<1>4. n = b + Covered(y) /\ b \in Nat /\ a <= b
  <2>1. n = b + Covered(y)
    BY <1>2 DEF Reads
  <2>2. QED
    BY <1>1, <2>1
<1>5. Reads(x, 0, a, other)
  <2>1. \A r \in 0..(a - 1) : regs[r] = other[r]
    <3>1. \A r \in 0..(a - 1) : r \in 0..(n - 1) /\ r \notin a..(b - 1)
      BY <1>1, <1>4
    <3> HIDE DEF a, b
    <3>2. QED
      BY <1>0, <3>1
  <2>2. QED
    BY <1>1, <1>2, <2>1, ReadsSame
<1>6. Reads(y, b, n, other)
  <2>1. \A r \in b..(n - 1) : regs[r] = other[r]
    <3>1. ASSUME NEW r \in b..(n - 1)
          PROVE  r \in 0..(n - 1) /\ r \notin a..(b - 1)
      <4>1. b \in Nat /\ n \in Nat
        BY <1>4
      <4> HIDE DEF a, b
      <4>2. QED
        BY <3>1, <4>1
    <3> HIDE DEF a, b
    <3>2. QED
      BY <1>0, <3>1
  <2>2. QED
    BY <1>2, <1>4, <2>1, ReadsSame
<1>7. Reads(new, a, a + Covered(new), other) /\ Reads(y, a + Covered(new), n, other)
  BY <1>3, <1>6
<1>8. QED
  BY <1>5, <1>7, ReadsThree

\* What a concatenation is.
LEMMA Concatenated ==
  ASSUME NEW S, NEW s \in Seq(S), NEW t \in Seq(S)
  PROVE  /\ s \o t \in Seq(S) /\ Len(s \o t) = Len(s) + Len(t)
         /\ \A i \in 1..(Len(s) + Len(t)) :
              (s \o t)[i] = IF i <= Len(s) THEN s[i] ELSE t[i - Len(s)]
OBVIOUS

\* The parts of a sequence before, at and after the elements from k to j.
Parts(s, k, j, x, w, y) ==
  /\ x = SubSeq(s, 1, k - 1)
  /\ Len(w) = j - k + 1 /\ \A i \in 1..(j - k + 1) : w[i] = s[k - 1 + i]
  /\ y = SubSeq(s, j + 1, Len(s))

LEMMA Around ==
  ASSUME NEW S, NEW s \in Seq(S), NEW k \in 1..Len(s), NEW j \in k..Len(s),
         NEW x, NEW w \in Seq(S), NEW y, Parts(s, k, j, x, w, y)
  PROVE  x \in Seq(S) /\ y \in Seq(S) /\ s = (x \o w) \o y
<1> DEFINE u == x \o w
           z == u \o y
<1>1. Len(s) \in Nat /\ k \in Nat /\ j \in Nat /\ k <= j /\ j <= Len(s) /\ \A i \in 1..Len(s) : s[i] \in S
  OBVIOUS
<1>2. x \in Seq(S) /\ Len(x) = k - 1 /\ \A i \in 1..(k - 1) : x[i] = s[i]
  <2>1. x = SubSeq(s, 1, k - 1)
    BY DEF Parts
  <2>2. QED
    BY <1>1, <2>1
<1>3. y \in Seq(S) /\ Len(y) = Len(s) - j /\ \A i \in 1..(Len(s) - j) : y[i] = s[j + i]
  <2>1. y = SubSeq(s, j + 1, Len(s))
    BY DEF Parts
  <2>2. QED
    BY <1>1, <2>1
<1>4. w \in Seq(S) /\ Len(w) = j - k + 1 /\ \A i \in 1..(j - k + 1) : w[i] = s[k - 1 + i]
  BY DEF Parts
<1>5. u \in Seq(S) /\ Len(u) = j /\ \A i \in 1..j : u[i] = s[i]
  <2>1. /\ u \in Seq(S) /\ Len(u) = Len(x) + Len(w)
        /\ \A i \in 1..(Len(x) + Len(w)) : u[i] = IF i <= Len(x) THEN x[i] ELSE w[i - Len(x)]
    BY <1>2, <1>4, Concatenated
  <2> HIDE DEF u
  <2>2. Len(u) = j
    BY <1>1, <1>2, <1>4, <2>1
  <2>3. ASSUME NEW i \in 1..j
        PROVE  u[i] = s[i]
    <3>1. i \in 1..(Len(x) + Len(w))
      BY <2>1, <2>2
    <3>2. CASE i <= k - 1
      BY <1>1, <1>2, <2>1, <3>1, <3>2
    <3>3. CASE ~(i <= k - 1)
      <4>1. i - Len(x) \in 1..(j - k + 1) /\ k - 1 + (i - Len(x)) = i /\ ~(i <= Len(x))
        BY <1>1, <1>2, <3>3
      <4>2. w[i - Len(x)] = s[i]
        BY <1>4, <4>1
      <4>3. QED
        BY <2>1, <3>1, <4>1, <4>2
    <3>4. QED
      BY <3>2, <3>3
  <2>4. QED
    BY <2>1, <2>2, <2>3
<1> HIDE DEF u
<1>6. /\ z \in Seq(S) /\ Len(z) = Len(u) + Len(y)
      /\ \A i \in 1..(Len(u) + Len(y)) : z[i] = IF i <= Len(u) THEN u[i] ELSE y[i - Len(u)]
  <2>1. u \in Seq(S) /\ y \in Seq(S)
    BY <1>3, <1>5
  <2>2. QED
    BY ONLY <2>1, Concatenated DEF z
<1> HIDE DEF z
<1>7. Len(z) = Len(s)
  BY <1>1, <1>3, <1>5, <1>6
<1>8. ASSUME NEW i \in 1..Len(s)
      PROVE  z[i] = s[i]
  <2>1. i \in 1..(Len(u) + Len(y))
    BY <1>6, <1>7
  <2>2. CASE i <= j
    BY <1>1, <1>5, <1>6, <2>1, <2>2
  <2>3. CASE ~(i <= j)
    <3>1. i - j \in 1..(Len(s) - j) /\ j + (i - j) = i /\ Len(u) = j
      BY <1>1, <1>5, <2>3
    <3>2. y[i - j] = s[i]
      BY <1>3, <3>1
    <3>3. QED
      BY <1>6, <2>1, <2>3, <3>1, <3>2
  <2>4. QED
    BY <2>2, <2>3
<1>9. z = s
  <2>1. z \in Seq(S) /\ Len(z) = Len(s) /\ Len(s) \in Nat /\ s \in Seq(S)
    BY <1>1, <1>6, <1>7
  <2>2. QED
    BY ONLY <1>8, <2>1
<1>10. QED
  BY <1>2, <1>3, <1>9 DEF u, z

\* Step 4: two adjacent values that become one stand for the same registers.
MergeStates(n, regs, bytes) ==
  {s \in [ops : Seq(Opcode), p : Nat \ {0}] : Reads(s.ops, 0, n, regs) /\ SparseLen(s.ops) <= bytes}

LEMMA MergeTurnKeeps ==
  ASSUME NEW n \in Nat, NEW regs, NEW bytes \in Nat, NEW s \in MergeStates(n, regs, bytes)
  PROVE  MergeTurn(s) \in MergeStates(n, regs, bytes)
<1> DEFINE ops == s.ops
           p == s.p
<1>1. /\ s \in [ops : Seq(Opcode), p : Nat \ {0}] /\ ops \in Seq(Opcode) /\ p \in Nat /\ p >= 1
      /\ Reads(ops, 0, n, regs) /\ SparseLen(ops) <= bytes
  BY DEF MergeStates
<1>2. CASE Mergeable(ops, p)
  <2> DEFINE o == ops[p]
             q == ops[p + 1]
             v == VAL(o.val, o.len + q.len)
             x == SubSeq(ops, 1, p - 1)
             y == SubSeq(ops, p + 2, Len(ops))
             w == <<o>> \o <<q>>
             m == <<v>>
             new == (x \o m) \o y
  <2>1. /\ Len(ops) \in Nat /\ p \in 1..Len(ops) /\ p + 1 \in p..Len(ops) /\ p + 1 \in 1..Len(ops)
        /\ o.op = "val" /\ q.op = "val" /\ o.val = q.val
        /\ o.len + q.len <= HLL_SPARSE_VAL_MAX_LEN
    BY <1>1, <1>2 DEF Mergeable
  <2>2. o \in Opcode /\ q \in Opcode
    BY <1>1, <2>1
  <2>3. MergeTurn(s) = [s EXCEPT !.ops = new]
    BY <1>1, <1>2 DEF MergeTurn
  <2> HIDE DEF ops, p, o, q, v
  <2>4. /\ o.len \in Nat \ {0} /\ q.len \in Nat \ {0} /\ o.val \in 1..HLL_SPARSE_VAL_MAX_VALUE
        /\ OpBytes(o) = 1 /\ OpBytes(q) = 1
    BY <2>1, <2>2, OpcodeFields DEF OpBytes
  <2>5. v \in Opcode /\ v.len = o.len + q.len /\ v.val = o.val /\ OpBytes(v) = 1
    BY <2>1, <2>4, HllAssumption DEF v, VAL, Opcode, OpBytes
  <2>6. <<o>> \in Seq(Opcode) /\ <<q>> \in Seq(Opcode) /\ w \in Seq(Opcode)
    BY <2>2
  <2>7. Covered(w) = o.len + q.len /\ SparseLen(w) = 2
    <3> DEFINE t == <<o>>
               u == <<q>>
    <3>1. Covered(t) = o.len /\ SparseLen(t) = 1 /\ Covered(u) = q.len /\ SparseLen(u) = 1
      BY <2>2, <2>4, ReadsOne
    <3>2. t \in Seq(Opcode) /\ u \in Seq(Opcode)
      BY <2>6
    <3> HIDE DEF t, u
    <3>3. Covered(t \o u) = Covered(t) + Covered(u) /\ SparseLen(t \o u) = SparseLen(t) + SparseLen(u)
      BY <3>2, EndsConcat
    <3>4. Covered(t \o u) = o.len + q.len /\ SparseLen(t \o u) = 2
      BY <3>1, <3>3
    <3>5. QED
      BY <3>4 DEF t, u
  <2>8. m \in Seq(Opcode) /\ Covered(m) = o.len + q.len /\ SparseLen(m) = 1
    BY <2>5, ReadsOne
  <2>9. x \in Seq(Opcode) /\ y \in Seq(Opcode) /\ ops = (x \o w) \o y
    <3>1. Len(w) = 2 /\ w[1] = o /\ w[2] = q
      OBVIOUS
    <3>2. Len(w) = (p + 1) - p + 1 /\ \A i \in 1..((p + 1) - p + 1) : w[i] = ops[p - 1 + i]
      <4>1. (p + 1) - p + 1 = 2 /\ p - 1 + 1 = p /\ p - 1 + 2 = p + 1
        BY <1>1
      <4>2. \A i \in 1..2 : i = 1 \/ i = 2
        OBVIOUS
      <4>3. ops[p - 1 + 1] = o /\ ops[p - 1 + 2] = q
        BY <4>1 DEF o, q
      <4> HIDE DEF w
      <4>4. QED
        BY <3>1, <4>1, <4>2, <4>3
    <3>3. (p + 1) + 1 = p + 2
      BY <1>1
    <3> HIDE DEF w
    <3> DEFINE j == p + 1
    <3>4. j + 1 = p + 2
      BY <3>3
    <3>5. Parts(ops, p, j, x, w, y)
      BY <3>2, <3>4 DEF Parts
    <3>6. ops \in Seq(Opcode) /\ p \in 1..Len(ops) /\ w \in Seq(Opcode) /\ j \in p..Len(ops)
      BY <1>1, <2>1, <2>6
    <3> HIDE DEF j, x, y
    <3>7. QED
      BY ONLY <3>5, <3>6, Around
  <2> HIDE DEF x, y
  <2> DEFINE a == Covered(x)
  <2>10. a \in Nat
    BY <2>9, EndsAre
  <2>11. /\ Reads(w, a, a + Covered(w), regs)
         /\ SparseLen(ops) = SparseLen(x) + SparseLen(w) + SparseLen(y)
    <3> HIDE DEF w
    <3>1. Reads((x \o w) \o y, 0, n, regs)
      BY <1>1, <2>9
    <3>2. Reads(w, Covered(x), Covered(x) + Covered(w), regs)
      BY <2>6, <2>9, <3>1, ReadsThree
    <3>3. SparseLen((x \o w) \o y) = SparseLen(x) + SparseLen(w) + SparseLen(y)
      BY <2>6, <2>9, BytesThree
    <3>4. QED
      BY <2>9, <3>2, <3>3
  <2> HIDE DEF a
  <2>12. Holds(regs, a, a + o.len, o.val) /\ Holds(regs, a + o.len, a + (o.len + q.len), o.val)
    <3>1. a + (o.len + q.len) \in Nat /\ a + o.len \in Nat
      BY <2>4, <2>10
    <3>2. Reads(w, a, a + (o.len + q.len), regs)
      BY <2>7, <2>11
    <3>3. Covered(<<o>>) = o.len
      BY <2>2, ReadsOne
    <3>4. Reads(<<o>>, a, a + o.len, regs) /\ Reads(<<q>>, a + o.len, a + (o.len + q.len), regs)
      <4> DEFINE t == <<o>>
                 u == <<q>>
                 b == a + o.len
                 c == a + (o.len + q.len)
      <4>1. t \in Seq(Opcode) /\ u \in Seq(Opcode) /\ c \in Nat /\ Reads(t \o u, a, c, regs)
        BY <2>6, <3>1, <3>2
      <4>2. a + Covered(t) = b
        BY <3>3
      <4> HIDE DEF t, u, b, c
      <4>3. Reads(t, a, a + Covered(t), regs) /\ Reads(u, a + Covered(t), c, regs)
        BY <2>10, <4>1, ReadsConcat
      <4>4. Reads(t, a, b, regs) /\ Reads(u, b, c, regs)
        BY <4>2, <4>3
      <4>5. QED
        BY <4>4 DEF t, u, b, c
    <3>5. QED
      BY <2>1, <2>2, <2>10, <3>1, <3>4, ReadsOne
  <2>13. Reads(m, a, a + Covered(w), regs)
    <3>1. Holds(regs, a, a + (o.len + q.len), o.val)
      BY <2>4, <2>10, <2>12 DEF Holds
    <3>2. a + (o.len + q.len) \in Nat
      BY <2>4, <2>10
    <3>3. QED
      BY <2>5, <2>7, <2>10, <3>1, <3>2, ReadsOne
  <2>14. /\ new \in Seq(Opcode) /\ Reads(new, 0, n, regs)
         /\ SparseLen(new) = SparseLen(x) + SparseLen(m) + SparseLen(y)
    <3> HIDE DEF w, m
    <3>1. Reads((x \o w) \o y, 0, n, regs)
      BY <1>1, <2>9
    <3>2. Reads(m, Covered(x), Covered(x) + Covered(w), regs)
      BY <2>13 DEF a
    <3>3. SameOutside(regs, regs, n, Covered(x), Covered(x) + Covered(w))
      BY DEF SameOutside
    <3>4. QED
      BY <2>6, <2>8, <2>9, <3>1, <3>2, <3>3, Replaced
  <2> HIDE DEF new, w, m
  <2>15. SparseLen(new) <= bytes
    <3>1. SparseLen(x) \in Nat /\ SparseLen(y) \in Nat
      BY <2>9, EndsAre
    <3>2. SparseLen(new) = SparseLen(x) + 1 + SparseLen(y)
      BY <2>8, <2>14
    <3>3. SparseLen(ops) = SparseLen(x) + 2 + SparseLen(y)
      BY <2>7, <2>11
    <3>4. SparseLen(ops) <= bytes
      BY <1>1
    <3>5. QED
      BY <3>1, <3>2, <3>3, <3>4
  <2>16. QED
    BY <1>1, <2>3, <2>14, <2>15 DEF MergeStates
<1>3. CASE ~Mergeable(ops, p)
  <2>1. MergeTurn(s) = [s EXCEPT !.p = p + 1] /\ p + 1 \in Nat \ {0}
    BY <1>1, <1>3 DEF MergeTurn
  <2>2. QED
    BY <1>1, <2>1 DEF MergeStates
<1>4. QED
  BY <1>2, <1>3

LEMMA MergeAdjacentKeeps ==
  ASSUME NEW n \in Nat, NEW regs, NEW bytes \in Nat, NEW ops \in Seq(Opcode), NEW from \in Nat \ {0},
         Reads(ops, 0, n, regs), SparseLen(ops) <= bytes
  PROVE  /\ MergeAdjacent(ops, from) \in Seq(Opcode)
         /\ Reads(MergeAdjacent(ops, from), 0, n, regs)
         /\ SparseLen(MergeAdjacent(ops, from)) <= bytes
<1> DEFINE S == MergeStates(n, regs, bytes)
           start == [ops |-> ops, p |-> from]
           G == [t \in Nat |-> [s \in S |-> MergeTurn(s)]]
           Recursion(f) == f = [t \in 0..5 |-> IF t = 0 THEN start ELSE MergeTurn(f[t - 1])]
           turn == CHOOSE f : Recursion(f)
<1>1. start \in S
  BY DEF MergeStates
<1>2. \A s \in S : MergeTurn(s) \in S
  BY MergeTurnKeeps
<1>3. MergeAdjacent(ops, from) = turn[5].ops
  BY DEF MergeAdjacent
<1> HIDE DEF start, S
<1>4. G \in Steps(S) /\ \A t \in 1..5 : \A s \in S : G[t][s] = MergeTurn(s)
  BY <1>2 DEF Steps
<1> HIDE DEF G
<1>5. PICK f : Iterates(f, S, start, G, 5)
  BY <1>1, <1>4, Iterated
<1>6. f \in [0..5 -> S] /\ f[0] = start /\ \A t \in 1..5 : f[t] = G[t][f[t - 1]]
  BY <1>5 DEF Iterates
<1>7. \A t \in 1..5 : f[t] = MergeTurn(f[t - 1])
  <2>1. \A t \in 1..5 : f[t - 1] \in S
    <3>1. \A t \in 1..5 : t - 1 \in 0..5
      OBVIOUS
    <3>2. QED
      BY <1>6, <3>1
  <2>2. QED
    BY <1>4, <1>6, <2>1
<1>8. Recursion(f)
  <2>1. \A t \in 0..5 : f[t] = IF t = 0 THEN start ELSE MergeTurn(f[t - 1])
    BY <1>6, <1>7
  <2>2. f = [t \in 0..5 |-> f[t]]
    BY <1>6
  <2>3. QED
    BY <2>1, <2>2
<1>9. Recursion(turn)
  <2> HIDE DEF Recursion
  <2>1. QED
    BY <1>8
<1>10. turn[0] = start /\ \A t \in 1..5 : turn[t] = MergeTurn(turn[t - 1])
  <2> HIDE DEF turn
  <2>1. QED
    BY <1>9
<1> HIDE DEF turn
<1>11. \A t \in 0..5 : turn[t] \in S
  <2>1. \A t \in 1..5 : turn[t - 1] \in S => turn[t] \in S
    BY <1>2, <1>10
  <2>2. QED
    BY <1>1, <1>10, <2>1, IteratedStays
<1>12. turn[5] \in S
  BY <1>11
<1>13. QED
  BY <1>3, <1>12 DEF S, MergeStates

\* Step 1: some opcode covers the register.
LEMMA Located ==
  ASSUME NEW ops \in Seq(Opcode), NEW n \in Nat, n = Covered(ops), NEW index \in 0..(n - 1)
  PROVE  LET k == Locate(ops, index)
         IN  /\ k \in 1..Len(ops) /\ First(ops, k) \in Nat
             /\ First(ops, k) <= index /\ index < First(ops, k) + ops[k].len
             /\ First(ops, k) + ops[k].len = Ends(ops)[k]
<1> DEFINE k == Locate(ops, index)
           T == {m \in 1..Len(ops) : Ends(ops)[m] > index}
           At(m) == First(ops, m) <= index /\ index <= First(ops, m) + ops[m].len - 1
<1>1. /\ Len(ops) \in Nat /\ Ends(ops) \in [0..Len(ops) -> Nat] /\ Ends(ops)[0] = 0
      /\ \A m \in 1..Len(ops) : Ends(ops)[m] = Ends(ops)[m - 1] + ops[m].len
      /\ n = Ends(ops)[Len(ops)]
  BY EndsAre DEF Covered
<1>2. T \in SUBSET Nat /\ T # {}
  <2>1. Len(ops) # 0
    BY <1>1
  <2>2. Len(ops) \in T
    BY <1>1, <2>1
  <2>3. T \in SUBSET Nat
    BY <1>1
  <2> HIDE DEF T
  <2>4. QED
    BY <2>2, <2>3
<1>3. PICK m \in T : \A i \in T : m <= i
  BY <1>2, Least
<1>4. Ends(ops)[m - 1] <= index
  <2>1. CASE m = 1
    BY <1>1, <2>1
  <2>2. CASE m # 1
    <3>1. m - 1 \in 1..Len(ops) /\ m - 1 \in 0..Len(ops) /\ ~(m <= m - 1)
      BY <1>1, <1>3, <2>2
    <3>2. m - 1 \notin T
      <4> HIDE DEF T
      <4>1. QED
        BY <1>3, <3>1
    <3>3. ~(Ends(ops)[m - 1] > index) /\ Ends(ops)[m - 1] \in Nat
      BY <1>1, <3>1, <3>2
    <3>4. QED
      BY <3>3
  <2>3. QED
    BY <2>1, <2>2
<1>5. \A i \in 1..Len(ops) : ops[i].len \in Nat /\ First(ops, i) = Ends(ops)[i - 1] /\ First(ops, i) \in Nat
  <2>1. \A i \in 1..Len(ops) : i - 1 \in 0..Len(ops)
    BY <1>1
  <2>2. \A i \in 1..Len(ops) : ops[i].len \in Nat
    BY OpcodeFields
  <2>3. \A i \in 1..Len(ops) : First(ops, i) = Ends(ops)[i - 1]
    BY DEF First
  <2>4. \A i \in 1..Len(ops) : Ends(ops)[i - 1] \in Nat
    BY <1>1, <2>1
  <2>5. QED
    BY <2>2, <2>3, <2>4
<1>6. At(m)
  <2>1. /\ m \in 1..Len(ops) /\ Ends(ops)[m] = First(ops, m) + ops[m].len /\ Ends(ops)[m] > index
        /\ First(ops, m) \in Nat /\ ops[m].len \in Nat
    BY <1>1, <1>3, <1>5
  <2>2. First(ops, m) <= index
    BY <1>4, <1>5, <2>1
  <2>3. QED
    BY <2>1, <2>2
<1>7. k \in 1..Len(ops) /\ At(k)
  <2>1. k = CHOOSE i \in 1..Len(ops) : At(i)
    BY DEF Locate
  <2>2. m \in 1..Len(ops)
    BY <1>3
  <2> HIDE DEF At, k
  <2>3. QED
    BY <1>6, <2>1, <2>2
<1> HIDE DEF k
<1>8. First(ops, k) \in Nat /\ ops[k].len \in Nat /\ First(ops, k) + ops[k].len = Ends(ops)[k]
  BY <1>1, <1>5, <1>7
<1>9. First(ops, k) <= index /\ index < First(ops, k) + ops[k].len
  BY <1>7, <1>8
<1>10. QED
  BY <1>7, <1>8, <1>9 DEF k

\* Opcodes that read as registers have their values.
LEMMA ValueRead ==
  ASSUME NEW ops \in Seq(Opcode), NEW n \in Nat, NEW regs, Reads(ops, 0, n, regs),
         NEW index \in 0..(n - 1)
  PROVE  regs[index] = ops[Locate(ops, index)].val
<1> DEFINE k == Locate(ops, index)
<1>1. n = Covered(ops)
  BY EndsAre DEF Reads
<1>2. /\ k \in 1..Len(ops) /\ First(ops, k) \in Nat /\ First(ops, k) <= index
      /\ index < Ends(ops)[k] /\ Ends(ops)[k] \in Nat
  <2>1. /\ k \in 1..Len(ops) /\ First(ops, k) \in Nat /\ First(ops, k) <= index
        /\ index < First(ops, k) + ops[k].len
        /\ First(ops, k) + ops[k].len = Ends(ops)[k]
    BY <1>1, Located
  <2>2. k \in 0..Len(ops)
    BY <2>1
  <2>3. QED
    BY <2>1, <2>2, EndsAre
<1> HIDE DEF k
<1>3. Holds(regs, 0 + Ends(ops)[k - 1], 0 + Ends(ops)[k], ops[k].val)
  BY <1>2 DEF Reads
<1>4. 0 + Ends(ops)[k - 1] = First(ops, k) /\ 0 + Ends(ops)[k] = Ends(ops)[k]
  BY <1>2 DEF First
<1>5. Holds(regs, First(ops, k), Ends(ops)[k], ops[k].val)
  BY <1>3, <1>4
<1>6. index \in First(ops, k)..(Ends(ops)[k] - 1)
  BY <1>2
<1>7. QED
  BY <1>5, <1>6 DEF Holds, k

LEMMA ValuesAre ==
  ASSUME NEW ops \in Seq(Opcode), NEW regs \in [Regs -> Nat], Reads(ops, 0, HLL_REGISTERS, regs)
  PROVE  Values(ops) = regs
<1>1. HLL_REGISTERS \in Nat
  BY Powers, PAssumption DEF HLL_REGISTERS
<1>2. \A r \in Regs : regs[r] = ops[Locate(ops, r)].val
  BY <1>1, ValueRead DEF Regs
<1>3. QED
  BY <1>2 DEF Values

\* Steps 1 to 4: the register is set, and the memory is enough.
Updated(ops, index, value, k, seq, delta, from, new) ==
  /\ k = Locate(ops, index)
  /\ seq = Split(ops[k], First(ops, k), index, value)
  /\ delta = SparseLen(seq) - OpBytes(ops[k])
  /\ ~(delta > 0 /\ SparseLen(ops) > HLL_SPARSE_MAX_BYTES)
  /\ new = MergeAdjacent(SubSeq(ops, 1, k - 1) \o seq \o SubSeq(ops, k + 1, Len(ops)), from)

LEMMA SparseSets ==
  ASSUME NEW ops \in Seq(Opcode), NEW regs, NEW other, NEW n \in Nat, Reads(ops, 0, n, regs),
         SparseLen(ops) <= HLL_SPARSE_MAX_BYTES + 3,
         NEW index \in 0..(n - 1), NEW value \in 1..HLL_SPARSE_VAL_MAX_VALUE,
         SetAt(other, regs, 0, n, index, value),
         NEW k, NEW seq, NEW delta, NEW from \in Nat \ {0}, NEW new,
         Updated(ops, index, value, k, seq, delta, from, new)
  PROVE  /\ new \in Seq(Opcode) /\ Reads(new, 0, n, other)
         /\ SparseLen(new) <= HLL_SPARSE_MAX_BYTES + 3
<1> DEFINE o == ops[k]
           first == First(ops, k)
           x == SubSeq(ops, 1, k - 1)
           y == SubSeq(ops, k + 1, Len(ops))
           w == <<o>>
           z == (x \o seq) \o y
<1>1. n = Covered(ops) /\ HLL_SPARSE_MAX_BYTES \in Nat
  BY EndsAre, HllAssumption DEF Reads
<1>2. /\ k \in 1..Len(ops) /\ first \in Nat /\ first <= index /\ index < first + o.len
      /\ first + o.len = Ends(ops)[k]
  <2>1. k = Locate(ops, index)
    BY DEF Updated
  <2>2. QED
    BY <1>1, <2>1, Located
<1>3. Len(ops) \in Nat /\ o \in Opcode /\ index \in Nat /\ o.len \in Nat
  <2>1. Len(ops) \in Nat /\ o \in Opcode
    BY <1>2
  <2>2. QED
    BY <2>1, OpcodeFields
<1>4. x \in Seq(Opcode) /\ y \in Seq(Opcode) /\ w \in Seq(Opcode) /\ ops = (x \o w) \o y /\ Len(x) = k - 1
  <2>1. w \in Seq(Opcode) /\ Len(w) = 1 /\ w[1] = ops[k]
    BY <1>3
  <2>2. k - k + 1 = 1 /\ k - 1 + 1 = k /\ \A i \in 1..1 : i = 1
    BY <1>2
  <2>3. Parts(ops, k, k, x, w, y)
    <3> HIDE DEF w
    <3>1. QED
      BY <2>1, <2>2 DEF Parts
  <2>4. k \in k..Len(ops)
    BY <1>2
  <2>a. k \in 1..Len(ops) /\ ops \in Seq(Opcode)
    BY <1>2
  <2>5. Len(x) = k - 1
    BY ONLY <2>a DEF x
  <2> HIDE DEF x, w, y
  <2>6. x \in Seq(Opcode) /\ y \in Seq(Opcode) /\ ops = (x \o w) \o y
    <3> DEFINE j == k
    <3>1. j \in k..Len(ops) /\ Parts(ops, k, j, x, w, y)
      BY <2>3, <2>4
    <3> HIDE DEF j
    <3>2. w \in Seq(Opcode)
      BY <2>1
    <3>3. QED
      BY ONLY <2>a, <3>1, <3>2, Around
  <2>7. QED
    BY <2>1, <2>5, <2>6
<1>5. Covered(x) = first /\ Covered(w) = o.len /\ SparseLen(w) = OpBytes(o)
  <2>1. Covered(w) = o.len /\ SparseLen(w) = OpBytes(o)
    BY <1>3, ReadsOne
  <2> HIDE DEF w, o
  <2>2. Covered(x) = first
    <3> DEFINE u == x \o w
    <3>1. /\ u \in Seq(Opcode) /\ Len(u) = Len(x) + Len(w)
          /\ \A i \in 0..Len(x) : Ends(u)[i] = Ends(x)[i]
      BY <1>4, EndsConcat
    <3> HIDE DEF u
    <3>2. \A i \in 0..Len(u) : Ends(u \o y)[i] = Ends(u)[i]
      BY <1>4, <3>1, EndsConcat
    <3>3. ops = u \o y
      BY <1>4 DEF u
    <3>4. k - 1 \in 0..Len(x) /\ k - 1 \in 0..Len(u)
      <4>1. Len(x) \in Nat /\ Len(w) \in Nat /\ Len(x) = k - 1 /\ Len(u) = Len(x) + Len(w)
        BY <1>4, <3>1
      <4> DEFINE a == Len(x)
                 b == Len(u)
      <4>2. k \in Nat /\ a \in Nat /\ b \in Nat /\ a = k - 1 /\ a <= b
        BY <1>2, <4>1
      <4> HIDE DEF a, b
      <4>3. k - 1 \in 0..a /\ k - 1 \in 0..b
        BY ONLY <4>2
      <4>4. QED
        BY <4>3 DEF a, b
    <3>5. Ends(ops)[k - 1] = Ends(x)[k - 1]
      BY <3>1, <3>2, <3>3, <3>4
    <3>6. QED
      BY <1>4, <3>5 DEF First, Covered
  <2>3. QED
    BY <2>1, <2>2 DEF o
<1> HIDE DEF x, y, w, o, first
<1>6. Reads(w, first, first + o.len, regs) /\ SparseLen(ops) = SparseLen(x) + OpBytes(o) + SparseLen(y)
  <2>1. Reads((x \o w) \o y, 0, n, regs)
    BY <1>4
  <2>2. Reads(w, Covered(x), Covered(x) + Covered(w), regs)
    BY <1>4, <2>1, ReadsThree
  <2>3. SparseLen((x \o w) \o y) = SparseLen(x) + SparseLen(w) + SparseLen(y)
    BY <1>4, BytesThree
  <2>4. QED
    BY <1>4, <1>5, <2>2, <2>3
<1>7. first + o.len \in Nat /\ first + o.len <= n
  <2>1. first + o.len = Ends(ops)[k] /\ k \in 0..Len(ops) /\ Len(ops) \in 0..Len(ops) /\ k <= Len(ops)
    BY <1>2, <1>3
  <2>2. Ends(ops)[k] <= Ends(ops)[Len(ops)] /\ Ends(ops)[k] \in Nat
    BY <2>1, EndsAre
  <2>3. QED
    BY <1>1, <2>1, <2>2 DEF Covered
<1>8. Holds(regs, first, first + o.len, o.val)
  <2>1. Reads(<<o>>, first, first + o.len, regs)
    BY <1>6 DEF w
  <2>2. QED
    BY <1>2, <1>3, <1>7, <2>1, ReadsOne
<1>9. seq = Split(o, first, index, value)
  BY DEF o, first, Updated
<1> DEFINE end == first + o.len
<1>10. /\ SetAt(other, regs, first, end, index, value) /\ Holds(regs, first, end, o.val)
       /\ end \in Nat /\ end <= n /\ index < end
  <2>1. end \in Nat /\ end <= n /\ index < end
    BY <1>2, <1>7
  <2>2. Holds(regs, first, end, o.val)
    BY <1>8
  <2> HIDE DEF end
  <2>3. \A r \in first..(end - 1) : r \in 0..(n - 1)
    BY <1>2, <2>1
  <2>4. QED
    BY <2>1, <2>2, <2>3 DEF SetAt
<1>11. /\ seq \in Seq(Opcode) /\ Reads(seq, first, first + o.len, other)
       /\ SparseLen(seq) \in Nat /\ SparseLen(seq) <= OpBytes(o) + 3
  <2>1. end = first + o.len /\ index < first + o.len
    BY <1>2
  <2>2. first \in Nat /\ first <= index /\ index \in Nat /\ o \in Opcode
    BY <1>2, <1>3
  <2> HIDE DEF end
  <2> DEFINE s == Split(o, first, index, value)
  <2>3. s \in Seq(Opcode) /\ Reads(s, first, end, other) /\ SparseLen(s) \in Nat /\ SparseLen(s) <= OpBytes(o) + 3
    BY ONLY <1>10, <2>1, <2>2, SplitReads, value \in 1..HLL_SPARSE_VAL_MAX_VALUE
  <2>4. seq = s
    BY <1>9
  <2> HIDE DEF s
  <2>5. QED
    BY <2>1, <2>3, <2>4
<1>12. z \in Seq(Opcode) /\ Reads(z, 0, n, other) /\ SparseLen(z) = SparseLen(x) + SparseLen(seq) + SparseLen(y)
  <2>1. Reads((x \o w) \o y, 0, n, regs)
    BY <1>4
  <2>2. Reads(seq, Covered(x), Covered(x) + Covered(w), other)
    BY <1>5, <1>11
  <2>3. SameOutside(regs, other, n, Covered(x), Covered(x) + Covered(w))
    <3>1. SameOutside(regs, other, n, first, first + o.len)
      <4>1. index \in first..((first + o.len) - 1)
        BY <1>2, <1>3
      <4>2. QED
        BY <4>1 DEF SameOutside, SetAt
    <3>2. QED
      BY <1>5, <3>1
  <2>4. z \in Seq(Opcode) /\ Reads(z, 0, n, other)
    BY ONLY <1>4, <1>11, <2>1, <2>2, <2>3, Replaced, n \in Nat
  <2>5. SparseLen(z) = SparseLen(x) + SparseLen(seq) + SparseLen(y)
    BY ONLY <1>4, <1>11, BytesThree
  <2>6. QED
    BY <2>4, <2>5
<1>13. SparseLen(z) <= HLL_SPARSE_MAX_BYTES + 3
  <2> HIDE DEF z, end
  <2>1. SparseLen(x) \in Nat /\ SparseLen(y) \in Nat /\ OpBytes(o) \in {1, 2}
    BY <1>3, <1>4, EndsAre, OpcodeFields
  <2>2. delta = SparseLen(seq) - OpBytes(o)
    BY DEF o, Updated
  <2>3. SparseLen(z) = SparseLen(ops) + delta /\ SparseLen(ops) \in Nat /\ delta \in Int
    <3> DEFINE sx == SparseLen(x)
               sy == SparseLen(y)
               ss == SparseLen(seq)
               so == OpBytes(o)
               sz == SparseLen(z)
               sops == SparseLen(ops)
    <3>a. sops = sx + so + sy
      BY <1>6
    <3>b. sz = sx + ss + sy /\ ss \in Nat
      BY <1>11, <1>12
    <3>c. so \in Nat
      BY ONLY <2>1
    <3>1. /\ sx \in Nat /\ sy \in Nat /\ ss \in Nat /\ so \in Nat /\ delta = ss - so
          /\ sops = sx + so + sy /\ sz = sx + ss + sy
      BY ONLY <2>1, <2>2, <3>a, <3>b, <3>c
    <3> HIDE DEF sx, sy, ss, so, sz, sops
    <3>2. sz = sops + delta /\ sops \in Nat /\ delta \in Int
      BY ONLY <3>1
    <3>3. QED
      BY <3>2 DEF sz, sops
  <2>4. delta <= 3
    BY <1>11, <2>1, <2>2
  <2>5. CASE delta > 0
    <3>1. ~(SparseLen(ops) > HLL_SPARSE_MAX_BYTES)
      BY <2>5 DEF Updated
    <3>2. QED
      BY <1>1, <2>3, <2>4, <2>5, <3>1
  <2>6. CASE ~(delta > 0)
    BY <1>1, <2>3, <2>6
  <2>7. QED
    BY <2>5, <2>6
<1>14. new = MergeAdjacent(z, from)
  BY DEF x, y, z, Updated
<1> HIDE DEF z
<1> DEFINE bytes == HLL_SPARSE_MAX_BYTES + 3
<1>15. bytes \in Nat /\ SparseLen(z) <= bytes
  BY <1>1, <1>13
<1> HIDE DEF bytes
<1>16. new \in Seq(Opcode) /\ Reads(new, 0, n, other) /\ SparseLen(new) <= bytes
  BY <1>12, <1>14, <1>15, MergeAdjacentKeeps
<1>17. QED
  BY <1>16 DEF bytes

----------------------------------------------------------------------------
(***************************************************************************)
(* Numbers and their bits.                                                 *)
(***************************************************************************)

\* Numbers of six bits.
LEMMA SixBitNumbers ==
  /\ PowerOfTwo[HLL_BITS] = 64
  /\ \A bits : NumberOf(bits, HLL_BITS) \in 0..63
  /\ \A bits : (\A b \in 0..5 : b \notin bits) => NumberOf(bits, HLL_BITS) = 0
  /\ \A a, b : /\ NumberOf(a \cup b, HLL_BITS) >= NumberOf(a, HLL_BITS)
               /\ NumberOf(a \cup b, HLL_BITS) >= NumberOf(b, HLL_BITS)
<1>1. PowerOfTwo[HLL_BITS] = 64
  <2>1. /\ PowerOfTwo[0 + 1] = 2 * PowerOfTwo[0] /\ PowerOfTwo[1 + 1] = 2 * PowerOfTwo[1]
        /\ PowerOfTwo[2 + 1] = 2 * PowerOfTwo[2] /\ PowerOfTwo[3 + 1] = 2 * PowerOfTwo[3]
        /\ PowerOfTwo[4 + 1] = 2 * PowerOfTwo[4] /\ PowerOfTwo[5 + 1] = 2 * PowerOfTwo[5]
    BY Powers
  <2>2. PowerOfTwo[3] = 8
    BY <2>1, Powers
  <2>3. PowerOfTwo[5 + 1] = 64
    BY <2>1, <2>2
  <2>4. 5 + 1 = 6
    OBVIOUS
  <2>5. PowerOfTwo[6] = 64
    BY ONLY <2>3, <2>4
  <2>6. QED
    BY <2>5 DEF HLL_BITS
<1>2. \A bits : NumberOf(bits, HLL_BITS) \in 0..63
  <2>1. HLL_BITS \in Nat
    BY DEF HLL_BITS
  <2>2. QED
    BY <1>1, <2>1, NumberBelow
<1>3. ASSUME NEW bits, \A b \in 0..5 : b \notin bits
      PROVE  NumberOf(bits, HLL_BITS) = 0
  BY <1>3, NumberOfNone DEF HLL_BITS
<1>4. ASSUME NEW a, NEW b
      PROVE  /\ NumberOf(a \cup b, HLL_BITS) >= NumberOf(a, HLL_BITS)
             /\ NumberOf(a \cup b, HLL_BITS) >= NumberOf(b, HLL_BITS)
  <2>1. /\ NumberOf(a, HLL_BITS) <= NumberOf(a \cup b, HLL_BITS)
        /\ NumberOf(b, HLL_BITS) <= NumberOf(a \cup b, HLL_BITS)
    BY NumberMonotone DEF HLL_BITS
  <2>2. QED
    BY <1>2, <2>1
<1>5. QED
  BY <1>1, <1>2, <1>3, <1>4

\* The bits of a number are the number.
LEMMA BitsBack ==
  ASSUME NEW n \in 0..63
  PROVE  BitsOf(n) \in SUBSET HLL_REGISTER_MAX /\ NumberOf(BitsOf(n), HLL_BITS) = n
<1>1. PowerOfTwo[HLL_BITS] = 64 /\ HLL_BITS \in Nat
  BY SixBitNumbers DEF HLL_BITS
<1>2. n \in 0..(PowerOfTwo[HLL_BITS] - 1)
  BY <1>1
<1>3. NumberOf(NumberBits(n, HLL_BITS), HLL_BITS) = n
  BY <1>1, <1>2, NumberOfBits
<1>4. QED
  BY <1>3 DEF BitsOf, NumberBits, HLL_REGISTER_MAX

----------------------------------------------------------------------------
(***************************************************************************)
(* What a hyperloglog stands for.  Represents(h, regs): it is sound, its   *)
(* registers are regs, and a cached estimate is theirs.                    *)
(***************************************************************************)

RegValues == [Regs -> 0..63]

Counts == [index : Regs, count : 1..63]

Hyperloglogs ==
  [encoding : {"sparse", "dense"}, ops : Seq(Opcode), dense : Dense, owned : BOOLEAN,
   sound : BOOLEAN, card : Seq(SUBSET ((0..63) \X Nat))]

\* The registers of the dense representation.
Packed(p) == [r \in Regs |-> NumberOf(HLL_DENSE_GET_REGISTER(p, r), HLL_BITS)]

Encodes(h, regs) ==
  IF h.encoding = "dense" THEN Packed(h.dense) = regs
  ELSE /\ Reads(h.ops, 0, HLL_REGISTERS, regs)
       /\ SparseLen(h.ops) <= HLL_SPARSE_MAX_BYTES + 3

StandsFor(h, regs) ==
  /\ h \in Hyperloglogs
  /\ h.sound
  /\ Encodes(h, regs)
  /\ h.encoding = "dense" \/ h.owned

Represents(h, regs) ==
  /\ StandsFor(h, regs)
  /\ h.card # Invalid => h.card[1] = Histogram(regs)

\* An element has a register, and a count that fits it.
LEMMA PatLenFits ==
  ASSUME NEW hash \in SUBSET (0..(HashBits - 1))
  PROVE  hllPatLen(hash) \in Counts
<1>1. NumberOf(hash, HLL_P) \in Regs
  BY PAssumption, NumberBelow DEF Regs, HLL_REGISTERS
<1>2. HLL_P \in Nat /\ HashBits \in Nat /\ HLL_P + 1 <= HashBits /\ HashBits <= HLL_P + 63
  <2>1. HashBits \in (HLL_P + 1)..(HLL_P + 64 - 1)
    BY HllAssumption, SixBitNumbers
  <2>2. QED
    BY <2>1, PAssumption
<1> DEFINE T == {b \in hash : b >= HLL_P} \cup {HashBits - 1}
           low == Min(T)
<1>3. T \in SUBSET Nat /\ T # {} /\ HashBits - 1 \in T /\ \A b \in T : b >= HLL_P
  <2>1. \A b \in 0..(HashBits - 1) : b \in Nat
    BY <1>2
  <2>2. HashBits - 1 \in Nat /\ HashBits - 1 >= HLL_P
    BY <1>2
  <2>3. \A b \in T : b \in Nat /\ b >= HLL_P
    BY <2>1, <2>2
  <2>4. HashBits - 1 \in T
    OBVIOUS
  <2> HIDE DEF T
  <2>5. QED
    BY <2>3, <2>4
<1> HIDE DEF T
<1>4. low \in T /\ low <= HashBits - 1
  BY <1>3, MinOfSet
<1>5. low \in Nat /\ low >= HLL_P
  BY <1>3, <1>4
<1> HIDE DEF low
<1>6. low - HLL_P + 1 \in 1..63
  BY <1>2, <1>4, <1>5
<1>7. hllPatLen(hash) = [index |-> NumberOf(hash, HLL_P), count |-> low - HLL_P + 1]
  BY DEF hllPatLen, low, T
<1>8. QED
  BY <1>1, <1>6, <1>7 DEF Counts

\* Setting a packed register.
LEMMA PackedSet ==
  ASSUME NEW p \in Dense, NEW r \in Regs, NEW n \in 0..63
  PROVE  /\ HLL_DENSE_SET_REGISTER(p, r, BitsOf(n)) \in Dense
         /\ Packed(HLL_DENSE_SET_REGISTER(p, r, BitsOf(n))) = [Packed(p) EXCEPT ![r] = n]
<1> DEFINE q == HLL_DENSE_SET_REGISTER(p, r, BitsOf(n))
<1>1. BitsOf(n) \in SUBSET HLL_REGISTER_MAX /\ NumberOf(BitsOf(n), HLL_BITS) = n
  BY BitsBack
<1>2. /\ q \in Dense
      /\ \A s \in Regs : HLL_DENSE_GET_REGISTER(q, s) =
                           IF s = r THEN BitsOf(n) ELSE HLL_DENSE_GET_REGISTER(p, s)
  BY <1>1, DenseReadsBack
<1> HIDE DEF q
<1>3. \A s \in Regs : NumberOf(HLL_DENSE_GET_REGISTER(q, s), HLL_BITS) =
                        IF s = r THEN n ELSE NumberOf(HLL_DENSE_GET_REGISTER(p, s), HLL_BITS)
  <2>1. ASSUME NEW s \in Regs
        PROVE  NumberOf(HLL_DENSE_GET_REGISTER(q, s), HLL_BITS) =
                 IF s = r THEN n ELSE NumberOf(HLL_DENSE_GET_REGISTER(p, s), HLL_BITS)
    <3>1. CASE s = r
      <4>1. HLL_DENSE_GET_REGISTER(q, s) = BitsOf(n)
        BY <1>2, <3>1
      <4>2. QED
        BY <1>1, <3>1, <4>1
    <3>2. CASE s # r
      <4>1. HLL_DENSE_GET_REGISTER(q, s) = HLL_DENSE_GET_REGISTER(p, s)
        BY <1>2, <3>2
      <4>2. QED
        BY <3>2, <4>1
    <3>3. QED
      BY <3>1, <3>2
  <2>2. QED
    BY <2>1
<1>4. Packed(q) = [Packed(p) EXCEPT ![r] = n]
  BY <1>3 DEF Packed
<1>5. QED
  BY <1>2, <1>4 DEF q

\* No bits are registers of zero.
LEMMA PackedZero == NoBits \in Dense /\ Packed(NoBits) = NoRegs
<1>1. NoBits \in Dense /\ \A x \in Bytes : NoBits[x] = {}
  BY DEF NoBits, Dense
<1>2. ASSUME NEW r \in Regs
      PROVE  NumberOf(HLL_DENSE_GET_REGISTER(NoBits, r), HLL_BITS) = 0
  <2>1. ASSUME NEW b \in 0..5
        PROVE  b \notin HLL_DENSE_GET_REGISTER(NoBits, r)
    <3>1. b \in HLL_REGISTER_MAX
      BY DEF HLL_REGISTER_MAX, HLL_BITS
    <3>2. PICK x \in Bytes, c \in Bit : 8 * x + c = 6 * r + b
      BY <3>1, BitPlace
    <3>3. b \in HLL_DENSE_GET_REGISTER(NoBits, r) <=> c \in NoBits[x]
      BY <1>1, <3>1, <3>2, GetBit
    <3>4. QED
      BY <1>1, <3>3
  <2>2. QED
    BY <2>1, SixBitNumbers
<1>3. QED
  BY <1>1, <1>2 DEF Packed, NoRegs

\* hllSparseToDense(): the new representation has the values of the old one.
LEMMA DenseFromValues ==
  ASSUME NEW values \in RegValues
  PROVE  DenseFrom(values) \in Dense /\ Packed(DenseFrom(values)) = values
<1> DEFINE N == HLL_REGISTERS
           Turn(n, p) == IF values[n - 1] = 0 THEN p
                         ELSE HLL_DENSE_SET_REGISTER(p, n - 1, BitsOf(values[n - 1]))
           Next(n, p) == IF n \in 1..N THEN Turn(n, p) ELSE p
           G == [n \in Nat |-> [p \in Dense |-> Next(n, p)]]
           Recursion(f) == f = [n \in 0..N |->
                                  IF n = 0 THEN NoBits
                                  ELSE IF values[n - 1] = 0 THEN f[n - 1]
                                  ELSE HLL_DENSE_SET_REGISTER(f[n - 1], n - 1, BitsOf(values[n - 1]))]
           dense == CHOOSE f : Recursion(f)
<1>1. N \in Nat /\ Regs = 0..(N - 1)
  BY Powers, PAssumption DEF HLL_REGISTERS, Regs
<1>2. DenseFrom(values) = dense[N]
  BY DEF DenseFrom
<1> HIDE DEF N
<1>3. \A n \in 1..N : n - 1 \in Regs /\ values[n - 1] \in 0..63
  <2>1. \A n \in 1..N : n - 1 \in Regs
    BY <1>1
  <2>2. QED
    BY <2>1 DEF RegValues
<1>4. \A n \in 1..N : \A p \in Dense :
        Turn(n, p) \in Dense /\ Packed(Turn(n, p)) = [Packed(p) EXCEPT ![n - 1] =
                                                        IF values[n - 1] = 0 THEN @ ELSE values[n - 1]]
  <2>1. ASSUME NEW n \in 1..N, NEW p \in Dense
        PROVE  Turn(n, p) \in Dense /\ Packed(Turn(n, p)) = [Packed(p) EXCEPT ![n - 1] =
                                                        IF values[n - 1] = 0 THEN @ ELSE values[n - 1]]
    <3>1. CASE values[n - 1] = 0
      BY <3>1 DEF Packed
    <3>2. CASE values[n - 1] # 0
      BY <1>3, <3>2, PackedSet
    <3>3. QED
      BY <3>1, <3>2
  <2>2. QED
    BY <2>1
<1>5. \A f : Recursion(f) => f[0] = NoBits /\ \A n \in 1..N : f[n] = Turn(n, f[n - 1])
  BY <1>1
<1> HIDE DEF Turn
<1>6. G \in Steps(Dense)
  <2>1. \A n \in Nat : \A p \in Dense : Next(n, p) \in Dense
    BY <1>4
  <2> HIDE DEF Next
  <2>2. QED
    BY <2>1 DEF Steps
<1>7. \A n \in 1..N : \A p \in Dense : G[n][p] = Turn(n, p)
  BY <1>1
<1> HIDE DEF G
<1>8. PICK f : Iterates(f, Dense, NoBits, G, N)
  BY <1>1, <1>6, PackedZero, Iterated
<1>9. f \in [0..N -> Dense] /\ f[0] = NoBits /\ \A n \in 1..N : f[n] = Turn(n, f[n - 1])
  <2>1. f \in [0..N -> Dense] /\ f[0] = NoBits /\ \A n \in 1..N : f[n] = G[n][f[n - 1]]
    BY <1>8 DEF Iterates
  <2>2. \A n \in 1..N : f[n - 1] \in Dense
    <3>1. \A n \in 1..N : n - 1 \in 0..N
      BY <1>1
    <3>2. QED
      BY <2>1, <3>1
  <2>3. QED
    BY <1>7, <2>1, <2>2
<1>10. Recursion(f)
  <2>1. \A n \in 0..N : f[n] = IF n = 0 THEN NoBits
                               ELSE IF values[n - 1] = 0 THEN f[n - 1]
                               ELSE HLL_DENSE_SET_REGISTER(f[n - 1], n - 1, BitsOf(values[n - 1]))
    BY <1>1, <1>9 DEF Turn
  <2>2. f = [n \in 0..N |-> f[n]]
    BY <1>9
  <2>3. QED
    BY <2>1, <2>2
<1>11. dense[0] = NoBits /\ \A n \in 1..N : dense[n] = Turn(n, dense[n - 1])
  <2>1. Recursion(dense)
    <3> HIDE DEF Recursion
    <3>1. QED
      BY <1>10
  <2> HIDE DEF dense, Recursion
  <2>2. QED
    BY <1>5, <2>1
<1> HIDE DEF dense, Recursion
<1> DEFINE Read(n) == [r \in Regs |-> IF r < n THEN values[r] ELSE 0]
           Q == {n \in Nat : n <= N => dense[n] \in Dense /\ Packed(dense[n]) = Read(n)}
<1>12. Q \in SUBSET Nat /\ 0 \in Q
  <2>1. Read(0) = NoRegs
    BY <1>1 DEF NoRegs
  <2> HIDE DEF Read
  <2>2. QED
    BY <1>11, <2>1, PackedZero
<1>13. ASSUME NEW n \in Nat, n \in Q
       PROVE  n + 1 \in Q
  <2>1. ASSUME n + 1 <= N
        PROVE  dense[n + 1] \in Dense /\ Packed(dense[n + 1]) = Read(n + 1)
    <3>1. n + 1 \in 1..N /\ (n + 1) - 1 = n /\ n <= N /\ n \in Regs
      BY <1>1, <2>1
    <3>2. dense[n] \in Dense /\ Packed(dense[n]) = Read(n)
      BY <1>13, <3>1
    <3>3. dense[n + 1] = Turn(n + 1, dense[n])
      BY <1>11, <3>1
    <3>4. dense[n + 1] \in Dense
          /\ Packed(dense[n + 1]) = [Read(n) EXCEPT ![n] = IF values[n] = 0 THEN @ ELSE values[n]]
      BY <1>4, <3>1, <3>2, <3>3
    <3>5. [Read(n) EXCEPT ![n] = IF values[n] = 0 THEN @ ELSE values[n]] = Read(n + 1)
      <4>1. \A r \in Regs : r < n + 1 <=> r < n \/ r = n
        BY <1>1
      <4>2. ~(n < n)
        OBVIOUS
      <4>3. QED
        BY <3>1, <4>1, <4>2
    <3>6. QED
      BY <3>4, <3>5
  <2>2. QED
    BY <2>1
<1>14. Q = Nat
  <2> HIDE DEF Q
  <2>1. QED
    BY <1>12, <1>13, Induction
<1>15. dense[N] \in Dense /\ Packed(dense[N]) = Read(N)
  BY <1>1, <1>14
<1>16. Read(N) = values
  BY <1>1 DEF RegValues
<1>17. QED
  BY <1>2, <1>15, <1>16

\* The registers below an end that have a value.
Having(regs, end, v) == {r \in 0..(end - 1) : regs[r] = v}

Grown(regs, a, b, val, v) ==
  /\ IsFiniteSet(Having(regs, a, v)) /\ IsFiniteSet(Having(regs, b, v))
  /\ Cardinality(Having(regs, a, v)) \in Nat
  /\ Cardinality(Having(regs, b, v)) =
       Cardinality(Having(regs, a, v)) + IF val = v THEN b - a ELSE 0

\* A run of registers adds its length to the number that have its value.
LEMMA RunAdds ==
  ASSUME NEW regs, NEW a \in Nat, NEW b \in Nat, a <= b, NEW val, Holds(regs, a, b, val), NEW v
  PROVE  Grown(regs, a, b, val, v)
<1> DEFINE A == Having(regs, a, v)
           B == Having(regs, b, v)
           R == a..(b - 1)
<1>1. IsFiniteSet(A) /\ IsFiniteSet(B)
  <2>1. \A n \in Nat : IsFiniteSet(Having(regs, n, v))
    <3>1. ASSUME NEW n \in Nat
          PROVE  IsFiniteSet(Having(regs, n, v))
      <4>1. IsFiniteSet(0..(n - 1))
        BY FS_Interval
      <4>2. Having(regs, n, v) \in SUBSET (0..(n - 1))
        BY DEF Having
      <4>3. QED
        BY <4>1, <4>2, FS_Subset
    <3>2. QED
      BY <3>1
  <2>2. QED
    BY <2>1
<1>2. Cardinality(A) \in Nat
  BY <1>1, FS_CardinalityType
<1>3. \A r \in 0..(b - 1) : r \in 0..(a - 1) \/ r \in R
  OBVIOUS
<1>4. \A r \in R : r \in 0..(b - 1) /\ r \notin 0..(a - 1) /\ regs[r] = val
  BY DEF Holds
<1>5. \A r \in 0..(a - 1) : r \in 0..(b - 1)
  OBVIOUS
<1>6. CASE val # v
  <2>1. A = B
    BY <1>3, <1>4, <1>5, <1>6 DEF Having
  <2>2. QED
    BY <1>1, <1>2, <1>6, <2>1 DEF Grown
<1>7. CASE val = v
  <2>1. B = A \cup R /\ A \cap R = {}
    BY <1>3, <1>4, <1>5, <1>7 DEF Having
  <2>2. IsFiniteSet(R) /\ Cardinality(R) = b - a
    <3> DEFINE c == b - 1
    <3>1. c \in Int /\ a \in Int
      OBVIOUS
    <3> HIDE DEF c
    <3>2. IsFiniteSet(a..c) /\ Cardinality(a..c) = IF a > c THEN 0 ELSE c - a + 1
      BY <3>1, FS_Interval
    <3>3. QED
      BY <3>2 DEF c
  <2>3. Cardinality(A \cap R) = 0
    BY <2>1, FS_EmptySet
  <2>4. Cardinality(B) = Cardinality(A) + Cardinality(R) - Cardinality(A \cap R)
    BY <1>1, <2>1, <2>2, FS_Union
  <2>5. QED
    BY <1>1, <1>2, <1>7, <2>2, <2>3, <2>4 DEF Grown
<1>8. QED
  BY <1>6, <1>7

\* hllSparseSum(): the lengths of the runs of a value are the number of
\* registers that have it.
LEMMA RunsOfValue ==
  ASSUME NEW ops \in Seq(Opcode), NEW n \in Nat, NEW regs, Reads(ops, 0, n, regs), NEW v
  PROVE  Sums([k \in 1..Len(ops) |-> IF ops[k].val = v THEN ops[k].len ELSE 0])[Len(ops)]
           = Cardinality(Having(regs, n, v))
<1> DEFINE s == [k \in 1..Len(ops) |-> IF ops[k].val = v THEN ops[k].len ELSE 0]
           N == Len(ops)
           f == Sums(s)
           e == Ends(ops)
           size(k) == Cardinality(Having(regs, e[k], v))
           Q == {k \in Nat : k <= N => f[k] = size(k)}
<1>1. s \in Seq(Nat) /\ Len(s) = N /\ N \in Nat
  <2>1. \A k \in 1..N : ops[k] \in Opcode
    OBVIOUS
  <2>2. \A k \in 1..N : s[k] \in Nat
    BY <2>1, OpcodeFields
  <2>3. QED
    BY <2>2
<1>2. f[0] = 0 /\ \A k \in 1..N : f[k] = f[k - 1] + s[k]
  BY <1>1, SumsAre
<1>3. /\ e \in [0..N -> Nat] /\ e[0] = 0
      /\ \A k \in 1..N : e[k] = e[k - 1] + ops[k].len /\ ops[k].len \in Nat
  <2>1. \A k \in 1..N : ops[k] \in Opcode
    OBVIOUS
  <2>2. QED
    BY <2>1, EndsAre, OpcodeFields
<1>4. e[N] = n
  <2>1. n = 0 + Covered(ops) /\ Covered(ops) \in Nat
    BY EndsAre DEF Reads
  <2>2. QED
    BY <2>1 DEF Covered
<1>5. \A k \in 1..N : Holds(regs, e[k - 1], e[k], ops[k].val)
  <2>1. \A k \in 1..N : Holds(regs, 0 + e[k - 1], 0 + e[k], ops[k].val)
    BY DEF Reads
  <2>2. \A k \in 1..N : e[k - 1] \in Nat /\ e[k] \in Nat
    <3>1. \A k \in 1..N : k - 1 \in 0..N /\ k \in 0..N
      BY <1>1
    <3> HIDE DEF e
    <3>2. QED
      BY <1>3, <3>1
  <2>3. \A x \in Nat : 0 + x = x
    OBVIOUS
  <2> HIDE DEF e
  <2>4. QED
    BY <2>1, <2>2, <2>3
<1>6. \A k \in 1..N : s[k] = IF ops[k].val = v THEN ops[k].len ELSE 0
  OBVIOUS
<1> HIDE DEF f, e, s
<1>7. Q \in SUBSET Nat /\ 0 \in Q
  <2>1. Having(regs, 0, v) = {}
    BY DEF Having
  <2>2. size(0) = 0
    BY <1>3, <2>1, FS_EmptySet
  <2>3. f[0] = size(0)
    BY <1>2, <2>2
  <2> HIDE DEF size
  <2>4. QED
    BY <2>3
<1>8. ASSUME NEW k \in Nat, k \in Q
      PROVE  k + 1 \in Q
  <2>1. SUFFICES ASSUME k + 1 <= N
                 PROVE  f[k + 1] = size(k + 1)
    OBVIOUS
  <2>2. k + 1 \in 1..N /\ (k + 1) - 1 = k /\ k \in 0..N /\ k <= N
    BY <1>1, <2>1
  <2> DEFINE o == ops[k + 1]
             a == e[k]
             b == e[k + 1]
  <2>3. a \in Nat /\ b \in Nat /\ b = a + o.len /\ o.len \in Nat /\ Holds(regs, a, b, o.val)
    BY <1>3, <1>5, <2>2
  <2>4. f[k] = size(k)
    BY <1>8, <2>2
  <2>5. f[k + 1] = f[k] + IF o.val = v THEN o.len ELSE 0
    BY <1>2, <1>6, <2>2
  <2>6. f[k] = Cardinality(Having(regs, a, v))
    BY <2>4
  <2> DEFINE w == o.val
  <2> HIDE DEF a, b, w, o, size
  <2>7. a <= b /\ b - a = o.len /\ Holds(regs, a, b, w)
    BY <2>3 DEF w
  <2>8. Cardinality(Having(regs, b, v)) =
          Cardinality(Having(regs, a, v)) + IF w = v THEN b - a ELSE 0
    <3>1. Grown(regs, a, b, w, v)
      BY <2>3, <2>7, RunAdds
    <3>2. QED
      BY <3>1 DEF Grown
  <2>9. f[k + 1] = Cardinality(Having(regs, b, v))
    BY <2>5, <2>6, <2>7, <2>8 DEF w
  <2>10. QED
    BY <2>9 DEF size, b
<1>9. Q = Nat
  <2> HIDE DEF Q
  <2>1. QED
    BY <1>7, <1>8, Induction
<1>10. f[N] = size(N)
  BY <1>1, <1>9
<1>11. QED
  BY <1>4, <1>10 DEF f, s

\* Both representations have the histogram of the registers they stand for.
LEMMA SparseHistogram ==
  ASSUME NEW ops \in Seq(Opcode), NEW regs \in RegValues, Reads(ops, 0, HLL_REGISTERS, regs)
  PROVE  hllSparseSum(ops) = Histogram(regs)
<1> DEFINE N == Len(ops)
           e == Ends(ops)
           Total(v) == Sums([k \in 1..N |-> IF ops[k].val = v THEN ops[k].len ELSE 0])[N]
           size(v) == Cardinality({r \in Regs : regs[r] = v})
<1>1. HLL_REGISTERS \in Nat /\ Regs = 0..(HLL_REGISTERS - 1)
  BY Powers, PAssumption DEF HLL_REGISTERS, Regs
<1>2. \A v : Total(v) = size(v)
  <2>1. ASSUME NEW v
        PROVE  Total(v) = Cardinality(Having(regs, HLL_REGISTERS, v))
    BY <1>1, RunsOfValue
  <2>2. \A v : Having(regs, HLL_REGISTERS, v) = {r \in Regs : regs[r] = v}
    BY <1>1 DEF Having
  <2> HIDE DEF Total
  <2>3. QED
    BY <2>1, <2>2
<1>3. {ops[k].val : k \in 1..N} = {regs[r] : r \in Regs}
  <2>1. ASSUME NEW k \in 1..N
        PROVE  \E r \in Regs : regs[r] = ops[k].val
    <3>1. ops[k] \in Opcode /\ k - 1 \in 0..N /\ k \in 0..N /\ N \in 0..N /\ k <= N
      OBVIOUS
    <3>2. /\ e[k - 1] \in Nat /\ e[k] \in Nat /\ e[k] = e[k - 1] + ops[k].len
          /\ e[k] <= e[N] /\ ops[k].len \in Nat \ {0}
      BY <3>1, EndsAre, OpcodeFields
    <3>3. e[N] = HLL_REGISTERS
      BY <1>1, EndsAre DEF Reads, Covered
    <3>4. Holds(regs, e[k - 1], e[k], ops[k].val)
      <4>1. Holds(regs, 0 + e[k - 1], 0 + e[k], ops[k].val)
        BY DEF Reads
      <4>2. 0 + e[k - 1] = e[k - 1] /\ 0 + e[k] = e[k]
        BY <3>2
      <4>3. QED
        BY <4>1, <4>2
    <3> DEFINE a == e[k - 1]
               b == e[k]
               l == ops[k].len
    <3>5. a \in Nat /\ b = a + l /\ l \in Nat \ {0} /\ b <= HLL_REGISTERS
      BY <3>2, <3>3
    <3> HIDE DEF e, a, b, l
    <3>6. a \in Regs /\ a \in a..(b - 1)
      BY <1>1, <3>5
    <3>7. QED
      BY <3>4, <3>6 DEF Holds, a, b
  <2>2. ASSUME NEW r \in Regs
        PROVE  \E k \in 1..N : regs[r] = ops[k].val
    <3>1. r \in 0..(HLL_REGISTERS - 1)
      BY <1>1
    <3>2. regs[r] = ops[Locate(ops, r)].val
      BY <1>1, <3>1, ValueRead
    <3>3. HLL_REGISTERS = Covered(ops)
      BY <1>1, EndsAre DEF Reads
    <3>4. Locate(ops, r) \in 1..N
      BY <1>1, <3>1, <3>3, Located
    <3>5. QED
      BY <3>2, <3>4
  <2>3. QED
    BY <2>1, <2>2
<1>4. hllSparseSum(ops) = {<<v, Total(v)>> : v \in {ops[k].val : k \in 1..N}}
  BY DEF hllSparseSum
<1>5. Histogram(regs) = {<<v, size(v)>> : v \in {regs[r] : r \in Regs}}
  BY DEF Histogram
<1> HIDE DEF Total, size
<1>6. QED
  BY <1>2, <1>3, <1>4, <1>5

LEMMA DenseHistogram ==
  ASSUME NEW p \in Dense
  PROVE  hllDenseSum(p) = Histogram(Packed(p))
<1>1. \A r \in Regs : SummedRegister(p, r) = HLL_DENSE_GET_REGISTER(p, r)
  BY SumSeesRegisters
<1>2. [r \in Regs |-> NumberOf(SummedRegister(p, r), HLL_BITS)] = Packed(p)
  BY <1>1 DEF Packed
<1>3. QED
  BY <1>2 DEF hllDenseSum

----------------------------------------------------------------------------
\* Registers one more element should leave.
Raised(regs, e) == [regs EXCEPT ![e.index] = Larger(@, e.count)]

LEMMA RaisedFits ==
  ASSUME NEW regs \in RegValues, NEW e \in Counts
  PROVE  /\ Raised(regs, e) \in RegValues
         /\ e.index \in Regs /\ e.count \in 1..63 /\ regs[e.index] \in 0..63
         /\ e.count > regs[e.index] => Raised(regs, e) = [regs EXCEPT ![e.index] = e.count]
         /\ ~(e.count > regs[e.index]) => Raised(regs, e) = regs
<1>1. e.index \in Regs /\ e.count \in 1..63
  BY DEF Counts
<1>2. regs[e.index] \in 0..63
  BY <1>1 DEF RegValues
<1>3. e.count > regs[e.index] => Raised(regs, e) = [regs EXCEPT ![e.index] = e.count]
  <2>1. \A x \in 0..63 : \A y \in 1..63 : y > x => Larger(x, y) = y
    BY DEF Larger
  <2>2. QED
    BY <1>1, <1>2, <2>1 DEF Raised, RegValues
<1>4. ~(e.count > regs[e.index]) => Raised(regs, e) = regs
  <2>1. \A x \in 0..63 : \A y \in 1..63 : ~(y > x) => Larger(x, y) = x
    BY DEF Larger
  <2>2. QED
    BY <1>1, <1>2, <2>1 DEF Raised, RegValues
<1>5. Raised(regs, e) \in RegValues
  <2>1. Larger(regs[e.index], e.count) \in 0..63
    BY <1>1, <1>2 DEF Larger
  <2>2. QED
    BY <2>1 DEF Raised, RegValues
<1>6. QED
  BY <1>1, <1>2, <1>3, <1>4, <1>5

\* The registers a hyperloglog stands for are the ones RegistersOf() reads.
LEMMA ReadBack ==
  ASSUME NEW regs \in RegValues, NEW h, StandsFor(h, regs)
  PROVE  RegistersOf(h) = regs
<1>1. h \in Hyperloglogs /\ Encodes(h, regs)
  BY DEF StandsFor
<1>2. CASE h.encoding = "dense"
  BY <1>1, <1>2 DEF Encodes, RegistersOf, Packed
<1>3. CASE h.encoding # "dense"
  <2>1. h.ops \in Seq(Opcode)
    BY <1>1 DEF Hyperloglogs
  <2>2. Reads(h.ops, 0, HLL_REGISTERS, regs)
    BY <1>1, <1>3 DEF Encodes
  <2>3. regs \in [Regs -> Nat]
    BY DEF RegValues
  <2>4. Values(h.ops) = regs
    BY <2>1, <2>2, <2>3, ValuesAre
  <2>5. QED
    BY <1>3, <2>4 DEF RegistersOf
<1>4. QED
  BY <1>2, <1>3

\* hllSparseToDense()
LEMMA ToDense ==
  ASSUME NEW regs \in RegValues, NEW h, StandsFor(h, regs)
  PROVE  LET d == hllSparseToDense(h)
         IN  /\ StandsFor(d, regs) /\ d.encoding = "dense"
             /\ d.dense \in Dense /\ Packed(d.dense) = regs
             /\ d.card = h.card /\ d.owned = h.owned
<1>1. h \in Hyperloglogs /\ h.sound /\ Encodes(h, regs)
  BY DEF StandsFor
<1>2. CASE h.encoding = "dense"
  <2>1. hllSparseToDense(h) = h
    BY <1>2 DEF hllSparseToDense
  <2>2. h.dense \in Dense /\ Packed(h.dense) = regs
    BY <1>1, <1>2 DEF Encodes, Hyperloglogs
  <2>3. QED
    BY <1>2, <2>1, <2>2
<1>3. CASE h.encoding # "dense"
  <2>1. h.ops \in Seq(Opcode) /\ Reads(h.ops, 0, HLL_REGISTERS, regs)
    BY <1>1, <1>3 DEF Encodes, Hyperloglogs
  <2>2. Covered(h.ops) = HLL_REGISTERS
    <3>1. HLL_REGISTERS = 0 + Covered(h.ops) /\ Covered(h.ops) \in Nat
      BY <2>1, EndsAre DEF Reads
    <3>2. QED
      BY <3>1
  <2>3. Values(h.ops) = regs
    <3>1. regs \in [Regs -> Nat]
      BY DEF RegValues
    <3>2. QED
      BY <2>1, <3>1, ValuesAre
  <2>4. DenseFrom(regs) \in Dense /\ Packed(DenseFrom(regs)) = regs
    BY DenseFromValues
  <2> DEFINE q == DenseFrom(regs)
             d == [h EXCEPT !.encoding = "dense", !.ops = <<>>, !.dense = q]
  <2>5. hllSparseToDense(h) = d
    BY <1>3, <2>2, <2>3 DEF hllSparseToDense
  <2>6. /\ d \in Hyperloglogs /\ d.encoding = "dense" /\ d.dense = q
        /\ d.sound = h.sound /\ d.card = h.card /\ d.owned = h.owned
    <3> HIDE DEF q
    <3>1. q \in Dense
      BY <2>4 DEF q
    <3>2. <<>> \in Seq(Opcode)
      OBVIOUS
    <3>3. QED
      BY <1>1, <3>1, <3>2 DEF Hyperloglogs
  <2> HIDE DEF d
  <2>7. QED
    BY <1>1, <2>4, <2>5, <2>6 DEF StandsFor, Encodes
<1>4. QED
  BY <1>2, <1>3

\* hllDenseAdd()
LEMMA DenseAdds ==
  ASSUME NEW regs \in RegValues, NEW h, StandsFor(h, regs), h.encoding = "dense",
         NEW e \in Counts
  PROVE  LET a == hllDenseAdd(h, e)
         IN  /\ StandsFor(a, Raised(regs, e)) /\ a.encoding = "dense"
             /\ e.count > regs[e.index] => a.dense # h.dense
<1>1. h \in Hyperloglogs /\ h.sound /\ h.dense \in Dense /\ Packed(h.dense) = regs
  BY DEF StandsFor, Encodes, Hyperloglogs
<1>2. e.index \in Regs /\ e.count \in 1..63 /\ e.count \in 0..63 /\ regs[e.index] \in 0..63
  BY RaisedFits
<1>3. NumberOf(HLL_DENSE_GET_REGISTER(h.dense, e.index), HLL_BITS) = regs[e.index]
  BY <1>1, <1>2 DEF Packed
<1>4. CASE e.count > regs[e.index]
  <2> DEFINE q == HLL_DENSE_SET_REGISTER(h.dense, e.index, BitsOf(e.count))
             a == [h EXCEPT !.dense = q]
  <2>1. q \in Dense /\ Packed(q) = [Packed(h.dense) EXCEPT ![e.index] = e.count]
    <3> DEFINE p == h.dense
               r == e.index
               n == e.count
    <3>1. p \in Dense /\ r \in Regs /\ n \in 0..63
      BY <1>1, <1>2
    <3> HIDE DEF p, r, n
    <3>2. /\ HLL_DENSE_SET_REGISTER(p, r, BitsOf(n)) \in Dense
          /\ Packed(HLL_DENSE_SET_REGISTER(p, r, BitsOf(n))) = [Packed(p) EXCEPT ![r] = n]
      BY <3>1, PackedSet
    <3>3. QED
      BY <3>2 DEF p, r, n
  <2>2. hllDenseAdd(h, e) = a
    BY <1>3, <1>4 DEF hllDenseAdd
  <2> HIDE DEF q
  <2>3. a \in Hyperloglogs /\ a.sound = h.sound /\ a.encoding = "dense" /\ a.dense = q
    BY <1>1, <2>1 DEF Hyperloglogs
  <2> HIDE DEF a
  <2>4. Packed(q) = Raised(regs, e)
    BY <1>1, <1>4, <2>1, RaisedFits
  <2>5. q # h.dense
    <3>1. Packed(q)[e.index] = e.count
      BY <1>1, <1>2, <2>1 DEF RegValues
    <3>2. Packed(h.dense)[e.index] # e.count
      BY <1>1, <1>2, <1>4
    <3>3. QED
      BY <3>1, <3>2
  <2>6. QED
    BY <1>1, <2>2, <2>3, <2>4, <2>5 DEF StandsFor, Encodes
<1>5. CASE ~(e.count > regs[e.index])
  <2>1. hllDenseAdd(h, e) = h
    BY <1>3, <1>5 DEF hllDenseAdd
  <2>2. Raised(regs, e) = regs
    BY <1>5, RaisedFits
  <2>3. QED
    BY <1>5, <2>1, <2>2
<1>6. QED
  BY <1>4, <1>5

\* A promotion always adds: its assertion holds.
LEMMA Promotes ==
  ASSUME NEW regs \in RegValues, NEW h, StandsFor(h, regs), NEW e \in Counts,
         e.count > regs[e.index]
  PROVE  StandsFor(Promote(h, e), Raised(regs, e))
<1> DEFINE d == hllSparseToDense(h)
           a == hllDenseAdd(d, e)
           b == [a EXCEPT !.sound = @ /\ a.dense # d.dense]
<1>1. StandsFor(d, regs) /\ d.encoding = "dense"
  BY ToDense
<1>2. Promote(h, e) = b
  BY <1>1 DEF Promote
<1> HIDE DEF d
<1>3. StandsFor(a, Raised(regs, e)) /\ a.encoding = "dense" /\ a.dense # d.dense
  BY <1>1, DenseAdds
<1> HIDE DEF a
<1>4. a \in Hyperloglogs /\ a.sound
  BY <1>3 DEF StandsFor
<1>5. b = a
  <2>1. a.sound = TRUE
    BY <1>4 DEF Hyperloglogs
  <2>2. (a.sound /\ a.dense # d.dense) = TRUE
    BY <1>3, <2>1
  <2>3. QED
    BY <1>4, <2>1, <2>2 DEF Hyperloglogs
<1>6. QED
  BY <1>2, <1>3, <1>5

\* hllSparseAdd(): in place, or by a promotion.
LEMMA SparseAdds ==
  ASSUME NEW regs \in RegValues, NEW h, StandsFor(h, regs), h.encoding # "dense",
         NEW e \in Counts
  PROVE  StandsFor(hllSparseAdd(h, e), Raised(regs, e))
<1> DEFINE ops == h.ops
           i == e.index
           c == e.count
           k == Locate(ops, i)
           o == ops[k]
           seq == Split(o, First(ops, k), i, c)
           delta == SparseLen(seq) - OpBytes(o)
           from == IF k = 1 THEN 1 ELSE k - 1
           new == MergeAdjacent(SubSeq(ops, 1, k - 1) \o seq \o SubSeq(ops, k + 1, Len(ops)), from)
           result == [h EXCEPT !.ops = new, !.card = Invalid]
<1>1. /\ h \in Hyperloglogs /\ h.sound /\ ops \in Seq(Opcode)
      /\ Reads(ops, 0, HLL_REGISTERS, regs)
      /\ SparseLen(ops) <= HLL_SPARSE_MAX_BYTES + 3
  BY DEF StandsFor, Encodes, Hyperloglogs
<1>2. i \in Regs /\ c \in 1..63 /\ regs[i] \in 0..63
  BY RaisedFits
<1>3. HLL_REGISTERS \in Nat /\ Regs = 0..(HLL_REGISTERS - 1)
  BY Powers, PAssumption DEF HLL_REGISTERS, Regs
<1>4. HLL_REGISTERS = Covered(ops)
  BY <1>1, EndsAre DEF Reads
<1>5. k \in 1..Len(ops) /\ regs[i] = o.val
  <2>1. i \in 0..(HLL_REGISTERS - 1)
    BY <1>2, <1>3
  <2> HIDE DEF ops, i
  <2>2. k \in 1..Len(ops)
    BY <1>1, <1>3, <1>4, <2>1, Located
  <2>3. regs[i] = o.val
    BY <1>1, <1>3, <2>1, ValueRead
  <2>4. QED
    BY <2>2, <2>3
<1>6. o \in Opcode /\ from \in Nat \ {0}
  BY <1>1, <1>5
<1>7. /\ o.val \in Nat /\ o.val <= HLL_SPARSE_VAL_MAX_VALUE /\ (o.op # "val" => o.val = 0)
      /\ HLL_SPARSE_VAL_MAX_VALUE \in Nat
  <2>1. HLL_SPARSE_VAL_MAX_VALUE \in Nat
    BY HllAssumption, SixBitNumbers
  <2> HIDE DEF o
  <2>2. QED
    BY <1>6, <2>1, OpcodeFields
<1>8. /\ c > HLL_SPARSE_VAL_MAX_VALUE => c > regs[i]
      /\ o.op = "val" /\ o.val >= c => ~(c > regs[i])
      /\ ~(o.op = "val" /\ o.val >= c) => c > regs[i]
      /\ ~(c > HLL_SPARSE_VAL_MAX_VALUE) => c \in 1..HLL_SPARSE_VAL_MAX_VALUE
  <2> DEFINE g == regs[i]
             v == o.val
             isVal == o.op = "val"
  <2>1. /\ c \in 1..63 /\ g = v /\ v \in Nat /\ v <= HLL_SPARSE_VAL_MAX_VALUE
        /\ HLL_SPARSE_VAL_MAX_VALUE \in Nat /\ (~isVal => v = 0)
    BY <1>2, <1>5, <1>7
  <2> HIDE DEF g, v, isVal, c
  <2>2. /\ c > HLL_SPARSE_VAL_MAX_VALUE => c > g
        /\ isVal /\ v >= c => ~(c > g)
        /\ ~(isVal /\ v >= c) => c > g
        /\ ~(c > HLL_SPARSE_VAL_MAX_VALUE) => c \in 1..HLL_SPARSE_VAL_MAX_VALUE
    BY <2>1
  <2>3. QED
    BY <2>2 DEF g, v, isVal
<1>9. hllSparseAdd(h, e) =
        IF c > HLL_SPARSE_VAL_MAX_VALUE THEN Promote(h, e)
        ELSE IF o.op = "val" /\ o.val >= c THEN h
        ELSE IF Overfull(h, delta) THEN Promote(h, e)
        ELSE result
  BY DEF hllSparseAdd
<1>10. Overfull(h, delta) <=> delta > 0 /\ SparseLen(ops) > HLL_SPARSE_MAX_BYTES
  BY DEF Overfull
<1>11. c > regs[i] => StandsFor(Promote(h, e), Raised(regs, e))
  BY Promotes
<1>12. CASE o.op = "val" /\ o.val >= c /\ ~(c > HLL_SPARSE_VAL_MAX_VALUE)
  <2>1. hllSparseAdd(h, e) = h
    BY <1>9, <1>12
  <2>2. ~(c > regs[i])
    BY <1>8, <1>12
  <2>3. Raised(regs, e) = regs
    BY <2>2, RaisedFits
  <2>4. QED
    BY <2>1, <2>3
<1>13. CASE c > HLL_SPARSE_VAL_MAX_VALUE
  <2>1. hllSparseAdd(h, e) = Promote(h, e)
    BY <1>9, <1>13
  <2>2. c > regs[i]
    BY <1>8, <1>13
  <2>3. QED
    BY <1>11, <2>1, <2>2
<1>14. CASE ~(c > HLL_SPARSE_VAL_MAX_VALUE) /\ ~(o.op = "val" /\ o.val >= c)
  <2>1. c > regs[i]
    BY <1>8, <1>14
  <2>2. CASE Overfull(h, delta)
    <3>1. hllSparseAdd(h, e) = Promote(h, e)
      BY <1>9, <1>14, <2>2
    <3>2. QED
      BY <1>11, <2>1, <3>1
  <2>3. CASE ~Overfull(h, delta)
    <3>1. hllSparseAdd(h, e) = result
      BY <1>9, <1>14, <2>3
    <3>2. Updated(ops, i, c, k, seq, delta, from, new)
      BY <1>10, <2>3 DEF Updated
    <3> DEFINE other == Raised(regs, e)
    <3>3. other = [regs EXCEPT ![i] = c]
      BY <2>1, RaisedFits
    <3>4. SetAt(other, regs, 0, HLL_REGISTERS, i, c)
      BY <1>2, <1>3, <3>3 DEF SetAt, RegValues
    <3>5. i \in 0..(HLL_REGISTERS - 1) /\ c \in 1..HLL_SPARSE_VAL_MAX_VALUE
      <4> HIDE DEF i, c
      <4>1. QED
        BY <1>2, <1>3, <1>8, <1>14
    <3> HIDE DEF k, seq, delta, from, new, other
    <3> HIDE DEF ops, i, c, o
    <3>6. /\ new \in Seq(Opcode) /\ Reads(new, 0, HLL_REGISTERS, other)
          /\ SparseLen(new) <= HLL_SPARSE_MAX_BYTES + 3
      BY <1>1, <1>3, <1>6, <3>2, <3>4, <3>5, SparseSets
    <3>7. Invalid \in Seq(SUBSET ((0..63) \X Nat))
      BY DEF Invalid
    <3>8. /\ result \in Hyperloglogs /\ result.sound = h.sound /\ result.ops = new
          /\ result.encoding # "dense" /\ result.owned = h.owned
      BY <1>1, <3>6, <3>7 DEF Hyperloglogs
    <3> HIDE DEF result
    <3>9. h.owned
      BY DEF StandsFor
    <3>10. QED
      BY <1>1, <3>1, <3>6, <3>8, <3>9 DEF StandsFor, Encodes, other
  <2>4. QED
    BY <2>2, <2>3
<1>15. QED
  BY <1>12, <1>13, <1>14

\* hllAdd(): the registers are those one more element should leave, and an
\* estimate that is kept is still right, because nothing changed.
LEMMA AddRepresents ==
  ASSUME NEW regs \in RegValues, NEW h, Represents(h, regs),
         NEW hash \in SUBSET (0..(HashBits - 1))
  PROVE  Represents(hllAdd(h, hash), ExactAdd(regs, hash)) /\ ExactAdd(regs, hash) \in RegValues
<1> DEFINE e == hllPatLen(hash)
           other == Raised(regs, e)
           new == IF h.encoding = "dense" THEN hllDenseAdd(h, e) ELSE hllSparseAdd(h, e)
           result == [new EXCEPT !.card = Invalid]
<1>1. e \in Counts
  BY PatLenFits
<1>2. ExactAdd(regs, hash) = other
  BY DEF ExactAdd, Raised
<1>3. hllAdd(h, hash) = IF new = h THEN h ELSE result
  BY DEF hllAdd
<1> HIDE DEF e
<1>4. other \in RegValues
  BY <1>1, RaisedFits
<1>5. StandsFor(h, regs)
  BY DEF Represents
<1>6. StandsFor(new, other)
  <2>1. CASE h.encoding = "dense"
    BY <1>1, <1>5, <2>1, DenseAdds
  <2>2. CASE h.encoding # "dense"
    BY <1>1, <1>5, <2>2, SparseAdds
  <2>3. QED
    BY <2>1, <2>2
<1> HIDE DEF new, other
<1>7. CASE new = h
  <2>1. RegistersOf(h) = regs
    BY <1>5, ReadBack
  <2>2. RegistersOf(h) = other
    BY <1>4, <1>6, <1>7, ReadBack
  <2>3. QED
    BY <1>2, <1>3, <1>4, <1>7, <2>1, <2>2
<1>8. CASE new # h
  <2>1. /\ new \in Hyperloglogs /\ new.sound /\ Encodes(new, other)
        /\ new.encoding = "dense" \/ new.owned
    BY <1>6 DEF StandsFor
  <2>2. Invalid \in Seq(SUBSET ((0..63) \X Nat))
    BY DEF Invalid
  <2>3. /\ result \in Hyperloglogs /\ result.sound = new.sound /\ result.ops = new.ops
        /\ result.encoding = new.encoding /\ result.dense = new.dense /\ result.card = Invalid
        /\ result.owned = new.owned
    BY <2>1, <2>2 DEF Hyperloglogs
  <2> HIDE DEF result
  <2>4. Represents(result, other)
    BY <2>1, <2>3 DEF Represents, StandsFor, Encodes
  <2>5. QED
    BY <1>2, <1>3, <1>4, <1>8, <2>4
<1>9. QED
  BY <1>7, <1>8

----------------------------------------------------------------------------
LEMMA HistogramTyped ==
  ASSUME NEW regs \in RegValues
  PROVE  Histogram(regs) \in SUBSET ((0..63) \X Nat)
<1>1. HLL_REGISTERS \in Nat /\ Regs = 0..(HLL_REGISTERS - 1)
  BY Powers, PAssumption DEF HLL_REGISTERS, Regs
<1>2. IsFiniteSet(Regs)
  BY <1>1, FS_Interval
<1>3. ASSUME NEW v
      PROVE  Cardinality({r \in Regs : regs[r] = v}) \in Nat
  <2>1. {r \in Regs : regs[r] = v} \in SUBSET Regs
    OBVIOUS
  <2>2. QED
    BY <1>2, <2>1, FS_Subset, FS_CardinalityType
<1>4. \A v \in {regs[r] : r \in Regs} : v \in 0..63
  BY DEF RegValues
<1> DEFINE size(v) == Cardinality({r \in Regs : regs[r] = v})
<1>5. \A v : size(v) \in Nat
  BY <1>3
<1>6. Histogram(regs) = {<<v, size(v)>> : v \in {regs[r] : r \in Regs}}
  BY DEF Histogram
<1> HIDE DEF size
<1>7. \A v \in {regs[r] : r \in Regs} : <<v, size(v)>> \in (0..63) \X Nat
  BY <1>4, <1>5
<1>8. QED
  BY <1>6, <1>7

\* Before anything is added the registers are zero, and so is the estimate.
LEMMA NoHistogram == NoRegs \in RegValues /\ Histogram(NoRegs) = {<<0, HLL_REGISTERS>>}
<1>1. HLL_REGISTERS \in Nat \ {0} /\ Regs = 0..(HLL_REGISTERS - 1)
  BY Powers, PAssumption DEF HLL_REGISTERS, Regs
<1>2. Cardinality(Regs) = HLL_REGISTERS
  <2> DEFINE R == HLL_REGISTERS
             c == R - 1
  <2>1. R \in Nat \ {0} /\ Regs = 0..c /\ c \in Int /\ 0 \in Int
    BY <1>1
  <2> HIDE DEF c
  <2>2. Cardinality(0..c) = IF 0 > c THEN 0 ELSE c - 0 + 1
    BY <2>1, FS_Interval
  <2>3. c = R - 1
    BY DEF c
  <2> HIDE DEF R
  <2>4. QED
    BY <2>1, <2>2, <2>3 DEF R
<1>3. NoRegs \in RegValues /\ \A r \in Regs : NoRegs[r] = 0
  BY DEF NoRegs, RegValues
<1>4. {NoRegs[r] : r \in Regs} = {0}
  <2>1. 0 \in Regs
    BY <1>1
  <2>2. QED
    BY <1>3, <2>1
<1>5. {r \in Regs : NoRegs[r] = 0} = Regs
  BY <1>3
<1>6. Histogram(NoRegs) = {<<v, Cardinality({r \in Regs : NoRegs[r] = v})>> : v \in {0}}
  BY <1>4 DEF Histogram
<1>7. QED
  BY <1>2, <1>3, <1>5, <1>6

\* Runs of the same length: so many times the length.
LEMMA SameLengths ==
  ASSUME NEW o \in Opcode, NEW n \in Nat
  PROVE  LET x == [i \in 1..n |-> o]
         IN  x \in Seq(Opcode) /\ Len(x) = n /\ Covered(x) = n * o.len
<1> DEFINE x == [i \in 1..n |-> o]
           e == Ends(x)
           l == o.len
           Q == {k \in Nat : k <= n => e[k] = k * l}
<1>1. x \in Seq(Opcode) /\ Len(x) = n
  OBVIOUS
<1>2. \A k \in 1..n : x[k].len = l
  OBVIOUS
<1>3. l \in Nat
  BY OpcodeFields
<1>4. e[0] = 0 /\ \A k \in 1..n : e[k] = e[k - 1] + l
  <2>1. e[0] = 0 /\ \A k \in 1..n : e[k] = e[k - 1] + x[k].len
    BY <1>1, EndsAre
  <2>2. QED
    BY <1>2, <2>1
<1> HIDE DEF x, e, l
<1>5. Q \in SUBSET Nat /\ 0 \in Q
  <2>1. 0 * l = 0
    BY <1>3
  <2>2. QED
    BY <1>4, <2>1
<1>6. ASSUME NEW k \in Nat, k \in Q
      PROVE  k + 1 \in Q
  <2>1. ASSUME k + 1 <= n
        PROVE  e[k + 1] = (k + 1) * l
    <3>1. k + 1 \in 1..n /\ (k + 1) - 1 = k /\ k <= n
      BY <2>1
    <3>2. e[k] = k * l
      BY <1>6, <3>1
    <3>3. e[k + 1] = e[k] + l
      BY <1>4, <3>1
    <3>4. (k + 1) * l = k * l + l
      BY <1>3
    <3>5. QED
      BY <3>2, <3>3, <3>4
  <2>2. QED
    BY <2>1
<1>7. Q = Nat
  <2> HIDE DEF Q
  <2>1. QED
    BY <1>5, <1>6, Induction
<1>8. Covered(x) = n * l
  <2>1. e[n] = n * l
    BY <1>7
  <2>2. QED
    BY <1>1, <2>1 DEF Covered, e
<1>9. QED
  BY <1>1, <1>8 DEF x, l

\* hllInit(): the runs of zeroes cover the registers.
LEMMA InitCovers ==
  hllInit.ops \in Seq(Opcode) /\ Covered(hllInit.ops) = HLL_REGISTERS
    /\ \A k \in 1..Len(hllInit.ops) : hllInit.ops[k].val = 0
<1> DEFINE M == HLL_SPARSE_XZERO_MAX_LEN
           R == HLL_REGISTERS
           full == R \div M
           rest == R % M
           x == [i \in 1..full |-> XZERO(M)]
           y == IF rest > 0 THEN <<XZERO(rest)>> ELSE <<>>
<1>1. hllInit.ops = x \o y
  BY DEF hllInit
<1>2. M \in Nat \ {0} /\ R \in Nat
  BY HllAssumption, Powers, PAssumption DEF HLL_REGISTERS
<1> HIDE DEF M, R
<1>3. full \in Nat /\ rest \in 0..(M - 1) /\ full * M + rest = R
  BY <1>2
<1>4. \A l \in 1..M : XZERO(l) \in Opcode /\ XZERO(l).len = l /\ XZERO(l).val = 0
  BY DEF XZERO, Opcode, M
<1> HIDE DEF full, rest
<1>5. M \in 1..M
  BY <1>2
<1>6. x \in Seq(Opcode) /\ Len(x) = full /\ Covered(x) = full * M
  <2> DEFINE o == XZERO(M)
  <2>1. o \in Opcode /\ o.len = M
    BY <1>4, <1>5
  <2> HIDE DEF o
  <2>2. [i \in 1..full |-> o] \in Seq(Opcode) /\ Len([i \in 1..full |-> o]) = full
        /\ Covered([i \in 1..full |-> o]) = full * o.len
    BY <1>3, <2>1, SameLengths
  <2>3. QED
    BY <2>1, <2>2 DEF o
<1>7. y \in Seq(Opcode) /\ Covered(y) = rest /\ \A k \in 1..Len(y) : y[k].val = 0
  <2>1. CASE rest > 0
    <3> DEFINE o == XZERO(rest)
    <3>1. o \in Opcode /\ o.len = rest /\ o.val = 0 /\ y = <<o>>
      <4>1. rest \in 1..M
        BY <1>2, <1>3, <2>1
      <4>2. QED
        BY <1>4, <2>1, <4>1
    <3> HIDE DEF o, y
    <3>2. <<o>> \in Seq(Opcode) /\ Covered(<<o>>) = o.len /\ Len(<<o>>) = 1
      BY <3>1, ReadsOne
    <3>3. QED
      BY <3>1, <3>2
  <2>2. CASE ~(rest > 0)
    BY <1>3, <2>2, ReadsNone
  <2>3. QED
    BY <2>1, <2>2
<1>8. \A k \in 1..full : x[k].val = 0
  BY <1>4, <1>5
<1> HIDE DEF x, y
<1>9. /\ x \o y \in Seq(Opcode) /\ Len(x \o y) = Len(x) + Len(y)
      /\ Covered(x \o y) = Covered(x) + Covered(y)
  BY <1>6, <1>7, EndsConcat
<1>10. \A k \in 1..Len(x \o y) : (x \o y)[k].val = 0
  <2>1. \A k \in 1..(Len(x) + Len(y)) :
          (x \o y)[k] = IF k <= Len(x) THEN x[k] ELSE y[k - Len(x)]
    BY <1>6, <1>7, Concatenated
  <2>2. ASSUME NEW k \in 1..(Len(x) + Len(y))
        PROVE  (x \o y)[k].val = 0
    <3>1. Len(x) \in Nat /\ Len(y) \in Nat
      BY <1>6, <1>7
    <3>2. CASE k <= Len(x)
      BY <1>6, <1>8, <2>1, <3>1, <3>2
    <3>3. CASE ~(k <= Len(x))
      <4>1. k - Len(x) \in 1..Len(y)
        BY <3>1, <3>3
      <4>2. QED
        BY <1>7, <2>1, <3>3, <4>1
    <3>4. QED
      BY <3>2, <3>3
  <2>3. QED
    BY <1>9, <2>2
<1>11. Covered(x \o y) = R
  BY <1>3, <1>6, <1>7, <1>9
<1>12. QED
  BY <1>1, <1>9, <1>10, <1>11 DEF R

LEMMA InitRepresents == Represents(hllInit, NoRegs)
<1> DEFINE ops == hllInit.ops
           N == Len(ops)
           e == Ends(ops)
<1>1. ops \in Seq(Opcode) /\ Covered(ops) = HLL_REGISTERS /\ \A k \in 1..N : ops[k].val = 0
  BY InitCovers
<1>2. /\ hllInit.encoding = "sparse" /\ hllInit.sound = TRUE /\ hllInit.owned = TRUE
      /\ hllInit.dense = NoBits /\ hllInit.card = <<{<<0, HLL_REGISTERS>>}>>
      /\ hllInit = [encoding |-> "sparse", ops |-> ops, dense |-> NoBits, owned |-> TRUE,
                    sound |-> TRUE, card |-> <<{<<0, HLL_REGISTERS>>}>>]
  BY DEF hllInit
<1>3. HLL_REGISTERS \in Nat /\ Regs = 0..(HLL_REGISTERS - 1)
  BY Powers, PAssumption DEF HLL_REGISTERS, Regs
<1>4. hllInit \in Hyperloglogs
  <2>1. {<<0, HLL_REGISTERS>>} \in SUBSET ((0..63) \X Nat)
    BY <1>3
  <2>2. <<{<<0, HLL_REGISTERS>>}>> \in Seq(SUBSET ((0..63) \X Nat))
    BY <2>1
  <2> HIDE DEF ops
  <2>3. QED
    BY <1>1, <1>2, <2>2, PackedZero DEF Hyperloglogs
<1>5. Reads(ops, 0, HLL_REGISTERS, NoRegs)
  <2>1. ASSUME NEW k \in 1..N
        PROVE  Holds(NoRegs, 0 + e[k - 1], 0 + e[k], ops[k].val)
    <3>1. N \in Nat /\ k - 1 \in 0..N /\ k \in 0..N /\ N \in 0..N /\ k <= N
      BY <1>1
    <3>2. e[k - 1] \in Nat /\ e[k] \in Nat /\ e[k] <= e[N] /\ e[N] = HLL_REGISTERS
      <4>1. e \in [0..N -> Nat] /\ \A m, n \in 0..N : m <= n => e[m] <= e[n]
        BY <1>1, EndsAre
      <4>2. e[N] = HLL_REGISTERS
        BY <1>1 DEF Covered
      <4> HIDE DEF e
      <4>3. QED
        BY <3>1, <4>1, <4>2
    <3> DEFINE a == e[k - 1]
               b == e[k]
    <3>3. a \in Nat /\ b \in Nat /\ b <= HLL_REGISTERS
      BY <3>2
    <3> HIDE DEF a, b, e
    <3>4. Holds(NoRegs, 0 + a, 0 + b, 0)
      BY <1>3, <3>3 DEF Holds, NoRegs
    <3>5. ops[k].val = 0
      BY <1>1
    <3>6. QED
      BY <3>4, <3>5 DEF a, b
  <2>2. HLL_REGISTERS = 0 + Covered(ops)
    BY <1>1, <1>3
  <2>3. QED
    BY <2>1, <2>2 DEF Reads
<1>6. SparseLen(ops) <= HLL_SPARSE_MAX_BYTES + 3
  BY InitFits
<1>7. hllInit.card[1] = Histogram(NoRegs)
  BY <1>2, NoHistogram
<1>8. QED
  BY <1>2, <1>4, <1>5, <1>6, <1>7 DEF Represents, StandsFor, Encodes

\* hllCount()
LEMMA CountRepresents ==
  ASSUME NEW regs \in RegValues, NEW h, Represents(h, regs)
  PROVE  /\ Represents(hllCount(h), regs)
         /\ hllCount(h).card[1] = Histogram(regs)
         /\ hllCount(h).encoding = h.encoding
<1> DEFINE sum == IF h.encoding = "dense" THEN hllDenseSum(h.dense) ELSE hllSparseSum(h.ops)
           c == [h EXCEPT !.card = <<sum>>]
<1>1. h \in Hyperloglogs /\ h.sound /\ Encodes(h, regs) /\ (h.encoding = "dense" \/ h.owned)
  BY DEF Represents, StandsFor
<1>2. CASE h.card # Invalid
  <2>1. hllCount(h) = h
    BY <1>2 DEF hllCount
  <2>2. QED
    BY <1>2, <2>1 DEF Represents
<1>3. CASE ~(h.card # Invalid)
  <2>1. hllCount(h) = c
    BY <1>3 DEF hllCount
  <2>2. sum = Histogram(regs)
    <3>1. CASE h.encoding = "dense"
      BY <1>1, <3>1, DenseHistogram DEF Encodes, Hyperloglogs
    <3>2. CASE h.encoding # "dense"
      BY <1>1, <3>2, SparseHistogram DEF Encodes, Hyperloglogs
    <3>3. QED
      BY <3>1, <3>2
  <2> HIDE DEF sum
  <2>3. <<sum>> \in Seq(SUBSET ((0..63) \X Nat))
    BY <2>2, HistogramTyped
  <2>4. /\ c \in Hyperloglogs /\ c.sound = h.sound /\ c.encoding = h.encoding /\ c.ops = h.ops
        /\ c.dense = h.dense /\ c.owned = h.owned /\ c.card[1] = sum
    BY <1>1, <2>3 DEF Hyperloglogs
  <2> HIDE DEF c
  <2>5. StandsFor(c, regs)
    BY <1>1, <2>4 DEF StandsFor, Encodes
  <2>6. QED
    BY <2>1, <2>2, <2>4, <2>5 DEF Represents
<1>4. QED
  BY <1>2, <1>3

\* hllInitFromBuffer()
LEMMA BufferRepresents ==
  ASSUME NEW p \in Dense, NEW sound, sound = TRUE
  PROVE  LET h == [hllInitFromBuffer(p) EXCEPT !.sound = sound]
         IN  /\ Represents(h, Packed(p)) /\ h.encoding = "dense" /\ Packed(p) \in RegValues
             /\ h = hllInitFromBuffer(p)
<1> DEFINE h == hllInitFromBuffer(p)
<1>1. h = [encoding |-> "dense", ops |-> <<>>, dense |-> p, owned |-> FALSE,
           sound |-> TRUE, card |-> Invalid]
  BY DEF hllInitFromBuffer
<1> HIDE DEF h
<1>2. h \in Hyperloglogs
  <2>1. <<>> \in Seq(Opcode) /\ <<>> \in Seq(SUBSET ((0..63) \X Nat))
    OBVIOUS
  <2>2. QED
    BY <1>1, <2>1 DEF Hyperloglogs, Invalid
<1>3. [h EXCEPT !.sound = sound] = h
  <2>1. h.sound = sound
    BY <1>1
  <2>2. QED
    BY <1>2, <2>1 DEF Hyperloglogs
<1>4. Represents(h, Packed(p))
  BY <1>1, <1>2 DEF Represents, StandsFor, Encodes
<1>5. Packed(p) \in RegValues
  BY SixBitNumbers DEF Packed, RegValues
<1>6. QED
  BY <1>1, <1>3, <1>4, <1>5 DEF h

\* Registers that another holds too are not smaller for it.
AtLeast(a, b) == \A r \in Regs : a[r] >= b[r]

LEMMA OrAtLeast ==
  ASSUME NEW p \in Dense, NEW q \in Dense
  PROVE  /\ BitwiseOr(p, q) \in Dense
         /\ AtLeast(Packed(BitwiseOr(p, q)), Packed(p))
         /\ AtLeast(Packed(BitwiseOr(p, q)), Packed(q))
         /\ BitwiseOr(NoBits, q) = q
<1>1. BitwiseOr(p, q) \in Dense
  BY OrMergesRegisters
<1>2. BitwiseOr(NoBits, q) = q
  BY DEF BitwiseOr, NoBits, Dense
<1>3. ASSUME NEW r \in Regs
      PROVE  /\ Packed(BitwiseOr(p, q))[r] >= Packed(p)[r]
             /\ Packed(BitwiseOr(p, q))[r] >= Packed(q)[r]
  <2> DEFINE a == HLL_DENSE_GET_REGISTER(p, r)
             b == HLL_DENSE_GET_REGISTER(q, r)
  <2>1. Packed(BitwiseOr(p, q))[r] = NumberOf(a \cup b, HLL_BITS)
    BY OrMergesRegisters DEF Packed
  <2>2. Packed(p)[r] = NumberOf(a, HLL_BITS) /\ Packed(q)[r] = NumberOf(b, HLL_BITS)
    BY DEF Packed
  <2> HIDE DEF a, b
  <2>3. /\ NumberOf(a \cup b, HLL_BITS) >= NumberOf(a, HLL_BITS)
        /\ NumberOf(a \cup b, HLL_BITS) >= NumberOf(b, HLL_BITS)
    BY SixBitNumbers
  <2>4. QED
    BY <2>1, <2>2, <2>3
<1>4. QED
  BY <1>1, <1>2, <1>3 DEF AtLeast

\* hllMerge()
LEMMA MergeRepresents ==
  ASSUME NEW regs \in RegValues, NEW h, Represents(h, regs),
         NEW other \in RegValues, NEW g, Represents(g, other)
  PROVE  /\ hllMerge(h, g).encoding = "dense"
         /\ \E all \in RegValues : /\ Represents(hllMerge(h, g), all)
                                   /\ AtLeast(all, regs) /\ AtLeast(all, other)
<1> DEFINE d == hllSparseToDense(h)
           p == d.dense
           q == hllSparseToDense(g).dense
           m == [d EXCEPT !.dense = BitwiseOr(p, q), !.card = Invalid]
<1>1. StandsFor(d, regs) /\ d.encoding = "dense" /\ p \in Dense /\ Packed(p) = regs
  BY ToDense DEF Represents
<1>2. q \in Dense /\ Packed(q) = other
  BY ToDense DEF Represents
<1>3. hllMerge(h, g) = m
  BY <1>1 DEF hllMerge, StandsFor, Hyperloglogs
<1> DEFINE o == BitwiseOr(p, q)
<1> HIDE DEF d, q
<1>4. o \in Dense /\ AtLeast(Packed(o), regs) /\ AtLeast(Packed(o), other)
  <2> HIDE DEF p
  <2>1. QED
    BY <1>1, <1>2, OrAtLeast
<1>5. /\ m \in Hyperloglogs /\ m.sound = d.sound /\ m.encoding = "dense"
      /\ m.dense = o /\ m.card = Invalid
  <2>1. <<>> \in Seq(SUBSET ((0..63) \X Nat))
    OBVIOUS
  <2>2. d \in Hyperloglogs
    BY <1>1 DEF StandsFor
  <2> HIDE DEF o
  <2>3. [d EXCEPT !.dense = o, !.card = Invalid] \in Hyperloglogs
    BY <1>4, <2>1, <2>2 DEF Hyperloglogs, Invalid
  <2>4. QED
    BY <1>1, <2>2, <2>3 DEF Hyperloglogs, o
<1> HIDE DEF m, o
<1>6. Represents(m, Packed(o))
  <2>1. d.sound
    BY <1>1 DEF StandsFor
  <2>2. QED
    BY <1>5, <2>1 DEF Represents, StandsFor, Encodes
<1>7. Packed(o) \in RegValues
  BY SixBitNumbers DEF Packed, RegValues
<1>8. QED
  BY <1>3, <1>4, <1>5, <1>6, <1>7

----------------------------------------------------------------------------
\* Elements, as hashes.
Elements == SUBSET (0..(HashBits - 1))

\* hllAdd() of one element after the other.
AddsInOrder(f, h, hashes) ==
  /\ f[0] = h
  /\ \A n \in 1..Len(hashes) : f[n] = hllAdd(f[n - 1], hashes[n])

LEMMA AddAllSteps ==
  ASSUME NEW regs \in RegValues, NEW h, Represents(h, regs), NEW hashes \in Seq(Elements)
  PROVE  \E f : AddsInOrder(f, h, hashes) /\ hllAddAll(h, hashes) = f[Len(hashes)]
<1> DEFINE N == Len(hashes)
           S == {x \in Hyperloglogs : \E r \in RegValues : Represents(x, r)}
           Next(n, x) == IF n \in 1..N THEN hllAdd(x, hashes[n]) ELSE x
           G == [n \in Nat |-> [x \in S |-> Next(n, x)]]
           Recursion(f) == f = [n \in 0..N |-> IF n = 0 THEN h ELSE hllAdd(f[n - 1], hashes[n])]
           added == CHOOSE f : Recursion(f)
<1>1. N \in Nat /\ \A n \in 1..N : hashes[n] \in Elements
  OBVIOUS
<1>2. hllAddAll(h, hashes) = added[N]
  BY DEF hllAddAll
<1>3. \A n \in 1..N : \A x \in S : hllAdd(x, hashes[n]) \in S
  <2>1. ASSUME NEW n \in 1..N, NEW x \in S
        PROVE  hllAdd(x, hashes[n]) \in S
    <3>1. PICK r \in RegValues : Represents(x, r)
      OBVIOUS
    <3>2. hashes[n] \in SUBSET (0..(HashBits - 1))
      BY <1>1 DEF Elements
    <3> DEFINE e == hashes[n]
               y == hllAdd(x, e)
               other == ExactAdd(r, e)
    <3> HIDE DEF e
    <3>3. Represents(y, other) /\ other \in RegValues
      BY <3>1, <3>2, AddRepresents DEF e
    <3> HIDE DEF y, other
    <3>4. y \in Hyperloglogs
      BY <3>3 DEF Represents, StandsFor
    <3>5. y \in S
      BY <3>3, <3>4
    <3>6. QED
      BY <3>5 DEF y, e
  <2>2. QED
    BY <2>1
<1>4. h \in S
  BY DEF Represents, StandsFor
<1> HIDE DEF S
<1>5. G \in Steps(S)
  <2>1. \A n \in Nat : \A x \in S : Next(n, x) \in S
    BY <1>3
  <2> HIDE DEF Next
  <2>2. QED
    BY <2>1 DEF Steps
<1>6. \A n \in 1..N : \A x \in S : G[n][x] = hllAdd(x, hashes[n])
  BY <1>1
<1> HIDE DEF G
<1>7. PICK f : Iterates(f, S, h, G, N)
  BY <1>1, <1>4, <1>5, Iterated
<1>8. f \in [0..N -> S] /\ f[0] = h /\ \A n \in 1..N : f[n] = hllAdd(f[n - 1], hashes[n])
  <2>1. f \in [0..N -> S] /\ f[0] = h /\ \A n \in 1..N : f[n] = G[n][f[n - 1]]
    BY <1>7 DEF Iterates
  <2>2. \A n \in 1..N : n - 1 \in 0..N
    BY <1>1
  <2>3. \A n \in 1..N : f[n - 1] \in S
    BY <2>1, <2>2
  <2>4. QED
    BY <1>6, <2>1, <2>3
<1>9. Recursion(f)
  <2>1. \A n \in 0..N : f[n] = IF n = 0 THEN h ELSE hllAdd(f[n - 1], hashes[n])
    BY <1>1, <1>8
  <2>2. f = [n \in 0..N |-> f[n]]
    BY <1>8
  <2>3. QED
    BY <2>1, <2>2
<1>10. Recursion(added)
  <2> HIDE DEF Recursion
  <2>1. QED
    BY <1>9
<1> HIDE DEF added
<1>11. added[0] = h /\ \A n \in 1..N : added[n] = hllAdd(added[n - 1], hashes[n])
  BY <1>1, <1>10
<1>12. QED
  BY <1>2, <1>11 DEF AddsInOrder

\* The registers those elements should leave.
RaisesInOrder(f, regs, hashes) ==
  /\ f[0] = regs
  /\ \A n \in 1..Len(hashes) : f[n] = ExactAdd(f[n - 1], hashes[n])

LEMMA ExactAddFits ==
  ASSUME NEW regs \in RegValues, NEW hash \in Elements
  PROVE  ExactAdd(regs, hash) \in RegValues
<1> DEFINE e == hllPatLen(hash)
<1>1. e \in Counts
  BY PatLenFits DEF Elements
<1>2. ExactAdd(regs, hash) = Raised(regs, e)
  BY DEF ExactAdd, Raised
<1> HIDE DEF e
<1>3. QED
  BY <1>1, <1>2, RaisedFits

LEMMA ExactAddAllSteps ==
  ASSUME NEW regs \in RegValues, NEW hashes \in Seq(Elements)
  PROVE  \E f : /\ RaisesInOrder(f, regs, hashes) /\ ExactAddAll(regs, hashes) = f[Len(hashes)]
                /\ \A n \in 0..Len(hashes) : f[n] \in RegValues
<1> DEFINE N == Len(hashes)
           S == RegValues
           Next(n, x) == IF n \in 1..N THEN ExactAdd(x, hashes[n]) ELSE x
           G == [n \in Nat |-> [x \in S |-> Next(n, x)]]
           Recursion(f) == f = [n \in 0..N |-> IF n = 0 THEN regs ELSE ExactAdd(f[n - 1], hashes[n])]
           added == CHOOSE f : Recursion(f)
<1>1. N \in Nat /\ \A n \in 1..N : hashes[n] \in Elements
  OBVIOUS
<1>2. ExactAddAll(regs, hashes) = added[N]
  BY DEF ExactAddAll
<1>3. \A n \in 1..N : \A x \in S : ExactAdd(x, hashes[n]) \in S
  BY <1>1, ExactAddFits
<1> HIDE DEF S
<1>4. G \in Steps(S)
  <2>1. \A n \in Nat : \A x \in S : Next(n, x) \in S
    BY <1>3
  <2> HIDE DEF Next
  <2>2. QED
    BY <2>1 DEF Steps
<1>5. \A n \in 1..N : \A x \in S : G[n][x] = ExactAdd(x, hashes[n])
  BY <1>1
<1> HIDE DEF G
<1>6. regs \in S
  BY DEF S
<1>7. PICK f : Iterates(f, S, regs, G, N)
  BY <1>1, <1>4, <1>6, Iterated
<1>8. f \in [0..N -> S] /\ f[0] = regs /\ \A n \in 1..N : f[n] = ExactAdd(f[n - 1], hashes[n])
  <2>1. f \in [0..N -> S] /\ f[0] = regs /\ \A n \in 1..N : f[n] = G[n][f[n - 1]]
    BY <1>7 DEF Iterates
  <2>2. \A n \in 1..N : n - 1 \in 0..N
    BY <1>1
  <2>3. \A n \in 1..N : f[n - 1] \in S
    BY <2>1, <2>2
  <2>4. QED
    BY <1>5, <2>1, <2>3
<1>9. Recursion(f)
  <2>1. \A n \in 0..N : f[n] = IF n = 0 THEN regs ELSE ExactAdd(f[n - 1], hashes[n])
    BY <1>1, <1>8
  <2>2. f = [n \in 0..N |-> f[n]]
    BY <1>8
  <2>3. QED
    BY <2>1, <2>2
<1>10. Recursion(added)
  <2> HIDE DEF Recursion
  <2>1. QED
    BY <1>9
<1> HIDE DEF added
<1>11. added[0] = regs /\ \A n \in 1..N : added[n] = ExactAdd(added[n - 1], hashes[n])
  BY <1>1, <1>10
<1>12. \A n \in 1..N : added[n - 1] \in S => added[n] \in S
  BY <1>3, <1>11
<1>13. \A n \in 0..N : added[n] \in S
  BY <1>1, <1>6, <1>11, <1>12, IteratedStays
<1>14. QED
  BY <1>2, <1>11, <1>13 DEF RaisesInOrder, S

\* All of a lookup's elements, or of a state that is combined.
LEMMA AddAllRepresents ==
  ASSUME NEW regs \in RegValues, NEW h, Represents(h, regs), NEW hashes \in Seq(Elements)
  PROVE  /\ Represents(hllAddAll(h, hashes), ExactAddAll(regs, hashes))
         /\ ExactAddAll(regs, hashes) \in RegValues
<1> DEFINE N == Len(hashes)
<1>1. PICK f : AddsInOrder(f, h, hashes) /\ hllAddAll(h, hashes) = f[N]
  BY AddAllSteps
<1>2. PICK g : /\ RaisesInOrder(g, regs, hashes) /\ ExactAddAll(regs, hashes) = g[N]
               /\ \A n \in 0..N : g[n] \in RegValues
  BY ExactAddAllSteps
<1>3. N \in Nat /\ \A n \in 1..N : hashes[n] \in Elements
  OBVIOUS
<1> DEFINE Q == {n \in Nat : n <= N => Represents(f[n], g[n])}
<1>4. Q \in SUBSET Nat /\ 0 \in Q
  <2>1. Represents(f[0], g[0])
    BY <1>1, <1>2 DEF AddsInOrder, RaisesInOrder
  <2>2. QED
    BY <2>1
<1>5. ASSUME NEW n \in Nat, n \in Q
      PROVE  n + 1 \in Q
  <2>1. ASSUME n + 1 <= N
        PROVE  Represents(f[n + 1], g[n + 1])
    <3>1. n + 1 \in 1..N /\ (n + 1) - 1 = n /\ n <= N /\ n \in 0..N
      BY <1>3, <2>1
    <3> DEFINE e == hashes[n + 1]
    <3>2. Represents(f[n], g[n]) /\ g[n] \in RegValues /\ e \in Elements
      BY <1>2, <1>3, <1>5, <3>1
    <3>3. f[n + 1] = hllAdd(f[n], e) /\ g[n + 1] = ExactAdd(g[n], e)
      BY <1>1, <1>2, <3>1 DEF AddsInOrder, RaisesInOrder
    <3> DEFINE a == f[n]
               b == g[n]
    <3> HIDE DEF e, a, b
    <3>4. Represents(a, b) /\ b \in RegValues /\ e \in SUBSET (0..(HashBits - 1))
      BY <3>2 DEF Elements, a, b
    <3>5. Represents(hllAdd(a, e), ExactAdd(b, e))
      BY <3>4, AddRepresents
    <3>6. QED
      BY <3>3, <3>5 DEF a, b
  <2>2. QED
    BY <2>1
<1>6. Q = Nat
  <2> HIDE DEF Q
  <2>1. QED
    BY <1>4, <1>5, Induction
<1>7. Represents(f[N], g[N])
  BY <1>3, <1>6
<1>8. g[N] \in RegValues
  BY <1>2, <1>3
<1>9. QED
  BY <1>1, <1>2, <1>7, <1>8

LEMMA RaisedAtLeast ==
  ASSUME NEW a \in RegValues, NEW b \in RegValues, AtLeast(a, b), NEW hash \in Elements
  PROVE  AtLeast(ExactAdd(a, hash), ExactAdd(b, hash))
<1> DEFINE e == hllPatLen(hash)
<1>1. e \in Counts
  BY PatLenFits DEF Elements
<1>2. \A x : ExactAdd(x, hash) = Raised(x, e)
  BY DEF ExactAdd, Raised
<1> HIDE DEF e
<1>3. \A x \in RegValues : \A r \in Regs :
        Raised(x, e)[r] = IF r = e.index THEN Larger(x[r], e.count) ELSE x[r]
  BY DEF Raised, RegValues
<1>4. e.count \in 1..63
  BY <1>1, RaisedFits
<1>5. ASSUME NEW r \in Regs
      PROVE  Raised(a, e)[r] >= Raised(b, e)[r]
  <2>1. a[r] \in 0..63 /\ b[r] \in 0..63 /\ a[r] >= b[r]
    BY DEF RegValues, AtLeast
  <2>2. Larger(a[r], e.count) >= Larger(b[r], e.count)
    <3> DEFINE x == a[r]
               y == b[r]
               n == e.count
    <3>1. x \in 0..63 /\ y \in 0..63 /\ n \in 1..63 /\ x >= y
      BY <1>4, <2>1
    <3> HIDE DEF x, y, n
    <3>2. Larger(x, n) >= Larger(y, n)
      BY <3>1 DEF Larger
    <3>3. QED
      BY <3>2 DEF x, y, n
  <2>3. QED
    BY <1>3, <2>1, <2>2
<1>6. QED
  BY <1>2, <1>5 DEF AtLeast

\* What elements leave in registers is no more than what was there, or what they
\* leave in empty ones.
LEMMA EmptyEnough ==
  ASSUME NEW a \in RegValues, NEW hashes \in Seq(Elements), NEW all \in RegValues,
         AtLeast(all, a), AtLeast(all, ExactAddAll(NoRegs, hashes))
  PROVE  AtLeast(all, ExactAddAll(a, hashes))
<1> DEFINE N == Len(hashes)
<1>1. PICK f : /\ RaisesInOrder(f, a, hashes) /\ ExactAddAll(a, hashes) = f[N]
               /\ \A n \in 0..N : f[n] \in RegValues
  BY ExactAddAllSteps
<1>2. PICK g : /\ RaisesInOrder(g, NoRegs, hashes) /\ ExactAddAll(NoRegs, hashes) = g[N]
               /\ \A n \in 0..N : g[n] \in RegValues
  BY ExactAddAllSteps, NoHistogram
<1>3. N \in Nat /\ \A n \in 1..N : hashes[n] \in Elements
  OBVIOUS
<1> DEFINE Within(x, y) == \A r \in Regs : x[r] <= a[r] \/ x[r] <= y[r]
           Q == {n \in Nat : n <= N => Within(f[n], g[n])}
<1>4. \A r \in Regs : a[r] \in 0..63
  BY DEF RegValues
<1>5. ASSUME NEW x \in RegValues, NEW y \in RegValues, Within(x, y), NEW hash \in Elements
      PROVE  Within(ExactAdd(x, hash), ExactAdd(y, hash))
  <2> DEFINE e == hllPatLen(hash)
  <2>1. e \in Counts
    BY PatLenFits DEF Elements
  <2>2. \A z : ExactAdd(z, hash) = Raised(z, e)
    BY DEF ExactAdd, Raised
  <2> HIDE DEF e
  <2>3. \A z \in RegValues : \A r \in Regs :
          Raised(z, e)[r] = IF r = e.index THEN Larger(z[r], e.count) ELSE z[r]
    BY DEF Raised, RegValues
  <2>4. e.count \in 1..63
    BY <2>1, RaisedFits
  <2>5. ASSUME NEW r \in Regs
        PROVE  Raised(x, e)[r] <= a[r] \/ Raised(x, e)[r] <= Raised(y, e)[r]
    <3>1. x[r] \in 0..63 /\ y[r] \in 0..63 /\ a[r] \in 0..63
      BY DEF RegValues
    <3>2. x[r] <= a[r] \/ x[r] <= y[r]
      BY <1>5
    <3>3. Larger(x[r], e.count) <= a[r] \/ Larger(x[r], e.count) <= Larger(y[r], e.count)
      <4> DEFINE u == x[r]
                 v == y[r]
                 w == a[r]
                 n == e.count
      <4>1. /\ u \in 0..63 /\ v \in 0..63 /\ w \in 0..63 /\ n \in 1..63
            /\ u <= w \/ u <= v
        BY <2>4, <3>1, <3>2
      <4> HIDE DEF u, v, w, n
      <4>2. Larger(u, n) <= w \/ Larger(u, n) <= Larger(v, n)
        BY <4>1 DEF Larger
      <4>3. QED
        BY <4>2 DEF u, v, w, n
    <3>4. QED
      BY <2>3, <3>2, <3>3
  <2>6. QED
    BY <2>2, <2>5
<1>6. Q \in SUBSET Nat /\ 0 \in Q
  <2>1. Within(f[0], g[0])
    <3>1. f[0] = a
      BY <1>1 DEF RaisesInOrder
    <3>2. \A r \in Regs : a[r] <= a[r]
      <4>1. \A x \in 0..63 : x <= x
        OBVIOUS
      <4>2. QED
        BY <1>4, <4>1
    <3>3. QED
      BY <3>1, <3>2
  <2> HIDE DEF Within
  <2>2. QED
    BY <2>1
<1>7. ASSUME NEW n \in Nat, n \in Q
      PROVE  n + 1 \in Q
  <2> HIDE DEF Within
  <2>1. ASSUME n + 1 <= N
        PROVE  Within(f[n + 1], g[n + 1])
    <3>1. n + 1 \in 1..N /\ (n + 1) - 1 = n /\ n <= N /\ n \in 0..N
      BY <1>3, <2>1
    <3> DEFINE e == hashes[n + 1]
               x == f[n]
               y == g[n]
    <3>2. Within(x, y) /\ x \in RegValues /\ y \in RegValues /\ e \in Elements
      BY <1>1, <1>2, <1>3, <1>7, <3>1
    <3>3. f[n + 1] = ExactAdd(x, e) /\ g[n + 1] = ExactAdd(y, e)
      BY <1>1, <1>2, <3>1 DEF RaisesInOrder
    <3> HIDE DEF e, x, y
    <3>4. Within(ExactAdd(x, e), ExactAdd(y, e))
      BY <1>5, <3>2
    <3>5. QED
      BY <3>3, <3>4
  <2>2. QED
    BY <2>1
<1>8. Q = Nat
  <2> HIDE DEF Q
  <2>1. QED
    BY <1>6, <1>7, Induction
<1>9. Within(f[N], g[N])
  BY <1>3, <1>8
<1>10. f[N] \in RegValues /\ g[N] \in RegValues
  BY <1>1, <1>2, <1>3
<1> DEFINE x == f[N]
           y == g[N]
<1>11. /\ ExactAddAll(a, hashes) = x /\ ExactAddAll(NoRegs, hashes) = y
       /\ x \in RegValues /\ y \in RegValues /\ Within(x, y)
  BY <1>1, <1>2, <1>9, <1>10
<1> HIDE DEF x, y
<1>12. ASSUME NEW r \in Regs
       PROVE  all[r] >= x[r]
  <2>1. all[r] \in 0..63 /\ x[r] \in 0..63 /\ y[r] \in 0..63 /\ a[r] \in 0..63
    BY <1>11 DEF RegValues
  <2>2. all[r] >= a[r] /\ all[r] >= y[r] /\ (x[r] <= a[r] \/ x[r] <= y[r])
    BY <1>11 DEF AtLeast
  <2> DEFINE k == all[r]
             l == a[r]
             m == x[r]
             n == y[r]
  <2>3. /\ k \in 0..63 /\ l \in 0..63 /\ m \in 0..63 /\ n \in 0..63
        /\ k >= l /\ k >= n /\ (m <= l \/ m <= n)
    BY <2>1, <2>2
  <2> HIDE DEF k, l, m, n
  <2>4. k >= m
    BY <2>3
  <2>5. QED
    BY <2>4 DEF k, m
<1>13. QED
  BY <1>11, <1>12 DEF AtLeast

LEMMA AtLeastTransitive ==
  ASSUME NEW a \in RegValues, NEW b \in RegValues, NEW c \in RegValues,
         AtLeast(a, b), AtLeast(b, c)
  PROVE  AtLeast(a, c)
<1>1. ASSUME NEW r \in Regs
      PROVE  a[r] >= c[r]
  <2>1. a[r] \in 0..63 /\ b[r] \in 0..63 /\ c[r] \in 0..63 /\ a[r] >= b[r] /\ b[r] >= c[r]
    BY DEF RegValues, AtLeast
  <2>2. \A x, y, z \in 0..63 : x >= y /\ y >= z => x >= z
    OBVIOUS
  <2>3. QED
    BY <2>1, <2>2
<1>2. QED
  BY <1>1 DEF AtLeast

\* Hashes are finitely many, and a set of them is a sequence.
LEMMA HashesInOrder ==
  ASSUME NEW S \in SUBSET Hashes
  PROVE  SetToSeq(S) \in Seq(Elements)
<1>1. IsFiniteSet(0..(HashBits - 1))
  <2> DEFINE b == HashBits - 1
  <2>1. b \in Int
    BY HllAssumption, SixBitNumbers, PAssumption
  <2> HIDE DEF b
  <2>2. IsFiniteSet(0..b)
    BY <2>1, FS_Interval
  <2>3. QED
    BY <2>2 DEF b
<1>2. IsFiniteSet(Elements)
  BY <1>1, FS_SUBSET DEF Elements
<1>3. S \in SUBSET Elements
  BY HllAssumption DEF Elements
<1>4. IsFiniteSet(S)
  BY <1>2, <1>3, FS_Subset
<1> DEFINE n == Cardinality(S)
<1>5. n \in Nat /\ ExistsBijection(1..n, S)
  BY <1>4, FS_CardinalityType
<1> HIDE DEF n
<1>6. \E f \in [1..n -> S] : IsInjective(f)
  <2>1. PICK f : f \in Bijection(1..n, S)
    BY <1>5 DEF ExistsBijection
  <2>2. f \in [1..n -> S] /\ \A i, j \in 1..n : f[i] = f[j] => i = j
    BY <2>1 DEF Bijection, Injection, IsInjective
  <2>3. QED
    BY <2>2 DEF IsInjective
<1>7. SetToSeq(S) \in [1..n -> S]
  BY <1>6 DEF SetToSeq, n
<1>8. SetToSeq(S) \in Seq(S)
  BY <1>5, <1>7
<1>9. QED
  BY <1>3, <1>8

----------------------------------------------------------------------------
(***************************************************************************)
(* The count of a state.  Its hyperloglog stands for the registers that    *)
(* are read from it, and these are the exact ones, or, once another state  *)
(* was combined, none is smaller.                                          *)
(***************************************************************************)
Agrees(h, x, both) ==
  LET regs == RegistersOf(h)
  IN  /\ regs \in RegValues /\ x \in RegValues
      /\ Represents(h, regs)
      /\ IF both THEN AtLeast(regs, x) ELSE regs = x

CountInv == Agrees(count, exact, combined)

LEMMA AgreesBy ==
  ASSUME NEW regs \in RegValues, NEW h, Represents(h, regs), NEW x \in RegValues, NEW both,
         IF both THEN AtLeast(regs, x) ELSE regs = x
  PROVE  Agrees(h, x, both)
<1>1. RegistersOf(h) = regs
  BY ReadBack DEF Represents
<1>2. QED
  BY <1>1 DEF Agrees

\* Nothing that is done to the count makes it stand for other registers.
LEMMA CountStep == CountInv /\ [CountNext]_countVars => CountInv'
<1> SUFFICES ASSUME CountInv, [CountNext]_countVars
             PROVE  CountInv'
  OBVIOUS
<1> DEFINE regs == RegistersOf(count)
<1>1. /\ regs \in RegValues /\ exact \in RegValues /\ Represents(count, regs)
      /\ IF combined THEN AtLeast(regs, exact) ELSE regs = exact
  BY DEF CountInv, Agrees
<1>2. ASSUME Represents(count', regs), UNCHANGED <<exact, combined>>
      PROVE  CountInv'
  <2> HIDE DEF regs
  <2>1. Agrees(count', exact', combined')
    BY <1>1, <1>2, AgreesBy
  <2>2. QED
    BY <2>1 DEF CountInv
<1> HIDE DEF regs
<1>3. ASSUME NEW hash \in Hashes, Register(hash)
      PROVE  CountInv'
  <2>1. hash \in Elements
    BY HllAssumption DEF Elements
  <2> DEFINE all == ExactAdd(regs, hash)
             x == ExactAdd(exact, hash)
  <2>2. Represents(hllAdd(count, hash), all) /\ all \in RegValues
    BY <1>1, <2>1, AddRepresents DEF Elements
  <2>3. x \in RegValues
    BY <1>1, <2>1, ExactAddFits
  <2>4. IF combined THEN AtLeast(all, x) ELSE all = x
    BY <1>1, <2>1, RaisedAtLeast
  <2> HIDE DEF all, x
  <2>5. Agrees(hllAdd(count, hash), x, combined)
    BY <2>2, <2>3, <2>4, AgreesBy
  <2>6. QED
    BY <1>3, <2>5 DEF Register, CountInv, x
<1>4. CASE Persist
  <2> DEFINE d == hllSparseToDense(count)
             o == BitwiseOr(NoBits, d.dense)
             b == [hllInitFromBuffer(o) EXCEPT !.sound = d.sound]
             h == IF count.owned THEN b ELSE count
  <2>1. count' = hllCount(h) /\ UNCHANGED <<exact, combined>>
    BY <1>4 DEF Persist
  <2>2. d.sound = TRUE /\ d.dense \in Dense /\ Packed(d.dense) = regs
    BY <1>1, ToDense DEF Represents, StandsFor, Hyperloglogs
  <2> HIDE DEF d
  <2>3. o = d.dense
    <3> DEFINE q == d.dense
    <3>1. q \in Dense
      BY <2>2
    <3> HIDE DEF q
    <3>2. BitwiseOr(NoBits, q) = q
      BY <3>1, OrAtLeast, PackedZero
    <3>3. QED
      BY <3>2 DEF q
  <2> HIDE DEF o
  <2>4. Represents(b, regs)
    <3> DEFINE s == d.sound
    <3>1. o \in Dense /\ Packed(o) = regs /\ s = TRUE
      BY <2>2, <2>3
    <3> HIDE DEF s
    <3>2. Represents([hllInitFromBuffer(o) EXCEPT !.sound = s], Packed(o))
      BY <3>1, BufferRepresents
    <3>3. QED
      BY <3>1, <3>2 DEF s
  <2>5. Represents(h, regs)
    BY <1>1, <2>4
  <2> HIDE DEF h
  <2>6. Represents(hllCount(h), regs)
    BY <1>1, <2>5, CountRepresents
  <2>7. QED
    BY <1>2, <2>1, <2>6
<1>5. CASE Load
  <2> DEFINE p == count.dense
             s == count.sound
  <2>1. p \in Dense /\ Packed(p) = regs /\ s = TRUE
    BY <1>1, <1>5 DEF Load, Represents, StandsFor, Encodes, Hyperloglogs
  <2>2. count' = [hllInitFromBuffer(p) EXCEPT !.sound = s] /\ UNCHANGED <<exact, combined>>
    BY <1>5 DEF Load
  <2> HIDE DEF p, s
  <2>3. Represents(count', regs)
    BY <2>1, <2>2, BufferRepresents
  <2>4. QED
    BY <1>2, <2>2, <2>3
<1>6. ASSUME NEW S \in Others, Combine(S)
      PROVE  CountInv'
  <2> DEFINE hashes == SetToSeq(S)
             source == hllAddAll(hllInit, hashes)
             z == ExactAddAll(NoRegs, hashes)
             p == hllSparseToDense(source).dense
             g == hllInitFromBuffer(p)
             m == hllMerge(count, g)
             x == ExactAddAll(exact, hashes)
  <2>1. count' = m /\ exact' = x /\ combined' = TRUE
    BY <1>6 DEF Combine
  <2>2. hashes \in Seq(Elements)
    BY HllAssumption, HashesInOrder
  <2> HIDE DEF hashes
  <2>3. Represents(source, z) /\ z \in RegValues
    BY <2>2, InitRepresents, NoHistogram, AddAllRepresents
  <2>4. x \in RegValues
    <3>1. Len(hashes) \in 0..Len(hashes)
      BY <2>2
    <3>2. QED
      BY <1>1, <2>2, <3>1, ExactAddAllSteps
  <2> HIDE DEF source, m
  <2>5. p \in Dense /\ Packed(p) = z
    <3> HIDE DEF z
    <3>1. QED
      BY <2>3, ToDense DEF Represents
  <2> HIDE DEF p
  <2>6. Represents(g, z)
    <3>1. Represents(hllInitFromBuffer(p), Packed(p))
      BY <2>5, BufferRepresents
    <3>2. QED
      BY <2>5, <3>1
  <2> HIDE DEF g
  <2>7. PICK all \in RegValues : /\ Represents(m, all)
                                 /\ AtLeast(all, regs) /\ AtLeast(all, z)
    <3> HIDE DEF z
    <3>1. QED
      BY <1>1, <2>3, <2>6, MergeRepresents DEF m
  <2>8. AtLeast(all, exact)
    <3>1. AtLeast(regs, exact)
      <4>1. \A r \in Regs : regs[r] >= regs[r]
        <5>1. \A n \in 0..63 : n >= n
          OBVIOUS
        <5>2. QED
          BY <1>1, <5>1 DEF RegValues
      <4>2. QED
        BY <1>1, <4>1 DEF AtLeast
    <3>2. QED
      BY <1>1, <2>7, <3>1, AtLeastTransitive
  <2>9. AtLeast(all, x)
    BY <1>1, <2>2, <2>7, <2>8, EmptyEnough
  <2> HIDE DEF x, z
  <2>10. Agrees(m, x, TRUE)
    BY <2>4, <2>7, <2>9, AgreesBy
  <2>11. QED
    BY <2>1, <2>10 DEF CountInv
<1>7. CASE UNCHANGED countVars
  BY <1>7 DEF countVars, CountInv
<1>8. QED
  BY <1>3, <1>4, <1>5, <1>6, <1>7 DEF CountNext

THEOREM CountInvariant == CountSpec => []CountInv
<1>1. CountInit => CountInv
  <2>1. AtLeast(NoRegs, NoRegs)
    BY DEF AtLeast, NoRegs
  <2>2. Agrees(hllInit, NoRegs, combined)
    BY <2>1, InitRepresents, NoHistogram, AgreesBy
  <2>3. QED
    BY <2>2 DEF CountInit, CountInv
<1>2. QED
  BY <1>1, CountStep, PTL DEF CountSpec

\* Adding in place and promoting leave a sound representation, whatever the
\* lengths the opcodes may have and however small the room for them is.
THEOREM SparseSoundHolds == CountSpec => []SparseSound
<1>1. CountInv => SparseSound
  <2>1. SUFFICES ASSUME CountInv
                 PROVE  Sound(count)
    BY DEF SparseSound
  <2> DEFINE regs == RegistersOf(count)
  <2>2. /\ count \in Hyperloglogs /\ count.sound /\ Encodes(count, regs)
    BY <2>1 DEF CountInv, Agrees, Represents, StandsFor
  <2> HIDE DEF regs
  <2>3. ASSUME count.encoding = "sparse"
        PROVE  /\ Covered(count.ops) = HLL_REGISTERS
               /\ SparseLen(count.ops) <= HLL_SPARSE_MAX_BYTES + 3
               /\ \A k \in 1..Len(count.ops) : Fits(count.ops[k])
    <3>1. /\ count.ops \in Seq(Opcode) /\ Reads(count.ops, 0, HLL_REGISTERS, regs)
          /\ SparseLen(count.ops) <= HLL_SPARSE_MAX_BYTES + 3
      BY <2>2, <2>3 DEF Hyperloglogs, Encodes
    <3>2. Covered(count.ops) = HLL_REGISTERS
      BY <3>1, EndsAre DEF Reads
    <3>3. \A k \in 1..Len(count.ops) : count.ops[k] \in Opcode
      BY <3>1
    <3>4. \A k \in 1..Len(count.ops) : Fits(count.ops[k])
      BY <3>3, OpcodeFields
    <3>5. QED
      BY <3>1, <3>2, <3>4
  <2>4. QED
    BY <2>2, <2>3 DEF Sound
<1>2. QED
  BY <1>1, CountInvariant, PTL

\* The registers are those of the elements added, or, after a combination, none
\* is smaller.
THEOREM RegistersAgreeHolds == CountSpec => []RegistersAgree
<1>1. CountInv => RegistersAgree
  BY DEF CountInv, Agrees, AtLeast, RegistersAgree
<1>2. QED
  BY <1>1, CountInvariant, PTL

\* An estimate that is not thrown away is the one of the registers there are.
THEOREM CachedIsCurrentHolds == CountSpec => []CachedIsCurrent
<1>1. CountInv => CachedIsCurrent
  BY DEF CountInv, Agrees, Represents, CachedIsCurrent
<1>2. QED
  BY <1>1, CountInvariant, PTL

----------------------------------------------------------------------------
(***************************************************************************)
(* The dry run.  What is assumed of estimates: they are numbers, and, for  *)
(* the bound from above, that elements do not make them smaller.           *)
(***************************************************************************)
EstimateCounts == \A regs \in RegValues : Expected(regs) \in Nat

EstimateGrows ==
  \A a, b \in RegValues : AtLeast(b, a) => Expected(a) <= Expected(b)

\* A maximum is no less than what finished periods had, and no more than that
\* or what the running one has.
WithinFinished(max, fin, running) ==
  max \in Nat /\ fin \in Nat /\ fin <= max /\ (EstimateGrows => max <= Larger(fin, running))

DryInv ==
  /\ dryPc \in {"off", "start", "measuring", "unlogged", "stopped", "dead"}
  /\ global \in [Periods -> Hyperloglogs]
  /\ current \in [Periods -> RegValues]
  /\ maximum \in [Periods -> Nat]
  /\ finished \in [Periods -> Nat]
  /\ \A p \in Periods : WithinFinished(maximum[p], finished[p], Expected(current[p]))
  /\ dryPc = "measuring" => \A p \in Periods : Represents(global[p], current[p])
  /\ dryPc \notin {"measuring", "stopped"} => \A p \in Periods : current[p] = NoRegs
  /\ dryPc = "stopped" => \A p \in Periods : maximum[p] >= Expected(current[p])

LEMMA BoundsKept ==
  ASSUME NEW m, NEW f, NEW e \in Nat, WithinFinished(m, f, e), NEW g \in Nat
  PROVE  /\ Larger(m, e) \in Nat /\ Larger(f, e) \in Nat
         /\ WithinFinished(Larger(m, e), Larger(f, e), g)
         /\ WithinFinished(Larger(m, e), f, e) /\ Larger(m, e) >= e
         /\ (EstimateGrows => e <= g) => WithinFinished(m, f, g)
<1>1. m \in Nat /\ f \in Nat /\ f <= m /\ (EstimateGrows => m <= Larger(f, e))
  BY DEF WithinFinished
<1>2. Larger(m, e) \in Nat /\ Larger(f, e) \in Nat /\ Larger(m, e) >= e
  BY <1>1 DEF Larger
<1>3. Larger(f, e) <= Larger(m, e) /\ f <= Larger(m, e)
  BY <1>1 DEF Larger
<1>4. EstimateGrows => Larger(m, e) <= Larger(f, e)
  BY <1>1 DEF Larger
<1>5. Larger(f, e) <= Larger(Larger(f, e), g)
  BY <1>1 DEF Larger
<1>6. EstimateGrows => Larger(m, e) <= Larger(Larger(f, e), g)
  BY <1>1 DEF Larger
<1>7. (EstimateGrows => e <= g) => (EstimateGrows => m <= Larger(f, g))
  BY <1>1 DEF Larger
<1>8. QED
  BY <1>1, <1>2, <1>3, <1>4, <1>6, <1>7 DEF WithinFinished

\* Elements make no register smaller.
LEMMA ExactGrows ==
  ASSUME NEW regs \in RegValues, NEW hashes \in Seq(Elements)
  PROVE  AtLeast(ExactAddAll(regs, hashes), regs)
<1> DEFINE N == Len(hashes)
<1>1. PICK f : /\ RaisesInOrder(f, regs, hashes) /\ ExactAddAll(regs, hashes) = f[N]
               /\ \A n \in 0..N : f[n] \in RegValues
  BY ExactAddAllSteps
<1>2. N \in Nat /\ \A n \in 1..N : hashes[n] \in Elements
  OBVIOUS
<1>3. \A x \in RegValues : AtLeast(x, x)
  <2>1. \A n \in 0..63 : n >= n
    OBVIOUS
  <2>2. QED
    BY <2>1 DEF AtLeast, RegValues
<1>4. ASSUME NEW x \in RegValues, NEW hash \in Elements
      PROVE  AtLeast(ExactAdd(x, hash), x)
  <2> DEFINE e == hllPatLen(hash)
  <2>1. e \in Counts
    BY PatLenFits DEF Elements
  <2>2. ExactAdd(x, hash) = Raised(x, e)
    BY DEF ExactAdd, Raised
  <2> HIDE DEF e
  <2>3. \A r \in Regs : Raised(x, e)[r] = IF r = e.index THEN Larger(x[r], e.count) ELSE x[r]
    BY DEF Raised, RegValues
  <2>4. \A r \in Regs : Larger(x[r], e.count) >= x[r] /\ x[r] >= x[r]
    <3>1. \A a \in 0..63 : \A n \in 1..63 : Larger(a, n) >= a /\ a >= a
      BY DEF Larger
    <3>2. e.count \in 1..63 /\ \A r \in Regs : x[r] \in 0..63
      BY <2>1, RaisedFits DEF RegValues
    <3>3. QED
      BY <3>1, <3>2
  <2>5. QED
    BY <2>2, <2>3, <2>4 DEF AtLeast
<1> DEFINE Q == {n \in Nat : n <= N => AtLeast(f[n], regs)}
<1>5. Q \in SUBSET Nat /\ 0 \in Q
  <2>1. AtLeast(f[0], regs)
    BY <1>1, <1>3 DEF RaisesInOrder
  <2>2. QED
    BY <2>1
<1>6. ASSUME NEW n \in Nat, n \in Q
      PROVE  n + 1 \in Q
  <2>1. ASSUME n + 1 <= N
        PROVE  AtLeast(f[n + 1], regs)
    <3>1. n + 1 \in 1..N /\ (n + 1) - 1 = n /\ n <= N /\ n \in 0..N /\ n + 1 \in 0..N
      BY <1>2, <2>1
    <3> DEFINE e == hashes[n + 1]
               x == f[n]
               y == f[n + 1]
    <3>2. x \in RegValues /\ y \in RegValues /\ AtLeast(x, regs) /\ e \in Elements
      BY <1>1, <1>2, <1>6, <3>1
    <3>3. y = ExactAdd(x, e)
      BY <1>1, <3>1 DEF RaisesInOrder
    <3> HIDE DEF e, x, y
    <3>4. AtLeast(y, x)
      BY <1>4, <3>2, <3>3
    <3>5. AtLeast(y, regs)
      BY <3>2, <3>4, AtLeastTransitive
    <3>6. QED
      BY <3>5 DEF y
  <2>2. QED
    BY <2>1
<1>7. Q = Nat
  <2> HIDE DEF Q
  <2>1. QED
    BY <1>5, <1>6, Induction
<1>8. AtLeast(f[N], regs)
  BY <1>2, <1>7
<1>9. QED
  BY <1>1, <1>8

\* What a handler or the advice takes from a hyperloglog is the estimate of what
\* it counted.
LEMMA CountedIsExpected ==
  ASSUME EstimateCounts, NEW regs \in RegValues, NEW h, Represents(h, regs)
  PROVE  Counted(h) = Expected(regs) /\ Expected(regs) \in Nat
<1>1. hllCount(h).card[1] = Histogram(regs)
  BY CountRepresents
<1>2. QED
  BY <1>1 DEF Counted, Expected, EstimateCounts

LEMMA DryTyped ==
  /\ Zeroed \in Hyperloglogs /\ hllInit \in Hyperloglogs
  /\ NoRegs \in RegValues /\ Represents(hllInit, NoRegs)
<1>1. hllInit \in Hyperloglogs /\ Represents(hllInit, NoRegs)
  BY InitRepresents DEF Represents, StandsFor
<1>2. hllInitFromBuffer(NoBits) \in Hyperloglogs
  <2>1. Represents(hllInitFromBuffer(NoBits), Packed(NoBits))
    BY BufferRepresents, PackedZero
  <2>2. QED
    BY <2>1 DEF Represents, StandsFor
<1>3. Zeroed \in Hyperloglogs
  <2> DEFINE h == hllInitFromBuffer(NoBits)
             c == hllInit.card
  <2>1. c \in Seq(SUBSET ((0..63) \X Nat))
    BY <1>1 DEF Hyperloglogs
  <2>2. h \in Hyperloglogs
    BY <1>2
  <2> HIDE DEF h, c
  <2>3. [h EXCEPT !.card = c] \in Hyperloglogs
    BY <2>1, <2>2 DEF Hyperloglogs
  <2>4. QED
    BY <2>3 DEF Zeroed, h, c
<1>4. QED
  BY <1>1, <1>3, NoHistogram

\* A lookup: both structures count its elements.
LEMMA LookupKept ==
  ASSUME EstimateCounts, DryInv, NEW l \in Lookups, Lookup(l)
  PROVE  DryInv'
<1> DEFINE hashes == SetToSeq(l.hashes)
<1>1. hashes \in Seq(Elements)
  <2>1. l.hashes \in SUBSET Hashes
    BY DryRunAssumption
  <2>2. QED
    BY <2>1, HashesInOrder
<1>2. /\ dryPc = "measuring" /\ dryPc' = dryPc /\ UNCHANGED <<maximum, finished>>
      /\ global' = [p \in Periods |-> hllAddAll(global[p], hashes)]
      /\ current' = [p \in Periods |-> ExactAddAll(current[p], hashes)]
  BY DEF Lookup
<1> HIDE DEF hashes
<1>3. /\ current \in [Periods -> RegValues] /\ maximum \in [Periods -> Nat]
      /\ finished \in [Periods -> Nat]
      /\ \A p \in Periods : WithinFinished(maximum[p], finished[p], Expected(current[p]))
      /\ \A p \in Periods : Represents(global[p], current[p])
  BY <1>2 DEF DryInv
<1>4. ASSUME NEW p \in Periods
      PROVE  /\ Represents(global'[p], current'[p]) /\ current'[p] \in RegValues
             /\ global'[p] \in Hyperloglogs
             /\ WithinFinished(maximum[p], finished[p], Expected(current'[p]))
  <2> DEFINE h == global[p]
             c == current[p]
             a == hllAddAll(h, hashes)
             d == ExactAddAll(c, hashes)
  <2>1. Represents(h, c) /\ c \in RegValues
    BY <1>3
  <2>2. global'[p] = a /\ current'[p] = d
    BY <1>2
  <2> HIDE DEF h, c
  <2>3. Represents(a, d) /\ d \in RegValues
    BY <1>1, <2>1, AddAllRepresents
  <2>4. AtLeast(d, c)
    BY <1>1, <2>1, ExactGrows
  <2> HIDE DEF a, d
  <2>5. a \in Hyperloglogs
    BY <2>3 DEF Represents, StandsFor
  <2>6. Expected(c) \in Nat /\ Expected(d) \in Nat
    BY <2>1, <2>3 DEF EstimateCounts
  <2>7. EstimateGrows => Expected(c) <= Expected(d)
    BY <2>1, <2>3, <2>4 DEF EstimateGrows
  <2>8. WithinFinished(maximum[p], finished[p], Expected(c))
    BY <1>3 DEF c
  <2>9. WithinFinished(maximum[p], finished[p], Expected(d))
    BY <2>6, <2>7, <2>8, BoundsKept
  <2>10. QED
    BY <2>2, <2>3, <2>5, <2>9
<1>5. global' \in [Periods -> Hyperloglogs] /\ current' \in [Periods -> RegValues]
  <2>1. global' = [p \in Periods |-> global'[p]] /\ current' = [p \in Periods |-> current'[p]]
    BY <1>2
  <2>2. QED
    BY <1>4, <2>1
<1>6. QED
  BY <1>2, <1>3, <1>4, <1>5 DEF DryInv

\* The end of a period: what it counted is taken, and its structure starts anew.
\* At midnight the other structure's count is taken too, and goes on.
LEMMA EventKept ==
  ASSUME EstimateCounts, DryInv, NEW p \in Periods, TimerEvent(p)
  PROVE  DryInv'
<1> DEFINE new == [global EXCEPT ![p] = hllInit]
           max == [maximum EXCEPT ![p] = Larger(@, Counted(global[p]))]
<1>1. /\ dryPc = "measuring" /\ dryPc' = dryPc
      /\ finished' = [finished EXCEPT ![p] = Larger(@, Expected(current[p]))]
      /\ current' = [current EXCEPT ![p] = NoRegs]
      /\ \/ maximum' = Advised(max, new) /\ global' = [q \in Periods |-> hllCount(new[q])]
         \/ maximum' = max /\ global' = new
  BY DEF TimerEvent, Restarted
<1>2. /\ global \in [Periods -> Hyperloglogs] /\ current \in [Periods -> RegValues]
      /\ maximum \in [Periods -> Nat] /\ finished \in [Periods -> Nat]
      /\ \A q \in Periods : WithinFinished(maximum[q], finished[q], Expected(current[q]))
      /\ \A q \in Periods : Represents(global[q], current[q])
  BY <1>1 DEF DryInv
<1>3. /\ current' \in [Periods -> RegValues] /\ new \in [Periods -> Hyperloglogs]
      /\ \A q \in Periods : Represents(new[q], current'[q])
  BY <1>1, <1>2, DryTyped
<1>4. \A q \in Periods : Expected(current[q]) \in Nat /\ Expected(current'[q]) \in Nat
  BY <1>2, <1>3 DEF EstimateCounts
<1>5. Counted(global[p]) = Expected(current[p])
  BY <1>2, CountedIsExpected
<1>6. ASSUME NEW q \in Periods
      PROVE  /\ max[q] \in Nat /\ finished'[q] \in Nat
             /\ WithinFinished(max[q], finished'[q], Expected(current'[q]))
  <2> DEFINE e == Expected(current[q])
             g == Expected(current'[q])
             m == maximum[q]
             f == finished[q]
  <2>1. e \in Nat /\ g \in Nat /\ m \in Nat /\ f \in Nat /\ WithinFinished(m, f, e)
    BY <1>2, <1>4
  <2>2. CASE q = p
    <3>1. max[q] = Larger(m, e) /\ finished'[q] = Larger(f, e)
      BY <1>1, <1>2, <1>5, <2>2
    <3> HIDE DEF e, g, m, f, max
    <3>2. WithinFinished(Larger(m, e), Larger(f, e), g) /\ Larger(m, e) \in Nat /\ Larger(f, e) \in Nat
      BY <2>1, BoundsKept
    <3>3. QED
      BY <3>1, <3>2 DEF g
  <2>3. CASE q # p
    <3>1. max[q] = m /\ finished'[q] = f /\ current'[q] = current[q]
      BY <1>1, <1>2, <2>3
    <3>2. QED
      BY <2>1, <3>1
  <2>4. QED
    BY <2>2, <2>3
<1>7. max \in [Periods -> Nat]
  <2>1. max = [q \in Periods |-> max[q]]
    BY <1>2
  <2>2. QED
    BY <1>6, <2>1
<1>8. finished' \in [Periods -> Nat]
  <2>1. finished' = [q \in Periods |-> finished'[q]]
    BY <1>1, <1>2
  <2>2. QED
    BY <1>6, <2>1
<1> HIDE DEF new, max
<1>9. CASE maximum' = max /\ global' = new
  BY <1>1, <1>3, <1>6, <1>7, <1>8, <1>9 DEF DryInv
<1>10. CASE maximum' = Advised(max, new) /\ global' = [q \in Periods |-> hllCount(new[q])]
  <2>1. ASSUME NEW q \in Periods
        PROVE  /\ maximum'[q] \in Nat /\ WithinFinished(maximum'[q], finished'[q], Expected(current'[q]))
               /\ Represents(global'[q], current'[q]) /\ global'[q] \in Hyperloglogs
    <3> DEFINE h == new[q]
               c == current'[q]
               g == Expected(c)
               m == max[q]
               f == finished'[q]
    <3>1. Represents(h, c) /\ c \in RegValues /\ g \in Nat /\ WithinFinished(m, f, g)
      BY <1>3, <1>4, <1>6
    <3>2. maximum'[q] = Larger(m, Counted(h)) /\ global'[q] = hllCount(h)
      BY <1>10 DEF Advised
    <3> HIDE DEF h, c, m, f
    <3>3. Counted(h) = g
      BY <3>1, CountedIsExpected
    <3>4. Represents(hllCount(h), c)
      BY <3>1, CountRepresents
    <3>5. hllCount(h) \in Hyperloglogs
      BY <3>4 DEF Represents, StandsFor
    <3> HIDE DEF g
    <3>6. WithinFinished(Larger(m, g), f, g) /\ Larger(m, g) \in Nat
      BY <3>1, BoundsKept
    <3>7. QED
      BY <3>2, <3>3, <3>4, <3>5, <3>6 DEF f, g, c
  <2>2. maximum' \in [Periods -> Nat] /\ global' \in [Periods -> Hyperloglogs]
    <3>1. maximum' = [q \in Periods |-> maximum'[q]] /\ global' = [q \in Periods |-> global'[q]]
      BY <1>10 DEF Advised
    <3>2. QED
      BY <2>1, <3>1
  <2>3. QED
    BY <1>1, <1>3, <1>8, <2>1, <2>2 DEF DryInv
<1>11. QED
  BY <1>1, <1>9, <1>10

\* The end of the process: the running periods count too.
LEMMA StopKept ==
  ASSUME EstimateCounts, DryInv, Stop
  PROVE  DryInv'
<1>1. /\ dryPc = "measuring" /\ dryPc' = "stopped" /\ UNCHANGED <<current, finished>>
      /\ maximum' = Advised(maximum, global) /\ global' = [p \in Periods |-> Zeroed]
  BY DEF Stop
<1>2. /\ current \in [Periods -> RegValues]
      /\ maximum \in [Periods -> Nat] /\ finished \in [Periods -> Nat]
      /\ \A q \in Periods : WithinFinished(maximum[q], finished[q], Expected(current[q]))
      /\ \A q \in Periods : Represents(global[q], current[q])
  BY <1>1 DEF DryInv
<1>3. ASSUME NEW q \in Periods
      PROVE  /\ maximum'[q] \in Nat /\ maximum'[q] >= Expected(current[q])
             /\ WithinFinished(maximum'[q], finished[q], Expected(current[q]))
  <2> DEFINE h == global[q]
             c == current[q]
             g == Expected(c)
             m == maximum[q]
             f == finished[q]
  <2>1. Represents(h, c) /\ c \in RegValues /\ WithinFinished(m, f, g)
    BY <1>2
  <2>2. maximum'[q] = Larger(m, Counted(h))
    BY <1>1 DEF Advised
  <2> HIDE DEF h, c, m, f
  <2>3. Counted(h) = g /\ g \in Nat
    BY <2>1, CountedIsExpected
  <2> HIDE DEF g
  <2>4. WithinFinished(Larger(m, g), f, g) /\ Larger(m, g) \in Nat /\ Larger(m, g) >= g
    BY <2>1, <2>3, BoundsKept
  <2>5. QED
    BY <2>2, <2>3, <2>4 DEF f, g, c
<1>4. maximum' \in [Periods -> Nat]
  <2>1. maximum' = [q \in Periods |-> maximum'[q]]
    BY <1>1 DEF Advised
  <2>2. QED
    BY <1>3, <2>1
<1>5. global' \in [Periods -> Hyperloglogs]
  BY <1>1, DryTyped
<1>6. QED
  BY <1>1, <1>2, <1>3, <1>4, <1>5 DEF DryInv

LEMMA DryStep == EstimateCounts /\ DryInv /\ [DryNext]_dryVars => DryInv'
<1> SUFFICES ASSUME EstimateCounts, DryInv, [DryNext]_dryVars
             PROVE  DryInv'
  OBVIOUS
<1>1. CASE init_dry_run_dumps
  <2>1. /\ dryPc = "start" /\ dryPc' = "measuring" /\ global' = [p \in Periods |-> hllInit]
        /\ UNCHANGED <<maximum, current, finished>>
    BY <1>1 DEF init_dry_run_dumps
  <2>2. \A p \in Periods : Represents(global'[p], current[p])
    BY <2>1, DryTyped DEF DryInv
  <2>3. global' \in [Periods -> Hyperloglogs]
    BY <2>1, DryTyped
  <2>4. QED
    BY <2>1, <2>2, <2>3 DEF DryInv
<1>2. CASE OpenLogFails
  BY <1>2 DEF OpenLogFails, DryInv
<1>3. CASE NullPointer
  BY <1>3 DEF NullPointer, DryInv
<1>4. ASSUME NEW l \in Lookups, Lookup(l)
      PROVE  DryInv'
  BY <1>4, LookupKept
<1>5. CASE Tick
  BY <1>5 DEF Tick, DryInv
<1>6. ASSUME NEW p \in Periods, TimerEvent(p)
      PROVE  DryInv'
  BY <1>6, EventKept
<1>7. CASE Stop
  BY <1>7, StopKept
<1>8. CASE UNCHANGED dryVars
  BY <1>8 DEF dryVars, DryInv
<1>9. QED
  BY <1>1, <1>2, <1>3, <1>4, <1>5, <1>6, <1>7, <1>8 DEF DryNext

THEOREM DryInvariant == ASSUME EstimateCounts PROVE DrySpec => []DryInv
<1>1. DryInit => DryInv
  <2> SUFFICES ASSUME DryInit
               PROVE  DryInv
    OBVIOUS
  <2>1. /\ dryPc \in {"off", "start"} /\ global = [p \in Periods |-> Zeroed]
        /\ maximum = [p \in Periods |-> 0] /\ finished = [p \in Periods |-> 0]
        /\ current = [p \in Periods |-> NoRegs]
    BY DEF DryInit
  <2>2. Expected(NoRegs) \in Nat
    BY DryTyped DEF EstimateCounts
  <2>3. WithinFinished(0, 0, Expected(NoRegs))
    BY <2>2 DEF WithinFinished, Larger
  <2>4. QED
    BY <2>1, <2>3, DryTyped DEF DryInv
<1>2. EstimateCounts
  OBVIOUS
<1>3. DryInv /\ [DryNext]_dryVars => DryInv'
  BY <1>2, DryStep
<1>4. QED
  BY <1>1, <1>3, PTL DEF DrySpec

\* No period is left out: the maximum is at least the estimate of every period
\* that has ended and, at the end of the process, of the running ones.
NoPeriodLeftOut ==
  \A p \in Periods :
    /\ maximum[p] >= finished[p]
    /\ dryPc = "stopped" => maximum[p] >= Expected(current[p])

\* It holds of every estimate that is a number.
THEOREM NoPeriodLeftOutHolds == ASSUME EstimateCounts PROVE DrySpec => []NoPeriodLeftOut
<1>1. DryInv => NoPeriodLeftOut
  <2>1. \A m, f, e : WithinFinished(m, f, e) => m >= f
    BY DEF WithinFinished
  <2>2. QED
    BY <2>1 DEF DryInv, NoPeriodLeftOut
<1>2. EstimateCounts
  OBVIOUS
<1>3. DrySpec => []DryInv
  BY <1>2, DryInvariant
<1>4. QED
  BY <1>1, <1>3, PTL

\* The advice is based on the largest estimate, and on none that is larger, if
\* elements do not make estimates smaller.
THEOREM MaximaRightHolds ==
  ASSUME EstimateCounts, EstimateGrows
  PROVE  DrySpec => []MaximaRight
<1>1. EstimateCounts /\ EstimateGrows
  OBVIOUS
<1>2. DryInv => MaximaRight
  <2> SUFFICES ASSUME DryInv, NEW p \in Periods
               PROVE  LET running == Larger(finished[p], Expected(current[p]))
                      IN  /\ maximum[p] \in finished[p]..running
                          /\ dryPc = "stopped" => maximum[p] = running
    BY DEF MaximaRight
  <2> DEFINE m == maximum[p]
             f == finished[p]
             e == Expected(current[p])
  <2>1. WithinFinished(m, f, e) /\ e \in Nat /\ (dryPc = "stopped" => m >= e)
    BY <1>1 DEF DryInv, EstimateCounts
  <2> HIDE DEF m, f, e
  <2>2. m \in f..Larger(f, e) /\ (dryPc = "stopped" => m = Larger(f, e))
    BY <1>1, <2>1 DEF WithinFinished, Larger
  <2>3. QED
    BY <2>2 DEF m, f, e
<1>3. DrySpec => []DryInv
  BY <1>1, DryInvariant
<1>4. QED
  BY <1>2, <1>3, PTL

=============================================================================
