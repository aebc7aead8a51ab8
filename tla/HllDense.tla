------------------------------ MODULE HllDense ------------------------------
(***************************************************************************)
(* The dense representation of a hyperloglog (hyperloglog.c): registers of *)
(* six bits packed into bytes, a register in one byte or across two, and   *)
(* one spare byte at the end.                                              *)
(*                                                                         *)
(* A byte and a register are the sets of their bits that are 1, so that    *)
(* masks are intersections and differences, and shifts move the bits.      *)
(***************************************************************************)
EXTENDS Binary

CONSTANT HLL_P    \* 2^HLL_P registers; at least 2

ASSUME PAssumption == HLL_P \in Nat /\ HLL_P >= 2

HLL_REGISTERS == PowerOfTwo[HLL_P]
HLL_BITS == 6
HLL_DENSE_SIZE == ((HLL_REGISTERS * HLL_BITS + 7) \div 8) + 1

Bit == 0..7
HLL_REGISTER_MAX == 0..(HLL_BITS - 1)    \* all bits of a register

Regs == 0..(HLL_REGISTERS - 1)
Bytes == 0..(HLL_DENSE_SIZE - 1)

Dense == [Bytes -> SUBSET Bit]

Left(bits, n)  == {b + n : b \in bits}
Right(bits, n) == {b - n : b \in {c \in bits : c >= n}}

\* calloc(1, HLL_DENSE_SIZE)
NoBits == [x \in Bytes |-> {}]

HLL_DENSE_GET_REGISTER(p, r) ==
  LET byte == (r * HLL_BITS) \div 8
      fb   == (r * HLL_BITS) % 8
  IN  (Right(p[byte], fb) \cup Left(p[byte + 1], 8 - fb)) \cap HLL_REGISTER_MAX

\* As it would be if the second byte kept its old bits.
SetRegisterKeepsHigh(p, r, v) ==
  LET byte == (r * HLL_BITS) \div 8
      fb   == (r * HLL_BITS) % 8
  IN  [p EXCEPT
        ![byte]     = ((@ \ Left(HLL_REGISTER_MAX, fb)) \cup Left(v, fb)) \cap Bit,
        ![byte + 1] = @ \cup Right(v, 8 - fb)]

HLL_DENSE_SET_REGISTER(p, r, v) ==
  LET byte == (r * HLL_BITS) \div 8
      fb   == (r * HLL_BITS) % 8
  IN  [p EXCEPT
        ![byte]     = ((@ \ Left(HLL_REGISTER_MAX, fb)) \cup Left(v, fb)) \cap Bit,
        ![byte + 1] = (@ \ Right(HLL_REGISTER_MAX, 8 - fb)) \cup Right(v, 8 - fb)]

\* hllDenseSum(): the unrolled loop takes registers in groups, each with its
\* own shifts (16 registers in 12 bytes are four times 4 in 3).
SummedRegister(p, r) ==
  LET q == 3 * (r \div 4)
  IN  (CASE r % 4 = 0 -> p[q]
         [] r % 4 = 1 -> Right(p[q], 6) \cup Left(p[q + 1], 2)
         [] r % 4 = 2 -> Right(p[q + 1], 4) \cup Left(p[q + 2], 4)
         [] r % 4 = 3 -> Right(p[q + 2], 2)) \cap HLL_REGISTER_MAX

\* byte_slice_bitwise_or() of two dense representations.
BitwiseOr(p, q) == [x \in Bytes |-> p[x] \cup q[x]]

=============================================================================
