--------------------------- MODULE BloomOffsets ---------------------------
(***************************************************************************)
(* bloom_determine_offsets() of src/src/bloom.c: the bits of a filter that *)
(* stand for one hash.  Each multiplication of the hash by the number of   *)
(* bits still free yields an overflow below that number; an insertion into *)
(* the sorted offsets turns it into a bit that was not chosen yet.         *)
(*                                                                         *)
(* The hash is seen only through the overflows byte_slice_mul64() and      *)
(* byte_slice_mul32() return, so an overflow is any number in range.       *)
(***************************************************************************)
EXTENDS Integers, FiniteSets

CONSTANTS
  FilterSizes,   \* sizes of a filter, in bytes
  OffsetCounts,  \* numbers of offsets asked for (number_of_hashes)
  Wrap           \* 2^32: where the uint32_t `_new` wraps around

ASSUME BloomAssumption ==
  /\ FilterSizes \subseteq Nat \ {0}
  /\ OffsetCounts \subseteq Nat \ {0}
  /\ Wrap \in Nat
  /\ \A f \in FilterSizes : 8 * f < Wrap  \* assert(filtersize < (1 << 29))

VARIABLES
  bits,        \* number of bits in the filter
  len,         \* bit_offsets_len
  bit_offsets,
  bs,          \* bits that are still free
  j,
  i,
  overflow,
  new,         \* _new
  bloomPc

bloomVars == <<bits, len, bit_offsets, bs, j, i, overflow, new, bloomPc>>

\* num_bits: a filter with too few bits bounds the number of offsets.
NumBits == IF len > bits THEN bits ELSE len

BloomInit ==
  /\ bits \in {8 * f : f \in FilterSizes}
  /\ len \in OffsetCounts
  /\ bit_offsets = [t \in 0..(len - 1) |-> 0]
  /\ bs = bits
  /\ j = NumBits
  /\ i = 0
  /\ overflow = 0
  /\ new = 0
  /\ bloomPc = "draw"

\* byte_slice_mul64() or byte_slice_mul32(), for the next offset.
Draw ==
  /\ bloomPc = "draw"
  /\ j > 0
  /\ overflow' \in 0..(bs - 1)
  /\ new' = overflow'
  /\ i' = j - 1
  /\ bloomPc' = "insert"
  /\ UNCHANGED <<bits, len, bit_offsets, bs, j>>

\* Mutant: a drawn number equal to a chosen offset is not moved on.
PassesStrict == i + 1 < NumBits /\ new > bit_offsets[i + 1]

\* The condition of the insertion loop.
Passes == i + 1 < NumBits /\ new >= bit_offsets[i + 1]

\* Mutant: the drawn number is not corrected for the offset it passes.
ShiftPlain ==
  /\ bloomPc = "insert"
  /\ Passes
  /\ bit_offsets' = [bit_offsets EXCEPT ![i] = bit_offsets[i + 1]]
  /\ i' = i + 1
  /\ UNCHANGED <<bits, len, bs, j, overflow, new, bloomPc>>

\* One turn of the insertion loop.
Shift ==
  /\ bloomPc = "insert"
  /\ Passes
  /\ bit_offsets' = [bit_offsets EXCEPT ![i] = bit_offsets[i + 1]]
  /\ i' = i + 1
  /\ new' = (new + 1) % Wrap
  /\ UNCHANGED <<bits, len, bs, j, overflow, bloomPc>>

\* The insertion loop ends.
Place ==
  /\ bloomPc = "insert"
  /\ ~Passes
  /\ bit_offsets' = [bit_offsets EXCEPT ![i] = new]
  /\ bs' = bs - 1
  /\ j' = j - 1
  /\ bloomPc' = "draw"
  /\ UNCHANGED <<bits, len, i, overflow, new>>

\* All offsets are determined; bloom_set() and bloom_is_set() use them.
Determined ==
  /\ bloomPc = "draw"
  /\ j = 0
  /\ bloomPc' = "done"
  /\ UNCHANGED <<bits, len, bit_offsets, bs, j, i, overflow, new>>

BloomNext == Draw \/ Shift \/ Place \/ Determined

BloomSpec == BloomInit /\ [][BloomNext]_bloomVars

----------------------------------------------------------------------------
BloomTypeOK ==
  /\ bits \in 8..(Wrap - 1)
  /\ len \in Nat \ {0}
  /\ bit_offsets \in [0..(len - 1) -> Int]
  /\ bs \in Nat
  /\ j \in 0..NumBits
  /\ i \in 0..(NumBits - 1)
  /\ overflow \in Int
  /\ new \in Int
  /\ bloomPc \in {"draw", "insert", "done"}

\* The positions of bit_offsets that hold a chosen offset: while one is being
\* inserted, position i is free.
Filled == IF bloomPc = "insert" THEN ((j - 1)..(NumBits - 1)) \ {i} ELSE j..(NumBits - 1)

Chosen == {bit_offsets[t] : t \in Filled}

\* However often the insertion shifts, and up to the last bit of a filter that
\* is smaller than number_of_hashes, chosen offsets stay in strictly increasing
\* order and inside the filter: bloom_set() writes no other bit, and as many
\* different bits as were asked for.
OffsetsSorted ==
  /\ \A t \in Filled : bit_offsets[t] \in 0..(bits - 1)
  /\ \A s, t \in Filled : s < t => bit_offsets[s] < bit_offsets[t]

\* When the insertion ends, the new offset is the one with number `overflow`
\* among the bits not chosen so far.  Each free bit is hit by exactly one
\* overflow: a uniform hash samples bits uniformly, without replacement.
PicksFreeBit ==
  bloomPc = "insert" /\ ~Passes =>
    /\ new \in (0..(bits - 1)) \ Chosen
    /\ Cardinality({b \in 0..(new - 1) : b \notin Chosen}) = overflow

\* What bloom_set() sets, with the entries past num_bits, which stay 0: exactly
\* num_bits bits of the filter, even when more were asked for than it has.
SetsNumBits ==
  bloomPc = "done" =>
    LET set == {bit_offsets[t] : t \in DOMAIN bit_offsets}
    IN  set \subseteq 0..(bits - 1) /\ Cardinality(set) = NumBits

----------------------------------------------------------------------------
\* The inductive invariant: what has been passed lies below the number being
\* inserted, which has grown by one for each of them; entries past num_bits keep
\* the 0 memset() gave them.
BloomInv ==
  /\ BloomTypeOK
  /\ OffsetsSorted
  /\ bs = bits - (NumBits - j)
  /\ \A t \in NumBits..(len - 1) : bit_offsets[t] = 0
  /\ bloomPc = "done" => j = 0
  /\ bloomPc = "insert" =>
       /\ j > 0
       /\ i \in (j - 1)..(NumBits - 1)
       /\ overflow \in 0..(bs - 1)
       /\ new = overflow + (i - (j - 1))
       /\ \A t \in (j - 1)..(i - 1) : bit_offsets[t] < new

=============================================================================
