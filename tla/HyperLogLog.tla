---------------------------- MODULE HyperLogLog ----------------------------
(***************************************************************************)
(* hyperloglog.c: a count of distinct elements that starts in a sparse,    *)
(* run-length encoded representation, is changed in place, and moves to    *)
(* the dense one when it grows too long; with a cached estimate.           *)
(*                                                                         *)
(* A hyperloglog is a record that the operators take and return.  The      *)
(* sparse representation is the sequence of its opcodes: which bits of its *)
(* bytes hold their fields follows from the fields being in range, which   *)
(* SparseSound states.  The floating-point estimate is a function of how   *)
(* many registers hold which value; that histogram stands for it.          *)
(*                                                                         *)
(* The state machine at the end is the count of a honas state:             *)
(* `count` through lookups, saves, loads and combinations.                 *)
(***************************************************************************)
EXTENDS HllDense, Sequences, FiniteSets, FiniteSetsExt, SequencesExt

CONSTANTS
  HashBits,                 \* 64
  HLL_SPARSE_VAL_MAX_VALUE, \* 32
  HLL_SPARSE_VAL_MAX_LEN,   \* 4
  HLL_SPARSE_ZERO_MAX_LEN,  \* 64
  HLL_SPARSE_XZERO_MAX_LEN, \* 16384
  HLL_SPARSE_MAX_BYTES,     \* 256
  Hashes,                   \* hashes of elements, as sets of the bits that are 1
  Others                    \* elements that were added to states to combine with

ASSUME HllAssumption ==
  /\ HashBits \in (HLL_P + 1)..(HLL_P + PowerOfTwo[HLL_BITS] - 1)
  /\ HLL_SPARSE_VAL_MAX_VALUE \in 1..(PowerOfTwo[HLL_BITS] - 1)
  /\ HLL_SPARSE_VAL_MAX_LEN \in Nat \ {0}
  /\ HLL_SPARSE_ZERO_MAX_LEN \in Nat \ {0}
  /\ HLL_SPARSE_XZERO_MAX_LEN \in Nat \ {0}
  /\ HLL_SPARSE_MAX_BYTES \in Nat
  /\ Hashes \subseteq SUBSET (0..(HashBits - 1))
  /\ Others \subseteq SUBSET Hashes

----------------------------------------------------------------------------
(* Elements and registers.                                                 *)

BitsOf(n) == NumberBits(n, HLL_BITS)

\* The register, and the length of the run of zeroes with the 1 that ends it.
hllPatLen(hash) ==
  [index |-> NumberOf(hash, HLL_P),
   count |-> Min({b \in hash : b >= HLL_P} \cup {HashBits - 1}) - HLL_P + 1]

\* A histogram: pairs of a value and the number of registers that have it.
Histogram(regs) ==
  {<<v, Cardinality({r \in Regs : regs[r] = v})>> : v \in {regs[r] : r \in Regs}}

----------------------------------------------------------------------------
(* Sparse representation.                                                  *)

ZERO(len)     == [op |-> "zero", len |-> len, val |-> 0]
XZERO(len)    == [op |-> "xzero", len |-> len, val |-> 0]
VAL(val, len) == [op |-> "val", len |-> len, val |-> val]

OpBytes(o) == IF o.op = "xzero" THEN 2 ELSE 1

SparseLen(ops) == Sums([k \in 1..Len(ops) |-> OpBytes(ops[k])])[Len(ops)]

\* The number of registers that the first opcodes cover.
Ends(ops) == Sums([k \in 1..Len(ops) |-> ops[k].len])
Covered(ops) == Ends(ops)[Len(ops)]

\* hllSparseAdd(), step 1: the opcode that covers the register, and `first`.
First(ops, k) == Ends(ops)[k - 1]
Locate(ops, index) ==
  CHOOSE k \in 1..Len(ops) : First(ops, k) <= index /\ index <= First(ops, k) + ops[k].len - 1

\* The values of the registers.
Values(ops) == [r \in Regs |-> ops[Locate(ops, r)].val]

ZeroRun(len) ==
  IF len = 0 THEN <<>>
  ELSE IF len > HLL_SPARSE_ZERO_MAX_LEN THEN <<XZERO(len)>> ELSE <<ZERO(len)>>

ValRun(val, len) == IF len = 0 THEN <<>> ELSE <<VAL(val, len)>>

\* Step 2: the sequence that replaces opcode o.  The cases of a run of one
\* register are those in which nothing is left on either side.
Split(o, first, index, count) ==
  LET last == first + o.len - 1
  IN  IF o.op = "val"
      THEN ValRun(o.val, index - first) \o <<VAL(count, 1)>> \o ValRun(o.val, last - index)
      ELSE ZeroRun(index - first) \o <<VAL(count, 1)>> \o ZeroRun(last - index)

Mergeable(ops, p) ==
  /\ p < Len(ops)
  /\ ops[p].op = "val"
  /\ ops[p + 1].op = "val"
  /\ ops[p].val = ops[p + 1].val
  /\ ops[p].len + ops[p + 1].len <= HLL_SPARSE_VAL_MAX_LEN

\* Step 4, one turn: two opcodes become one and are looked at again, or the
\* next one is.
MergeTurn(s) ==
  IF Mergeable(s.ops, s.p)
  THEN [s EXCEPT !.ops = SubSeq(@, 1, s.p - 1)
                           \o <<VAL(@[s.p].val, @[s.p].len + @[s.p + 1].len)>>
                           \o SubSeq(@, s.p + 2, Len(@))]
  ELSE [s EXCEPT !.p = @ + 1]

\* Up to five turns from the opcode before the changed one.
MergeAdjacent(ops, from) ==
  LET turn[n \in 0..5] == IF n = 0 THEN [ops |-> ops, p |-> from] ELSE MergeTurn(turn[n - 1])
  IN  turn[5].ops

----------------------------------------------------------------------------
(* Hyperloglogs.                                                           *)

\* The cached cardinality: <<>> when its highest bit says that it is not valid.
Invalid == <<>>

\* sound: no assertion failed and no representation was found corrupted.
hllInit ==
  LET full == HLL_REGISTERS \div HLL_SPARSE_XZERO_MAX_LEN
      rest == HLL_REGISTERS % HLL_SPARSE_XZERO_MAX_LEN
  IN  [encoding |-> "sparse",
       ops |-> [i \in 1..full |-> XZERO(HLL_SPARSE_XZERO_MAX_LEN)]
                 \o (IF rest > 0 THEN <<XZERO(rest)>> ELSE <<>>),
       dense |-> NoBits, owned |-> TRUE, sound |-> TRUE,
       card |-> <<{<<0, HLL_REGISTERS>>}>>]    \* 0

\* The opcodes of hllInit() fit the memory it allocates.
ASSUME InitFits == SparseLen(hllInit.ops) <= HLL_SPARSE_MAX_BYTES + 3

hllInitFromBuffer(registers) ==
  [encoding |-> "dense", ops |-> <<>>, dense |-> registers, owned |-> FALSE,
   sound |-> TRUE, card |-> Invalid]

\* Registers that are not zero are set, in order.
DenseFrom(values) ==
  LET dense[n \in 0..HLL_REGISTERS] ==
        IF n = 0 THEN NoBits
        ELSE IF values[n - 1] = 0 THEN dense[n - 1]
        ELSE HLL_DENSE_SET_REGISTER(dense[n - 1], n - 1, BitsOf(values[n - 1]))
  IN  dense[HLL_REGISTERS]

\* C_ERR, with nothing changed, if the opcodes do not cover the registers.
hllSparseToDense(h) ==
  IF h.encoding = "dense" THEN h
  ELSE IF Covered(h.ops) # HLL_REGISTERS THEN [h EXCEPT !.sound = FALSE]
  ELSE [h EXCEPT !.encoding = "dense", !.ops = <<>>, !.dense = DenseFrom(Values(h.ops))]

hllDenseAdd(h, e) ==
  IF e.count > NumberOf(HLL_DENSE_GET_REGISTER(h.dense, e.index), HLL_BITS)
  THEN [h EXCEPT !.dense = HLL_DENSE_SET_REGISTER(@, e.index, BitsOf(e.count))]
  ELSE h

\* assert(dense_retval == 1)
Promote(h, e) ==
  LET d == hllSparseToDense(h)
      a == hllDenseAdd(d, e)
  IN  IF d.encoding = "sparse" THEN d
      ELSE [a EXCEPT !.sound = @ /\ a.dense # d.dense]

\* As it would be if a full representation could still grow.
OverfullNever(h, delta) == FALSE

\* Step 3: no room for a longer sequence.
Overfull(h, delta) == delta > 0 /\ SparseLen(h.ops) > HLL_SPARSE_MAX_BYTES

hllSparseAdd(h, e) ==
  LET k   == Locate(h.ops, e.index)
      o   == h.ops[k]
      seq == Split(o, First(h.ops, k), e.index, e.count)
  IN  IF e.count > HLL_SPARSE_VAL_MAX_VALUE THEN Promote(h, e)
      ELSE IF o.op = "val" /\ o.val >= e.count THEN h
      ELSE IF Overfull(h, SparseLen(seq) - OpBytes(o)) THEN Promote(h, e)
      ELSE [h EXCEPT !.ops = MergeAdjacent(SubSeq(@, 1, k - 1) \o seq \o SubSeq(@, k + 1, Len(@)),
                                           IF k = 1 THEN 1 ELSE k - 1),
                     !.card = Invalid]

\* As it would be if only hllSparseAdd() threw the cached estimate away.
hllAddCached(h, hash) ==
  LET e == hllPatLen(hash)
  IN  IF h.encoding = "dense" THEN hllDenseAdd(h, e) ELSE hllSparseAdd(h, e)

\* Whatever was updated, or found corrupted, makes the cached estimate invalid.
hllAdd(h, hash) ==
  LET e   == hllPatLen(hash)
      new == IF h.encoding = "dense" THEN hllDenseAdd(h, e) ELSE hllSparseAdd(h, e)
  IN  IF new = h THEN h ELSE [new EXCEPT !.card = Invalid]

\* hllAdd() of one element after the other.
hllAddAll(h, hashes) ==
  LET added[n \in 0..Len(hashes)] == IF n = 0 THEN h ELSE hllAdd(added[n - 1], hashes[n])
  IN  added[Len(hashes)]

hllSparseSum(ops) ==
  {<<v, Sums([k \in 1..Len(ops) |-> IF ops[k].val = v THEN ops[k].len ELSE 0])[Len(ops)]>> :
     v \in {ops[k].val : k \in 1..Len(ops)}}

hllDenseSum(p) == Histogram([r \in Regs |-> NumberOf(SummedRegister(p, r), HLL_BITS)])

\* hllCount(): the hyperloglog afterwards; the estimate is its card[1].
hllCount(h) ==
  IF h.card # Invalid THEN h
  ELSE [h EXCEPT !.card = <<IF h.encoding = "dense" THEN hllDenseSum(h.dense)
                                                     ELSE hllSparseSum(h.ops)>>]

\* Registers are or-ed, not compared.
hllMerge(dst, src) ==
  [hllSparseToDense(dst) EXCEPT !.dense = BitwiseOr(@, hllSparseToDense(src).dense),
                                !.card = Invalid]

----------------------------------------------------------------------------
(***************************************************************************)
(* The count of host names of a state, as honas_state.c uses it.           *)
(***************************************************************************)
VARIABLES
  count,      \* host_name_count
  exact,      \* history: the registers what was added should leave
  combined    \* history: another state was combined into this one

countVars == <<count, exact, combined>>

NoRegs == [r \in Regs |-> 0]

Larger(a, b) == IF a > b THEN a ELSE b

\* The registers regs and one more element should leave.
ExactAdd(regs, hash) ==
  LET e == hllPatLen(hash) IN [regs EXCEPT ![e.index] = Larger(@, e.count)]

ExactAddAll(regs, hashes) ==
  LET added[n \in 0..Len(hashes)] == IF n = 0 THEN regs ELSE ExactAdd(added[n - 1], hashes[n])
  IN  added[Len(hashes)]

CountInit == count = hllInit /\ exact = NoRegs /\ combined = FALSE

\* honas_state_register_host_name_lookup()
Register(hash) ==
  /\ count' = hllAdd(count, hash)
  /\ exact' = ExactAdd(exact, hash)
  /\ UNCHANGED combined

\* honas_state_persist(): registers of their own move into the state's block,
\* which is zero, and the estimate is taken.
Persist ==
  /\ count' = hllCount(IF count.owned
                       THEN [hllInitFromBuffer(BitwiseOr(NoBits, hllSparseToDense(count).dense))
                              EXCEPT !.sound = hllSparseToDense(count).sound]
                       ELSE count)
  /\ UNCHANGED <<exact, combined>>

\* honas_state_load() of what was saved.
Load ==
  /\ ~count.owned
  /\ count' = [hllInitFromBuffer(count.dense) EXCEPT !.sound = count.sound]
  /\ UNCHANGED <<exact, combined>>

\* honas_state_aggregate_combine() with a state to which the elements of S were
\* added, loaded from its file.
Combine(S) ==
  LET hashes == SetToSeq(S)
      source == hllAddAll(hllInit, hashes)
  IN  /\ count' = hllMerge(count, hllInitFromBuffer(hllSparseToDense(source).dense))
      /\ exact' = ExactAddAll(exact, hashes)
      /\ combined' = TRUE

CountNext ==
  \/ \E hash \in Hashes : Register(hash)
  \/ Persist
  \/ Load
  \/ \E S \in Others : Combine(S)

CountSpec == CountInit /\ [][CountNext]_countVars

----------------------------------------------------------------------------
(* Properties.                                                             *)

\* The registers a hyperloglog stands for.
RegistersOf(h) ==
  IF h.encoding = "dense"
  THEN [r \in Regs |-> NumberOf(HLL_DENSE_GET_REGISTER(h.dense, r), HLL_BITS)]
  ELSE Values(h.ops)

\* The fields of an opcode fit their bits.
Fits(o) ==
  \/ o.op = "zero" /\ o.len \in 1..HLL_SPARSE_ZERO_MAX_LEN
  \/ o.op = "xzero" /\ o.len \in 1..HLL_SPARSE_XZERO_MAX_LEN
  \/ /\ o.op = "val"
     /\ o.len \in 1..HLL_SPARSE_VAL_MAX_LEN
     /\ o.val \in 1..HLL_SPARSE_VAL_MAX_VALUE

\* A sparse representation is one that can be read back and fits its memory:
\* opcodes cover the registers, their fields fit their bits, and it never
\* outgrows the HLL_SPARSE_MAX_BYTES + 3 bytes hllInit() allocates.
Sound(h) ==
  /\ h.sound
  /\ h.encoding = "sparse" =>
       /\ Covered(h.ops) = HLL_REGISTERS
       /\ SparseLen(h.ops) <= HLL_SPARSE_MAX_BYTES + 3
       /\ \A k \in 1..Len(h.ops) : Fits(h.ops[k])

\* Splitting and merging opcodes in place keeps the sparse representation
\* sound, and no promotion meets a corrupted one.
SparseSound == Sound(count)

\* Whatever the order of lookups, promotions, saves and loads, the registers
\* are those of the elements added; or-ing them with those of other states
\* leaves none too small.
RegistersAgree ==
  IF combined THEN \A r \in Regs : RegistersOf(count)[r] >= exact[r]
              ELSE RegistersOf(count) = exact

\* A cached estimate is that of the registers as they are: no addition or
\* combination leaves an old one valid, and both summations, over opcodes and
\* over groups of packed registers, see every register.
CachedIsCurrent ==
  count.card # Invalid => count.card[1] = Histogram(RegistersOf(count))

=============================================================================
