------------------------------- MODULE Binary -------------------------------
(***************************************************************************)
(* Numbers in binary: what the macros of hyperloglog.c do with masks and   *)
(* shifts on registers that are packed into memory bit by bit.  Recursive  *)
(* definitions are functions.                                              *)
(***************************************************************************)
EXTENDS Integers, Sequences

\* 2^n
PowerOfTwo[n \in Nat] == IF n = 0 THEN 1 ELSE 2 * PowerOfTwo[n - 1]

\* The sums of the first elements of a sequence of numbers, from that of none.
Sums(s) == LET sum[n \in 0..Len(s)] == IF n = 0 THEN 0 ELSE sum[n - 1] + s[n] IN sum

\* The number whose last bits, as many as width, are these.
NumberOf(bits, width) ==
  Sums([n \in 1..width |-> IF n - 1 \in bits THEN PowerOfTwo[n - 1] ELSE 0])[width]

\* The last bits of a number, as many as width, that are 1.
NumberBits(n, width) == {b \in 0..(width - 1) : (n \div PowerOfTwo[b]) % 2 = 1}

=============================================================================
