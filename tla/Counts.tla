------------------------------- MODULE Counts --------------------------------
(***************************************************************************)
(* The counter of chunk.rs kernel_scalar: one number for every column of a *)
(* row, held as four rows of bits and counted up by one row at a time.  A  *)
(* row, a u64 in the code, is the set of the columns whose bit is set.     *)
(***************************************************************************)

Xor(a, b) == (a \ b) \cup (b \ a)

\* The four bits of the neighbour count, for every column of a row.
ZeroCount == [s0 |-> {}, s1 |-> {}, s2 |-> {}, s3 |-> {}]

\* Add one neighbour row to the count, rippling the carries.
Add(s, n) ==
  [s0 |-> Xor(s.s0, n),
   s1 |-> Xor(s.s1, s.s0 \cap n),
   s2 |-> Xor(s.s2, s.s1 \cap s.s0 \cap n),
   s3 |-> s.s3 \cup (s.s2 \cap s.s1 \cap s.s0 \cap n)]

=============================================================================
