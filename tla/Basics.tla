-------------------------------- MODULE Basics --------------------------------
(***************************************************************************)
(* Lemmas that belong to no component: induction over the naturals, and    *)
(* what the bit counter counts.                                            *)
(***************************************************************************)
EXTENDS Counts, WellFoundedInduction, TLAPS

-----------------------------------------------------------------------------
(* Induction over the naturals, stated for a set.  The library states it   *)
(* for an operator, which the provers cannot instantiate; for the set of   *)
(* the numbers that have a property it says the same.                      *)

\* A set of naturals that is not empty has a least element.
LEMMA LeastElement ==
  ASSUME NEW S \in SUBSET Nat, S # {}
  PROVE  \E n \in S : \A m \in S : n <= m
  <1> DEFINE R == OpToRel(<, Nat)
  <1>1. IsWellFoundedOn(R, Nat)
    BY NatLessThanWellFounded
  <1>2. \A x, y \in Nat : <<y, x>> \in R <=> y < x
    BY DEF OpToRel
  <1> HIDE DEF R
  <1>3. PICK n \in S : \A m \in S : ~(<<m, n>> \in R)
    BY WFMin, <1>1
  <1>4. n \in Nat
    OBVIOUS
  <1>5. \A m \in S : m \in Nat /\ ~(m < n)
    BY <1>2, <1>3, <1>4
  <1>6. \A m \in S : n <= m
    BY <1>4, <1>5
  <1> QED BY <1>3, <1>6

\* A set that holds 0, and with a natural the next one, holds them all.
LEMMA SetInduction ==
  ASSUME NEW S, 0 \in S, \A n \in Nat : n \in S => n + 1 \in S
  PROVE  Nat \subseteq S
  <1> SUFFICES ASSUME Nat \ S # {}
               PROVE  FALSE
    OBVIOUS
  <1> DEFINE U == Nat \ S
  <1>1. U \in SUBSET Nat /\ U # {}
    OBVIOUS
  <1>2. PICK n \in U : \A m \in U : n <= m
    <2> HIDE DEF U
    <2> QED BY LeastElement, <1>1
  <1>3. n \in Nat /\ n # 0 /\ n \notin S
    BY <1>2
  <1>4. n - 1 \in Nat /\ n - 1 \notin U
    BY <1>2, <1>3
  <1>5. n - 1 \in S
    BY <1>4
  <1> QED BY <1>3, <1>4, <1>5

-----------------------------------------------------------------------------
(* Eight additions to an empty counter count the eight rows they add. *)

Bit(e, S) == IF e \in S THEN 1 ELSE 0

\* The number the count s holds in column x.
Value(s, x) == Bit(x, s.s0) + 2 * Bit(x, s.s1) + 4 * Bit(x, s.s2) + 8 * Bit(x, s.s3)

-----------------------------------------------------------------------------
\* One addition, column by column.
LEMMA AddBits ==
  ASSUME NEW s, NEW n, NEW x
  PROVE  /\ x \in Add(s, n).s0 <=> ~(x \in s.s0 <=> x \in n)
         /\ x \in Add(s, n).s1 <=> ~(x \in s.s1 <=> x \in s.s0 /\ x \in n)
         /\ x \in Add(s, n).s2 <=> ~(x \in s.s2 <=> x \in s.s1 /\ x \in s.s0 /\ x \in n)
         /\ x \in Add(s, n).s3 <=> (x \in s.s3 \/ (x \in s.s2 /\ x \in s.s1 /\ x \in s.s0 /\ x \in n))
<1>1. ASSUME NEW S, NEW T, NEW U, U = Xor(S, T)
      PROVE  x \in U <=> ~(x \in S <=> x \in T)
  BY <1>1, Zenon DEF Xor
<1>2. Add(s, n).s0 = Xor(s.s0, n)
  BY Zenon DEF Add
<1>3. Add(s, n).s1 = Xor(s.s1, s.s0 \cap n)
  BY Zenon DEF Add
<1>4. Add(s, n).s2 = Xor(s.s2, s.s1 \cap s.s0 \cap n)
  BY Zenon DEF Add
<1>5. Add(s, n).s3 = s.s3 \cup (s.s2 \cap s.s1 \cap s.s0 \cap n)
  BY Zenon DEF Add
<1>6. x \in Add(s, n).s0 <=> ~(x \in s.s0 <=> x \in n)
  BY <1>1, <1>2
<1>7. x \in Add(s, n).s1 <=> ~(x \in s.s1 <=> x \in s.s0 \cap n)
  BY <1>1, <1>3
<1>8. x \in Add(s, n).s2 <=> ~(x \in s.s2 <=> x \in s.s1 \cap s.s0 \cap n)
  BY <1>1, <1>4
<1>9. x \in Add(s, n).s3 <=> (x \in s.s3 \/ x \in s.s2 \cap s.s1 \cap s.s0 \cap n)
  BY <1>5, Zenon
<1>10. /\ x \in s.s0 \cap n <=> x \in s.s0 /\ x \in n
       /\ x \in s.s1 \cap s.s0 \cap n <=> x \in s.s1 /\ x \in s.s0 /\ x \in n
       /\ x \in s.s2 \cap s.s1 \cap s.s0 \cap n
            <=> x \in s.s2 /\ x \in s.s1 /\ x \in s.s0 /\ x \in n
  BY Zenon
<1> QED BY <1>6, <1>7, <1>8, <1>9, <1>10, Zenon

LEMMA BitIs ==
  \A e, S : /\ Bit(e, S) \in {0, 1}
            /\ e \in S <=> Bit(e, S) = 1
BY DEF Bit

\* One addition adds one neighbour, as long as the four bits can hold it.
LEMMA AddCounts ==
  ASSUME NEW s, NEW n, NEW x, Value(s, x) < 8
  PROVE  Value(Add(s, n), x) = Value(s, x) + Bit(x, n)
<1> DEFINE t == Add(s, n)
<1>1. /\ x \in t.s0 <=> ~(x \in s.s0 <=> x \in n)
      /\ x \in t.s1 <=> ~(x \in s.s1 <=> x \in s.s0 /\ x \in n)
      /\ x \in t.s2 <=> ~(x \in s.s2 <=> x \in s.s1 /\ x \in s.s0 /\ x \in n)
      /\ x \in t.s3 <=> (x \in s.s3 \/ (x \in s.s2 /\ x \in s.s1 /\ x \in s.s0 /\ x \in n))
  BY AddBits, Zenon
<1> HIDE DEF t
<1>2. Value(t, x) = Value(s, x) + Bit(x, n)
  BY <1>1, BitIs DEF Value
<1> QED BY <1>2 DEF t

\* Eight additions to an empty count give the number of neighbours.
LEMMA EightCount ==
  ASSUME NEW n1, NEW n2, NEW n3, NEW n4, NEW n5, NEW n6, NEW n7, NEW n8, NEW x,
         NEW a1, a1 = Add(ZeroCount, n1),
         NEW a2, a2 = Add(a1, n2),
         NEW a3, a3 = Add(a2, n3),
         NEW a4, a4 = Add(a3, n4),
         NEW a5, a5 = Add(a4, n5),
         NEW a6, a6 = Add(a5, n6),
         NEW a7, a7 = Add(a6, n7),
         NEW a8, a8 = Add(a7, n8)
  PROVE  Value(a8, x) = Bit(x, n1) + Bit(x, n2) + Bit(x, n3) + Bit(x, n4)
                          + Bit(x, n5) + Bit(x, n6) + Bit(x, n7) + Bit(x, n8)
<1> DEFINE b(n) == Bit(x, n)
<1>0. /\ Value(ZeroCount, x) = 0
      /\ \A n : b(n) \in 0..1
  BY BitIs DEF Value, ZeroCount
<1>1. Value(a1, x) = b(n1)
  BY <1>0, AddCounts
<1>2. Value(a2, x) = b(n1) + b(n2)
  BY <1>0, <1>1, AddCounts
<1>3. Value(a3, x) = b(n1) + b(n2) + b(n3)
  BY <1>0, <1>2, AddCounts
<1>4. Value(a4, x) = b(n1) + b(n2) + b(n3) + b(n4)
  BY <1>0, <1>3, AddCounts
<1>5. Value(a5, x) = b(n1) + b(n2) + b(n3) + b(n4) + b(n5)
  BY <1>0, <1>4, AddCounts
<1>6. Value(a6, x) = b(n1) + b(n2) + b(n3) + b(n4) + b(n5) + b(n6)
  BY <1>0, <1>5, AddCounts
<1>7. Value(a7, x) = b(n1) + b(n2) + b(n3) + b(n4) + b(n5) + b(n6) + b(n7)
  BY <1>0, <1>6, AddCounts
<1>8. Value(a8, x) = b(n1) + b(n2) + b(n3) + b(n4) + b(n5) + b(n6) + b(n7) + b(n8)
  BY <1>0, <1>7, AddCounts
<1> QED BY <1>8

=============================================================================
