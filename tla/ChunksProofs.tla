---------------------------- MODULE ChunksProofs -----------------------------
(***************************************************************************)
(* The bit-parallel kernel computes the rule B3/S23, for every chunk size, *)
(* every content and every halo.                                           *)
(***************************************************************************)
EXTENDS Chunks, Basics

\* The cell at column x, row y of a chunk with its halo around it: both run
\* from -1 to CHUNK_SIZE.
HaloCell(rows, halo, x, y) ==
  IF y \in Idx
  THEN IF x < 0 THEN y \in halo.left ELSE IF x > Last THEN y \in halo.right ELSE x \in rows[y]
  ELSE IF x < 0 THEN (IF y < 0 THEN "TL" ELSE "BL") \in halo.corners
  ELSE IF x > Last THEN (IF y < 0 THEN "TR" ELSE "BR") \in halo.corners
  ELSE IF y < 0 THEN x \in halo.top ELSE x \in halo.bottom

\* The live cells of a chunk and its halo.
LiveCells(rows, halo) ==
  {p \in (-1..CHUNK_SIZE) \X (-1..CHUNK_SIZE) : HaloCell(rows, halo, p[1], p[2])}

\* How many of the eight cells around (x, y) are in L.
LiveNeighbours(L, x, y) ==
  Bit(<<x - 1, y - 1>>, L) + Bit(<<x, y - 1>>, L) + Bit(<<x + 1, y - 1>>, L)
    + Bit(<<x - 1, y>>, L) + Bit(<<x + 1, y>>, L)
    + Bit(<<x - 1, y + 1>>, L) + Bit(<<x, y + 1>>, L) + Bit(<<x + 1, y + 1>>, L)

-----------------------------------------------------------------------------
\* The bit formula at the end of the kernel is the rule.
LEMMA RuleBits ==
  ASSUME NEW s, NEW mid, NEW x, Value(s, x) \in 0..8
  PROVE  x \in (s.s1 \cap (s.s0 \cup mid)) \ (s.s2 \cup s.s3)
           <=> (Value(s, x) = 3 \/ (Value(s, x) = 2 /\ x \in mid))
BY BitIs DEF Value

-----------------------------------------------------------------------------
\* The shifted rows hold the cells to the left and to the right, the halo's at
\* the borders: above and below a row ...
LEMMA ShiftsOfRowAt ==
  ASSUME NEW rows \in Rows, NEW halo \in EdgeBundle, NEW x \in Idx, NEW y \in -1..CHUNK_SIZE
  PROVE  /\ x \in ShiftUp(RowAt(rows, halo, y), LeftBit(halo, y)) <=> HaloCell(rows, halo, x - 1, y)
         /\ x \in RowAt(rows, halo, y) <=> HaloCell(rows, halo, x, y)
         /\ x \in ShiftDown(RowAt(rows, halo, y), RightBit(halo, y)) <=> HaloCell(rows, halo, x + 1, y)
<1> USE SizeAssumption DEF Idx, Last
<1>1. RowAt(rows, halo, y) \subseteq Idx
  BY DEF RowAt, Rows, Row, EdgeBundle
<1>2. y \in Idx <=> ~(y < 0) /\ ~(y > Last)
  OBVIOUS
<1>3. x \in ShiftUp(RowAt(rows, halo, y), LeftBit(halo, y)) <=> HaloCell(rows, halo, x - 1, y)
  BY <1>1, <1>2 DEF ShiftUp, RowAt, LeftBit, HaloCell
<1>4. x \in RowAt(rows, halo, y) <=> HaloCell(rows, halo, x, y)
  BY <1>2 DEF RowAt, HaloCell
<1>5. x \in ShiftDown(RowAt(rows, halo, y), RightBit(halo, y)) <=> HaloCell(rows, halo, x + 1, y)
  BY <1>1, <1>2 DEF ShiftDown, RowAt, RightBit, HaloCell
<1> QED BY <1>3, <1>4, <1>5

(***************************************************************************)
(* chunk.rs: the kernel is "the standard B3/S23 rule": a cell is alive     *)
(* after a step exactly if three of its neighbours were, or two were and   *)
(* it was itself.  Neighbours outside the chunk are those of the halo.     *)
(***************************************************************************)
THEOREM KernelIsLife ==
  ASSUME NEW rows \in Rows, NEW halo \in EdgeBundle, NEW x \in Idx, NEW y \in Idx
  PROVE  x \in Kernel(rows, halo)[y]
           <=> LET n == LiveNeighbours(LiveCells(rows, halo), x, y)
               IN n = 3 \/ (n = 2 /\ x \in rows[y])
<1> DEFINE L == LiveCells(rows, halo)
           top == RowAt(rows, halo, y - 1)
           mid == rows[y]
           bot == RowAt(rows, halo, y + 1)
           n1 == ShiftUp(top, LeftBit(halo, y - 1))
           n3 == ShiftDown(top, RightBit(halo, y - 1))
           n4 == ShiftUp(mid, LeftBit(halo, y))
           n5 == ShiftDown(mid, RightBit(halo, y))
           n6 == ShiftUp(bot, LeftBit(halo, y + 1))
           n8 == ShiftDown(bot, RightBit(halo, y + 1))
           a1 == Add(ZeroCount, n1)
           a2 == Add(a1, top)
           a3 == Add(a2, n3)
           a4 == Add(a3, n4)
           a5 == Add(a4, n5)
           a6 == Add(a5, n6)
           a7 == Add(a6, bot)
           s  == Add(a7, n8)
<1>1. /\ y - 1 \in -1..CHUNK_SIZE /\ y \in -1..CHUNK_SIZE /\ y + 1 \in -1..CHUNK_SIZE
      /\ RowAt(rows, halo, y) = mid
  BY SizeAssumption DEF Idx, Last, RowAt
<1>2. /\ x \in n1 <=> HaloCell(rows, halo, x - 1, y - 1)
      /\ x \in top <=> HaloCell(rows, halo, x, y - 1)
      /\ x \in n3 <=> HaloCell(rows, halo, x + 1, y - 1)
  BY <1>1, ShiftsOfRowAt
<1>3. /\ x \in n4 <=> HaloCell(rows, halo, x - 1, y)
      /\ x \in n5 <=> HaloCell(rows, halo, x + 1, y)
  BY <1>1, ShiftsOfRowAt
<1>4. /\ x \in n6 <=> HaloCell(rows, halo, x - 1, y + 1)
      /\ x \in bot <=> HaloCell(rows, halo, x, y + 1)
      /\ x \in n8 <=> HaloCell(rows, halo, x + 1, y + 1)
  BY <1>1, ShiftsOfRowAt
<1>5. RowCount(rows, halo, y) = s
  BY DEF RowCount
<1>6. \A i, j \in -1..1 : <<x + i, y + j>> \in L <=> HaloCell(rows, halo, x + i, y + j)
  <2> TAKE i, j \in -1..1
  <2>1. <<x + i, y + j>> \in (-1..CHUNK_SIZE) \X (-1..CHUNK_SIZE)
    BY SizeAssumption DEF Idx, Last
  <2> QED BY <2>1 DEF LiveCells
<1> HIDE DEF top, mid, bot, n1, n3, n4, n5, n6, n8
<1>61. /\ a2 = Add(a1, top) /\ a3 = Add(a2, n3) /\ a4 = Add(a3, n4) /\ a5 = Add(a4, n5)
       /\ a6 = Add(a5, n6) /\ a7 = Add(a6, bot) /\ s = Add(a7, n8) /\ a1 = Add(ZeroCount, n1)
  OBVIOUS
<1>62. /\ <<x - 1, y - 1>> \in L <=> HaloCell(rows, halo, x - 1, y - 1)
       /\ <<x, y - 1>> \in L <=> HaloCell(rows, halo, x, y - 1)
       /\ <<x + 1, y - 1>> \in L <=> HaloCell(rows, halo, x + 1, y - 1)
       /\ <<x - 1, y>> \in L <=> HaloCell(rows, halo, x - 1, y)
       /\ <<x + 1, y>> \in L <=> HaloCell(rows, halo, x + 1, y)
       /\ <<x - 1, y + 1>> \in L <=> HaloCell(rows, halo, x - 1, y + 1)
       /\ <<x, y + 1>> \in L <=> HaloCell(rows, halo, x, y + 1)
       /\ <<x + 1, y + 1>> \in L <=> HaloCell(rows, halo, x + 1, y + 1)
  <2> HIDE DEF L
  <2>1. /\ x \in Int /\ y \in Int
        /\ x - 1 = x + (-1) /\ x = x + 0 /\ y - 1 = y + (-1) /\ y = y + 0
    BY SizeAssumption DEF Idx, Last
  <2> QED BY <1>6, <2>1
<1> HIDE DEF a1, a2, a3, a4, a5, a6, a7, s
<1>7. Value(s, x) = Bit(x, n1) + Bit(x, top) + Bit(x, n3) + Bit(x, n4)
                      + Bit(x, n5) + Bit(x, n6) + Bit(x, bot) + Bit(x, n8)
  BY <1>61, EightCount
<1>8. Value(s, x) \in 0..8
  BY <1>7, BitIs
<1> HIDE DEF L
<1>9. /\ Bit(x, n1) = Bit(<<x - 1, y - 1>>, L)
      /\ Bit(x, top) = Bit(<<x, y - 1>>, L)
      /\ Bit(x, n3) = Bit(<<x + 1, y - 1>>, L)
      /\ Bit(x, n4) = Bit(<<x - 1, y>>, L)
      /\ Bit(x, n5) = Bit(<<x + 1, y>>, L)
      /\ Bit(x, n6) = Bit(<<x - 1, y + 1>>, L)
      /\ Bit(x, bot) = Bit(<<x, y + 1>>, L)
      /\ Bit(x, n8) = Bit(<<x + 1, y + 1>>, L)
  BY <1>2, <1>3, <1>4, <1>62, BitIs
<1>10. Value(s, x) = LiveNeighbours(L, x, y)
  BY <1>7, <1>9 DEF LiveNeighbours
<1>11. Kernel(rows, halo)[y] = (s.s1 \cap (s.s0 \cup mid)) \ (s.s2 \cup s.s3)
  BY <1>5 DEF Kernel, mid
<1>12. x \in Kernel(rows, halo)[y] <=> (Value(s, x) = 3 \/ (Value(s, x) = 2 /\ x \in mid))
  BY <1>8, <1>11, RuleBits
<1> QED BY <1>10, <1>12 DEF mid, L

=============================================================================
