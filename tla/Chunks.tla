------------------------------- MODULE Chunks --------------------------------
(***************************************************************************)
(* A chunk of CHUNK_SIZE x CHUNK_SIZE cells and its Game of Life step      *)
(* (simulation/src/chunk.rs).  A row, a u64 in the code, is the set of the *)
(* columns whose bit is set: AND, OR and XOR of rows are set operations,   *)
(* and a shift moves the columns by one.                                   *)
(***************************************************************************)
EXTENDS Integers, Counts

CONSTANT CHUNK_SIZE   \* 64 in the code

ASSUME SizeAssumption == CHUNK_SIZE \in Nat \ {0}

Idx  == 0..(CHUNK_SIZE - 1)
Last == CHUNK_SIZE - 1

Row   == SUBSET Idx
Rows  == [Idx -> Row]

\* An EdgeBundle: what a chunk shows its neighbours, or what they show it.
Corner     == {"TL", "TR", "BL", "BR"}
EdgeBundle == [top: Row, bottom: Row, left: SUBSET Idx, right: SUBSET Idx, corners: SUBSET Corner]

EmptyRows   == [y \in Idx |-> {}]
EmptyBundle == [top |-> {}, bottom |-> {}, left |-> {}, right |-> {}, corners |-> {}]

\* frozen: the cells that are locked, each at its value; both empty if the
\* chunk has no frozen mask.
Frozen == [mask: Rows, value: Rows]
Chunk  == [rows: Rows, frozen: Frozen]

Unlocked     == [mask |-> EmptyRows, value |-> EmptyRows]
EmptyChunk   == [rows |-> EmptyRows, frozen |-> Unlocked]
IsEmpty(ch)  == ch.rows = EmptyRows
IsFrozen(ch) == ch.frozen.mask # EmptyRows

\* A cell is set unless it is locked.
SetCell(ch, x, y, alive) ==
  IF x \in ch.frozen.mask[y] THEN ch
  ELSE [ch EXCEPT !.rows[y] = IF alive THEN @ \cup {x} ELSE @ \ {x}]

Edges(ch) ==
  [top     |-> ch.rows[0],
   bottom  |-> ch.rows[Last],
   left    |-> {y \in Idx : 0 \in ch.rows[y]},
   right   |-> {y \in Idx : Last \in ch.rows[y]},
   corners |-> {k \in Corner :
                  \/ k = "TL" /\ 0 \in ch.rows[0]
                  \/ k = "TR" /\ Last \in ch.rows[0]
                  \/ k = "BL" /\ 0 \in ch.rows[Last]
                  \/ k = "BR" /\ Last \in ch.rows[Last]}]

-----------------------------------------------------------------------------
(* The kernel: neighbours counted for a whole row at a time, bit by bit. *)

\* The row above the first and the one below the last are the halo's.
RowAt(rows, halo, y) ==
  IF y < 0 THEN halo.top ELSE IF y > Last THEN halo.bottom ELSE rows[y]

LeftBit(halo, y) ==
  IF y < 0 THEN "TL" \in halo.corners ELSE IF y > Last THEN "BL" \in halo.corners ELSE y \in halo.left
RightBit(halo, y) ==
  IF y < 0 THEN "TR" \in halo.corners ELSE IF y > Last THEN "BR" \in halo.corners ELSE y \in halo.right

\* (row << 1) | bit and (row >> 1) | (bit << LAST_BIT), within CHUNK_SIZE bits.
ShiftUp(row, bit)   == {x \in Idx : x - 1 \in row \/ (x = 0 /\ bit)}
ShiftDown(row, bit) == {x \in Idx : x + 1 \in row \/ (x = Last /\ bit)}

\* The counts of row y: the three shifts of the rows above and below it, the
\* two of its own.
RowCount(rows, halo, y) ==
  LET top == RowAt(rows, halo, y - 1)
      mid == rows[y]
      bot == RowAt(rows, halo, y + 1)
      above  == Add(Add(Add(ZeroCount, ShiftUp(top, LeftBit(halo, y - 1))), top),
                    ShiftDown(top, RightBit(halo, y - 1)))
      beside == Add(Add(above, ShiftUp(mid, LeftBit(halo, y))), ShiftDown(mid, RightBit(halo, y)))
  IN Add(Add(Add(beside, ShiftUp(bot, LeftBit(halo, y + 1))), bot),
         ShiftDown(bot, RightBit(halo, y + 1)))

\* next = !s3 & !s2 & s1 & (s0 | alive)
Kernel(rows, halo) ==
  [y \in Idx |-> LET s == RowCount(rows, halo, y)
                 IN (s.s1 \cap (s.s0 \cup rows[y])) \ (s.s2 \cup s.s3)]

\* One step; frozen cells keep their values.  An empty
\* chunk with an empty halo is left as it is (StepResult::Unchanged).
Step(ch, halo) ==
  IF IsEmpty(ch) /\ halo = EmptyBundle THEN ch
  ELSE [ch EXCEPT !.rows =
          [y \in Idx |-> (Kernel(ch.rows, halo)[y] \ ch.frozen.mask[y])
                           \cup (ch.frozen.value[y] \cap ch.frozen.mask[y])]]

=============================================================================
