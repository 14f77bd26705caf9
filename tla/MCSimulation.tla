---------------------------- MODULE MCSimulation -----------------------------
(***************************************************************************)
(* Simulation on small instances: chunks of 5 x 5 cells.                   *)
(***************************************************************************)
EXTENDS Simulation, TLC

\* Horizontal blinker with its centre at (x, y).
BlinkerAt(x, y) == {<<x - 1, y>>, <<x, y>>, <<x + 1, y>>}
\* A glider moving to the lower right.
GliderAt(x, y) == {<<x, y + 2>>, <<x + 1, y>>, <<x + 1, y + 2>>, <<x + 2, y + 1>>, <<x + 2, y + 2>>}

\* A diagonal through the corner of four chunks; it dies out.
Diagonal  == {<<-1, -1>>, <<0, 0>>, <<1, 1>>}
\* A blinker across the border of (0, 0) and (1, 0).
Straddles == BlinkerAt(5, 2)
\* A blinker with a glider in the chunk to the left, which reaches the border
\* when the blinker may be paused, and crosses it.
Attacked  == BlinkerAt(2, 2) \cup GliderAt(-5, 0)

AllBoards == {Diagonal, Straddles, Attacked}

\* A region in chunk (-1, -1), at the corner of the blinker's.
Alive     == {<<-3, -3>>}
Dead      == {<<-2, -2>>}

ClaimSets == {{<<0, 0>>}}
Edits     == {<<2, 2>>, <<-1, -1>>, <<-2, -2>>}
Watch     == {<<0, 0>>}
=============================================================================
