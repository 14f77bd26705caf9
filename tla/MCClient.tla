------------------------------ MODULE MCClient -------------------------------
(***************************************************************************)
(* A client of a small world: chunks of 5 x 5 cells, two of them in view.  *)
(***************************************************************************)
EXTENDS Client, TLC

\* Horizontal blinker with its centre at (x, y).
BlinkerAt(x, y) == {<<x - 1, y>>, <<x, y>>, <<x + 1, y>>}

Inside    == BlinkerAt(2, 2)
Straddles == BlinkerAt(5, 2)
AllBoards == {Inside, Straddles}

\* A region in (1, 0), which exists for ever.
Alive == {<<7, 3>>}
Dead  == {}

AllViews  == {{}, {<<0, 0>>}, {<<0, 0>>, <<1, 0>>}}
Edits     == {<<2, 2>>, <<7, 3>>}
ClaimSets == {{<<0, 0>>}}
=============================================================================
