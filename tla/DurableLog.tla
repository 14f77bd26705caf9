----------------------------- MODULE DurableLog ------------------------------
(***************************************************************************)
(* What persistence promises: a history that only grows while the server   *)
(* runs, of which a crash takes back an end, and never what was made safe. *)
(* The history is of what the log is told, edits and ticks; what else      *)
(* makes a world is no part of it.                                         *)
(***************************************************************************)
EXTENDS Naturals, Sequences

CONSTANT Item   \* what happens to a world: ticks and edits

VARIABLES
  history,   \* what has happened to the world, oldest first
  safe       \* how much of it a crash cannot take back

Init == history = << >> /\ safe = 0

Happen == \E item \in Item : history' = Append(history, item) /\ UNCHANGED safe

MakeSafe == safe' \in safe..Len(history) /\ UNCHANGED history

Restart ==
  /\ \E kept \in safe..Len(history) : history' = SubSeq(history, 1, kept)
  /\ safe' \in safe..Len(history')

Next == Happen \/ MakeSafe \/ Restart

Spec == Init /\ [][Next]_<<history, safe>>

=============================================================================
