----------------------------- MODULE PlainLife ------------------------------
(***************************************************************************)
(* What the world promises: Conway's Game of Life (B3/S23) on an unbounded *)
(* plane without chunks, pauses or bookkeeping.  Locked cells never        *)
(* change; a cell inside a claim does not feel cells outside of claims.    *)
(***************************************************************************)
EXTENDS Integers, FiniteSets

CONSTANTS
  Size,          \* the claims' granularity: claimed squares are Size wide
  LockedAlive,   \* locked cells that are alive
  LockedDead     \* locked cells that are dead

VARIABLES
  cells,         \* the live cells
  claimed        \* the claimed squares

plain_vars == <<cells, claimed>>

Square(p) == <<p[1] \div Size, p[2] \div Size>>
Locked    == LockedAlive \cup LockedDead

Around(p) == {<<p[1] + i, p[2] + j>> : i \in -1..1, j \in -1..1} \ {p}

\* How many of the live cells L the cell p feels, if C is claimed.
Neighbours(L, C, p) ==
  Cardinality({q \in Around(p) \cap L : Square(p) \in C => Square(q) \in C})

\* One generation on: born with three neighbours, surviving with two or three.
Grown(L, C) ==
  LockedAlive \cup
    ({p \in L \cup UNION {Around(q) : q \in L} :
        LET n == Neighbours(L, C, p) IN n = 3 \/ (n = 2 /\ p \in L)} \ Locked)

Generation ==
  /\ cells' = Grown(cells, claimed)
  /\ UNCHANGED claimed

Draw(p, alive) ==
  /\ p \notin Locked
  /\ cells' = IF alive THEN cells \cup {p} ELSE cells \ {p}
  /\ UNCHANGED claimed

\* Squares without a locked cell are wiped.
Wipe(S) ==
  /\ \A p \in Locked : Square(p) \notin S
  /\ cells' = {p \in cells : Square(p) \notin S}
  /\ UNCHANGED claimed

Claim == UNCHANGED cells

\* Whatever is not a generation.
Touch ==
  \/ \E p \in cells \cup cells', alive \in BOOLEAN : Draw(p, alive)
  \/ \E S \in SUBSET {Square(p) : p \in cells} : Wipe(S)
  \/ Claim

Next == Generation \/ Touch

=============================================================================
