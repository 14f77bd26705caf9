------------------------------ MODULE Detector -------------------------------
(***************************************************************************)
(* The cycle detector of simulation/src/oscillator.rs: per chunk a ring of *)
(* the last HISTORY hashes.  A function from coords to rings; a ring that  *)
(* is full waits in the pending queue for a scan.                          *)
(***************************************************************************)
EXTENDS Integers, Sequences, FiniteSets, Functions

CONSTANT MAX_PERIOD   \* 5 in the code

ASSUME PeriodAssumption == MAX_PERIOD \in Nat \ {0}

HISTORY == MAX_PERIOD * 3

EmptyRing == [hashes |-> << >>, in_pending |-> FALSE]

\* Mutant: the oldest hash is not overwritten.
ObservedGrowing(rings, reports) ==
  [c \in DOMAIN rings \cup DOMAIN reports |->
     IF c \notin DOMAIN reports THEN rings[c]
     ELSE LET old == IF c \in DOMAIN rings THEN rings[c] ELSE EmptyRing
              all == Append(old.hashes, reports[c])
          IN [hashes     |-> all,
              in_pending |-> old.in_pending \/ Len(all) >= HISTORY]]

\* observe() for the reports of one tick, hash by coord.
Observed(rings, reports) ==
  [c \in DOMAIN rings \cup DOMAIN reports |->
     IF c \notin DOMAIN reports THEN rings[c]
     ELSE LET old == IF c \in DOMAIN rings THEN rings[c] ELSE EmptyRing
              all == Append(old.hashes, reports[c])
          IN [hashes     |-> IF Len(all) > HISTORY THEN Tail(all) ELSE all,
              in_pending |-> old.in_pending \/ Len(all) >= HISTORY]]

Forgotten(rings, S) == Restrict(rings, DOMAIN rings \ S)

\* Periods p such that the last 2p hashes equal those p reports before.
Periods(hashes) ==
  {p \in 1..MAX_PERIOD :
     \A i \in 0..(2 * p - 1) : hashes[HISTORY - i] = hashes[HISTORY - i - p]}

\* Coords a scan of the pending coords S asks to promote, with the least period.
Requests(rings, S) ==
  {q \in [coord: S, period: 1..MAX_PERIOD] :
     LET found == Periods(rings[q.coord].hashes)
     IN /\ Len(rings[q.coord].hashes) = HISTORY
        /\ q.period \in found
        /\ \A p \in found : q.period <= p}

Scanned(rings, S) ==
  LET found == {r.coord : r \in Requests(rings, S)}
  IN [c \in DOMAIN rings \ found |-> IF c \in S THEN [rings[c] EXCEPT !.in_pending = FALSE] ELSE rings[c]]

=============================================================================
