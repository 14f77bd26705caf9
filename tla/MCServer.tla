------------------------------ MODULE MCServer ------------------------------
(***************************************************************************)
(* Server on small instances.                                              *)
(***************************************************************************)
EXTENDS Server, TLC

CONSTANTS c1, c2, p1, p2

PeerSymmetry == Permutations({p1, p2})

=============================================================================
