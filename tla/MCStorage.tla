------------------------------ MODULE MCStorage ------------------------------
(***************************************************************************)
(* Storage on small instances.                                             *)
(***************************************************************************)
EXTENDS Storage, TLC

CONSTANTS e1, e2, e3, r1

=============================================================================
