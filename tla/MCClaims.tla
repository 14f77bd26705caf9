------------------------------ MODULE MCClaims -------------------------------
(***************************************************************************)
(* Claims on a small instance: chunks of 2 x 2 cells, claims two wide and  *)
(* one high.  Of the sites (-1, 0), (0, 0), (1, 0), neighbours overlap and *)
(* the outer two do not; (2, 0) lies on the frozen region.                 *)
(***************************************************************************)
EXTENDS Claims, TLC

CONSTANTS u1, u2, p1

Sites   == {<<-1, 0>>, <<0, 0>>, <<1, 0>>, <<2, 0>>}
Cells   == {<<0, 1>>, <<-4, 0>>}
Regions_toml ==
  {[cells |-> {<<6, 0>>}, flags |-> {"FROZEN"}, owner |-> NoUser],
   [cells |-> {<<-4, 0>>, <<-4, 1>>}, flags |-> {"LOCKED"}, owner |-> NoUser]}

=============================================================================
