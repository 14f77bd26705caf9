--------------------------- MODULE MCServerQuiet ----------------------------
(***************************************************************************)
(* Server with clients that make at most MaxRequests requests, so that the *)
(* channels cannot fill up for good and liveness can be asked for.         *)
(***************************************************************************)
EXTENDS MCServer

CONSTANT MaxRequests

VARIABLE requests

QuietInit == Init /\ requests = 0

QuietNext ==
  \/ ClientRequest /\ requests < MaxRequests /\ requests' = requests + 1
  \/ ServerStep /\ UNCHANGED requests

QuietSpec == QuietInit /\ [][QuietNext]_<<vars, requests>> /\ Fairness

=============================================================================
