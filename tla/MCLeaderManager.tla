-------------------------- MODULE MCLeaderManager --------------------------
(***************************************************************************)
(* A few tabs, identified by numbers.  The order of clientIds matters, so  *)
(* there is no symmetry to exploit.                                        *)
(***************************************************************************)
EXTENDS LeaderManager
=============================================================================
