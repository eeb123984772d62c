---------------------------- MODULE MCServerDoc ----------------------------
(***************************************************************************)
(* A chain of three commits.                                               *)
(***************************************************************************)
EXTENDS ServerDoc

MCRef == 1 .. 3
MCParents(r) == <<{}, {1}, {2}>>[r]

(* In order, and (once the other is there) repeated and out of order, or   *)
(* with a parent missing.                                                  *)
MCBatch == {<<1, 2>>, <<3, 2>>}

Symmetry == Permutations(Conn) \cup Permutations(Store)
=============================================================================
