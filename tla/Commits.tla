------------------------------- MODULE Commits -------------------------------
(***************************************************************************)
(* What the database of a browser and the table of the server know of a    *)
(* commit: its ref, which determines its parents.                          *)
(***************************************************************************)
EXTENDS Selection

CONSTANTS
    NoRef,         \* undefined
    ParentsOf(_)   \* baseRef and mergeRef of a commit, those that it has
=============================================================================
