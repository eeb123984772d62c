-------------------------- MODULE MCTrimergeClient --------------------------
(***************************************************************************)
(* Clients with refs that TLC can compute: a ref is the record of what     *)
(* computeRef hashes, so two clients that make the same commit make the    *)
(* same ref.                                                               *)
(***************************************************************************)
EXTENDS TrimergeClient, TLC

CONSTANTS
    SameEdits, \* may two users make the same edit
    Temp,      \* does the merge function make temp merges
    MaxDepth,  \* bound: the longest chain of commits
    MaxSteps   \* bound: steps of one call of mergeHeads

NewRef(base, merge, over, delta) ==
    [on |-> [base |-> base, merge |-> merge, over |-> over], delta |-> delta]

MCBaseOf(r) == r.on.base
MCMergeOf(r) == r.on.merge
MCEditRef(base, d) == NewRef(base, NoRef, NoRef, d)

(* A user has an edit of his own, named like the client; with SameEdits he *)
(* makes that of any user, and so the same commit.                         *)
MCDeltaOf(c) == IF SameEdits THEN Client ELSE {c}

(* Commits of the old version: a first one and two branches on it, which a *)
(* tab of that version left unmerged.                                      *)
OldCommit(base, n) == NewRef(base, NoRef, NoRef, <<"old", "old2", "old3">>[n])
OldRoot == OldCommit(NoRef, 1)
OldBranches == <<OldRoot, OldCommit(OldRoot, 2), OldCommit(OldRoot, 3)>>
OldChildFirst == <<OldCommit(OldRoot, 2), OldRoot>>

NoSeeds == {<<>>}
BranchesSeed == {OldBranches}
OldSeeds == {OldBranches, OldChildFirst}

MCMigratedRef(r) ==
    IF r \in ToSet(OldBranches) THEN NewRef(r, NoRef, NoRef, "migrate") ELSE r

Migrated(r) == IF r = NoRef THEN NoRef ELSE MCMigratedRef(r)

(* A merge's delta depends on the documents that were merged.              *)
MCMergedRef(base, left, right) ==
    NewRef(Migrated(left), Migrated(right), Migrated(base), "merge")

Deltas == Client \cup {"merge", "migrate"} \cup {"old", "old2", "old3"}

MCRef ==
    LET refs[n \in 0 .. MaxDepth] ==
            IF n = 0 THEN {}
            ELSE [on : [{"base", "merge", "over"} -> refs[n - 1] \cup {NoRef}],
                  delta : Deltas]
    IN  refs[MaxDepth]

(* A total order on refs, whatever it is: by delta, then by base, then by  *)
(* merge, then by the base of the merge.                                   *)
Rank(d) == CHOOSE n \in 1 .. 25 :
    <<"a", "b", "c", "d", "e", "f", "g", "h", "i", "j", "k", "l", "m", "merge", "migrate",
      "old", "old2", "old3", "u", "v", "w", "x", "y", "z", "">>[n] = d

RECURSIVE MCSortRefs(_, _)
MCSortRefs(r1, r2) ==
    CASE r1 = r2    -> FALSE
      [] r1 = NoRef -> TRUE
      [] r2 = NoRef -> FALSE
      [] OTHER ->
            IF r1.delta # r2.delta THEN Rank(r1.delta) < Rank(r2.delta)
            ELSE IF r1.on.base # r2.on.base THEN MCSortRefs(r1.on.base, r2.on.base)
            ELSE IF r1.on.merge # r2.on.merge THEN MCSortRefs(r1.on.merge, r2.on.merge)
            ELSE MCSortRefs(r1.on.over, r2.on.over)

MCParentRefs(r) == [base |-> r.on.base, merge |-> r.on.merge]

Branches == INSTANCE MergeAllBranches WITH
    SortRefs <- MCSortRefs,
    MergedRef <- MCMergedRef,
    ParentRefs <- MCParentRefs,
    MigratedRef <- MCMigratedRef,
    MergeTemp <- Temp

MCPlanMerges(heads, known) == Branches!MergeCalls(heads, known)
=============================================================================
