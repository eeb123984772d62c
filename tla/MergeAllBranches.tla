-------------------------- MODULE MergeAllBranches --------------------------
(***************************************************************************)
(* makeMergeAllBranchesFn (merge-all-helper.ts), the mergeAllBranches      *)
(* option that the library offers: mergeHeads with a callback that brings  *)
(* the base and the two sides up to date (computeLatestDoc), merges the    *)
(* three documents and adds the merge as a commit.                         *)
(***************************************************************************)
EXTENDS MergeHeads, FiniteSets

CONSTANTS
    ParentRefs(_),   \* [base, merge] of the commit with this ref
    MigratedRef(_),  \* the ref of the migrated commit, itself if up to date
    MergeTemp,       \* the merge function's `temp' (TRUE if it leaves it out)
    MaxSteps         \* bound: steps of one call of mergeHeads

(* computeLatestDoc: a temp commit when the doc is of an old version.      *)
ComputeLatestDoc(r) ==
    IF r = NoRef \/ MigratedRef(r) = r THEN <<>>
    ELSE <<[op |-> "temp", ref |-> MigratedRef(r)]>>

(* The callback: base, left and right are migrated, then addMerge.         *)
MergeCallback(m) ==
    ComputeLatestDoc(m.base) \o ComputeLatestDoc(m.left) \o ComputeLatestDoc(m.right)
        \o <<[op |-> IF MergeTemp THEN "temp" ELSE "local", ref |-> m.ref]>>

(* A whole call of mergeHeads: the state it is in after MaxSteps steps, as *)
(* a set of one element, since the function is deterministic.              *)
RunsOf(heads, commits) ==
    LET graph == [r \in commits |-> ParentRefs(r)]
        after[n \in 0 .. MaxSteps] ==
            IF n = 0 THEN {InitRun(heads)} ELSE {Step(graph, s) : s \in after[n - 1]}
    IN  after[MaxSteps]

(* The calls of addNewCommit that mergeAllBranches(heads, helpers) makes.  *)
MergeCalls(heads, commits) ==
    LET calls(merges) == FlattenSeq([n \in DOMAIN merges |-> MergeCallback(merges[n])])
    IN  CHOOSE plan \in {calls(s.merges) : s \in RunsOf(heads, commits)} : TRUE
=============================================================================
