---------------------------- MODULE MergeHeadsRun ----------------------------
(***************************************************************************)
(* A call of mergeHeads (merge-heads.ts) as a state machine: the heads of  *)
(* a commit graph are walked until one head is left.                       *)
(*                                                                         *)
(* The graph does not change during the call as far as the walk can tell:  *)
(* the merge callback adds commits to the client, but a merged visitor     *)
(* goes on from the commits its two visitors had reached, so the walk      *)
(* never visits a commit that the callback added.                          *)
(***************************************************************************)
EXTENDS MergeHeads, FiniteSets

CONSTANTS
    Ref,           \* the refs of commits, those of merges among them
    Graphs,        \* the commit graphs a client may call mergeHeads on
    MadeOf(_, _)   \* those of some heads that a head or a merge is made of

(* The heads of a graph: "no child nodes".                                 *)
HeadsOf(g) == DOMAIN g \ UNION {ParentsIn(g, r) : r \in DOMAIN g}

(* Refs can be compared (sortVisitors).                                    *)
ASSUME OrderAssumption ==
    /\ NoRef \notin Ref
    /\ \A r1, r2 \in Ref :
          /\ r1 = r2 => ~SortRefs(r1, r2)
          /\ r1 # r2 => SortRefs(r1, r2) \/ SortRefs(r2, r1)
          /\ \A r3 \in Ref : SortRefs(r1, r2) /\ SortRefs(r2, r3) => SortRefs(r1, r3)

(* Graphs are finite and have no cycle, and the parents of a commit are    *)
(* there.  The caller has more than one head (TrimergeClient.mergeHeads).  *)
ASSUME GraphsAssumption ==
    \A g \in Graphs :
        /\ IsFiniteSet(DOMAIN g) /\ DOMAIN g \subseteq Ref /\ HeadsOf(g) # {}
        /\ \A r \in DOMAIN g : ParentsIn(g, r) \subseteq DOMAIN g
        /\ \A S \in SUBSET DOMAIN g :
              S # {} => \E r \in S : ParentsIn(g, r) \cap S = {}
        /\ \A r \in DOMAIN g : MadeOf(r, HeadsOf(g)) = {r} \cap HeadsOf(g)

(* The ref of a commit is a hash of its content and its parents' refs: the *)
(* ref of a merge tells which heads it is made of, and is not in the       *)
(* graph, where the heads have no child.                                   *)
ASSUME MergedRefAssumption ==
    \A heads \in {HeadsOf(g) : g \in Graphs} :
        LET sides == {r \in Ref : MadeOf(r, heads) # {}}
        IN  \A left, right \in sides :
                MadeOf(left, heads) \cap MadeOf(right, heads) = {} =>
                    \A base \in Ref \cup {NoRef} :
                        LET ref == MergedRef(base, left, right)
                        IN  /\ ref \in Ref
                            /\ MadeOf(ref, heads) = MadeOf(left, heads) \cup MadeOf(right, heads)

VARIABLES
    graph,  \* ref -> [base, merge], the commits of the client
    run     \* the local variables of mergeHeads (module MergeHeads)

vars == <<graph, run>>

-----------------------------------------------------------------------------
Parents(r) == ParentsIn(graph, r)

Heads == HeadsOf(graph)

Init ==
    /\ graph \in Graphs
    /\ run = InitRun(Heads)

MeetNext ==
    /\ CanMeet(run)
    /\ run' = Meet(run)
    /\ UNCHANGED graph

WalkUpNext ==
    /\ CanWalkUp(run)
    /\ run' = WalkUp(graph, run)
    /\ UNCHANGED graph

EndLeafNext ==
    /\ CanEndLeaf(run)
    /\ run' = EndLeaf(run)
    /\ UNCHANGED graph

EndRoundNext ==
    /\ CanEndRound(run)
    /\ run' = EndRound(run)
    /\ UNCHANGED graph

MergeRootsNext ==
    /\ CanMergeRoots(run)
    /\ run' = MergeRoots(run)
    /\ UNCHANGED graph

ReturnNext ==
    /\ CanReturn(run)
    /\ run' = Return(run)
    /\ UNCHANGED graph

Next ==
    \/ MeetNext
    \/ WalkUpNext
    \/ EndLeafNext
    \/ EndRoundNext
    \/ MergeRootsNext
    \/ ReturnNext

Spec == Init /\ [][Next]_vars /\ WF_vars(Next)

-----------------------------------------------------------------------------
(* The ancestors of a commit, itself included; for a merge made during the *)
(* run, the ancestors of the heads it is made of.                          *)

AncestorsIn(g) ==
    LET up[r \in DOMAIN g] == {r} \cup UNION {up[p] : p \in ParentsIn(g, r)}
    IN  up

AncestorsOf == AncestorsIn(graph)

MergeOf(ref) == CHOOSE m \in ToSet(run.merges) : m.ref = ref

LeavesOf(n) ==
    LET m == run.merges
        under[k \in 0 .. n] ==
            IF k = 0 THEN [r \in Heads |-> {r}]
            ELSE [r \in DOMAIN under[k - 1] \cup {m[k].ref} |->
                    IF r = m[k].ref
                    THEN under[k - 1][m[k].left] \cup under[k - 1][m[k].right]
                    ELSE under[k - 1][r]]
    IN  under[n]

(* The commits below which both sides of the n-th merge lie.               *)
CommonAncestors(n) ==
    LET leaves == LeavesOf(n - 1)
        above(ref) == UNION {AncestorsOf[h] : h \in leaves[ref]}
    IN  above(run.merges[n].left) \cap above(run.merges[n].right)

Merges == DOMAIN run.merges

-----------------------------------------------------------------------------
(* Types of the record that stands for the function's local variables.     *)
TypeOK ==
    /\ run.phase \in {"iterate", "roots", "done", "thrown"}
    /\ run.round.i \in 1 .. Len(run.visitors) + 1
    /\ run.round.k \in Nat \ {0}
    /\ ToSet(run.round.next) \subseteq DOMAIN graph
    /\ \A n \in DOMAIN run.visitors :
          /\ ToSet(run.visitors[n].current) \subseteq run.visitors[n].seen
          /\ run.visitors[n].seen \subseteq DOMAIN graph

(* The base given to a merge is an ancestor of both sides, so the three    *)
(* documents handed to the merge function really are a base and two        *)
(* descendants of it (merge-heads.ts:75).                                  *)
BaseIsCommonAncestor ==
    \A n \in Merges :
        run.merges[n].base # NoRef => run.merges[n].base \in CommonAncestors(n)

(* A merge without a base is made only of commits that have no ancestor in *)
(* common (merge-heads.ts:99-105): no walk gives up too early.             *)
NoBaseMeansUnrelated ==
    \A n \in Merges : run.merges[n].base = NoRef => CommonAncestors(n) = {}

(* Every head goes into the result exactly once: when the call returns,    *)
(* the merges form one binary tree over the heads, and nothing is merged   *)
(* with itself or twice (merge-heads.ts:51-64).                            *)
EveryHeadMergedOnce ==
    run.phase = "done" =>
        LET used == [n \in Merges |-> {run.merges[n].left, run.merges[n].right}]
            made == {run.merges[n].ref : n \in Merges}
        IN  /\ Len(run.visitors) = 1
            /\ \A n \in Merges : Cardinality(used[n]) = 2
            /\ \A m, n \in Merges : m # n => used[m] \cap used[n] = {}
            /\ (UNION {used[n] : n \in Merges}) \cup {run.visitors[1].ref} = Heads \cup made

(* Heads of one graph are never ancestors of each other, so the check for  *)
(* base === left/right (merge-heads.ts:55) never fires on a legal graph.   *)
NoThrow == run.phase # "thrown"

(* The call returns: the rounds end although a walk may visit a commit     *)
(* again after a merge, and a merged visitor starts from both of its       *)
(* visitors' places (merge-heads.ts:60, 97).                               *)
Returns == <>(run.phase = "done")
=============================================================================
