----------------------------- MODULE MergeHeads -----------------------------
(***************************************************************************)
(* The algorithm of merge-heads.ts.  Given the head commits of a document  *)
(* it walks the commit graph upwards from every head at once, breadth      *)
(* first, and merges two heads as soon as one walk reaches a commit that   *)
(* the other has seen; heads that never meet are merged without a base.    *)
(*                                                                         *)
(* The local variables of the function form one record, the state of a     *)
(* run.  Each operator below is one step of the function on that record:   *)
(* module MergeHeadsRun makes them the actions of a specification, and     *)
(* module MergeAllBranches iterates them to obtain the merges of a call.   *)
(*                                                                         *)
(* A graph maps the ref of a commit to its base and merge refs.            *)
(***************************************************************************)
EXTENDS SequencesExt, Selection

CONSTANTS
    NoRef,           \* undefined, as a ref
    SortRefs(_, _),  \* TRUE iff the first visitor sorts before the second
    MergedRef(_,_,_) \* the ref that merge(base, left, right) returns

-----------------------------------------------------------------------------
(* Sets with an insertion order: the program's Set objects.  Undefined is   *)
(* never added to one.                                                     *)

AddRef(refs, r) == IF r \in ToSet(refs) \cup {NoRef} THEN refs ELSE Append(refs, r)

AddRefs(refs, more) == refs \o Among(more, {n \in DOMAIN more : more[n] \notin ToSet(refs)})

-----------------------------------------------------------------------------
NewVisitor(r) == [ref |-> r, current |-> <<r>>, seen |-> {r}]

(* The visitors of the heads, sorted once: a merged visitor takes the      *)
(* place of the visitor that was being walked.                             *)
InitVisitors(heads) ==
    LET sorted == Sorted(heads, SortRefs)
    IN  [n \in DOMAIN sorted |-> NewVisitor(sorted[n])]

NewRound == [i |-> 1, k |-> 1, next |-> <<>>, hasCommits |-> FALSE]

InitRun(heads) ==
    [visitors |-> InitVisitors(heads), round |-> NewRound, depth |-> 0,
     phase |-> "iterate", merges |-> <<>>]

Finished(s) == s.phase \in {"done", "thrown"}

-----------------------------------------------------------------------------
(* A bug: splice takes away the merged visitor.                            *)
MergeVisitorsWrongSplice(s, i, j, base) ==
    LET a == IF SortRefs(s.visitors[i].ref, s.visitors[j].ref) THEN s.visitors[i] ELSE s.visitors[j]
        b == IF a = s.visitors[i] THEN s.visitors[j] ELSE s.visitors[i]
        ref == MergedRef(base, a.ref, b.ref)
    IN  [s EXCEPT !.visitors = RemoveAt([@ EXCEPT ![i] =
                        [ref |-> ref, current |-> AddRefs(a.current, b.current),
                         seen |-> a.seen \cup b.seen]], i),
                  !.merges = Append(@, [base |-> base, left |-> a.ref, right |-> b.ref,
                                        ref |-> ref, depth |-> s.depth])]

(* mergeVisitors(i, j, base).                                              *)
MergeVisitors(s, i, j, base) ==
    LET leaf  == s.visitors[i]
        other == s.visitors[j]
        inOrder == SortRefs(leaf.ref, other.ref)
        a == IF inOrder THEN leaf ELSE other
        b == IF inOrder THEN other ELSE leaf
        merged == [ref     |-> MergedRef(base, a.ref, b.ref),
                   current |-> AddRefs(a.current, b.current),
                   seen    |-> a.seen \cup b.seen]
    IN  IF base \in {a.ref, b.ref} \ {NoRef}
        THEN [s EXCEPT !.phase = "thrown"]
        ELSE [s EXCEPT !.visitors = RemoveAt([@ EXCEPT ![i] = merged], j),
                       !.merges = Append(@, [base |-> base, left |-> a.ref,
                                             right |-> b.ref, ref |-> merged.ref,
                                             depth |-> s.depth])]

-----------------------------------------------------------------------------
(* iterate(): visitor i is the leaf, k is the place in leaf.current.       *)

InRound(s) == s.phase = "iterate" /\ s.round.i <= Len(s.visitors)

Leaf(s) == s.visitors[s.round.i]

AtCommit(s) == InRound(s) /\ s.round.k <= Len(Leaf(s).current)

CommitRef(s) == Leaf(s).current[s.round.k]

(* Bugs: a walk compares with itself, or only with the others' last round. *)
MeetingsWithItself(s) == {j \in DOMAIN s.visitors : CommitRef(s) \in s.visitors[j].seen}
MeetingsInRound(s) ==
    {j \in DOMAIN s.visitors \ {s.round.i} : Contains(s.visitors[j].current, CommitRef(s))}

(* The other visitors that have seen the commit this walk has reached.     *)
Meetings(s) ==
    {j \in DOMAIN s.visitors \ {s.round.i} : CommitRef(s) \in s.visitors[j].seen}

FirstMeeting(s) == CHOOSE j \in Meetings(s) : \A o \in Meetings(s) : j <= o

(* The two walks merge and the round starts again while two visitors or    *)
(* more are left.                                                          *)
CanMeet(s) == AtCommit(s) /\ Meetings(s) # {}

Meet(s) ==
    LET merged == MergeVisitors(s, s.round.i, FirstMeeting(s), CommitRef(s))
    IN  IF merged.phase = "thrown" THEN merged
        ELSE [merged EXCEPT !.round = NewRound,
                            !.phase = IF Len(merged.visitors) > 1
                                      THEN "iterate" ELSE "roots"]

ParentsIn(graph, r) == {graph[r].base, graph[r].merge} \ {NoRef}

(* A bug: the walk does not note what it has seen.                         *)
WalkUpUnseen(graph, s) ==
    LET commit  == graph[CommitRef(s)]
        parents == ParentsIn(graph, CommitRef(s))
    IN  [s EXCEPT !.round.next = AddRef(AddRef(@, commit.base), commit.merge),
                  !.round.hasCommits = @ \/ parents # {},
                  !.round.k = @ + 1]

(* Otherwise the walk goes on to the commit's base and merge refs.         *)
CanWalkUp(s) == AtCommit(s) /\ Meetings(s) = {}

WalkUp(graph, s) ==
    LET commit  == graph[CommitRef(s)]
        parents == ParentsIn(graph, CommitRef(s))
    IN  [s EXCEPT !.visitors[s.round.i].seen = @ \cup parents,
                  !.round.next = AddRef(AddRef(@, commit.base), commit.merge),
                  !.round.hasCommits = @ \/ parents # {},
                  !.round.k = @ + 1]

(* A bug: nextCommitRefs is shared by the leaves of a round.               *)
EndLeafSharesNext(s) ==
    [s EXCEPT !.visitors[s.round.i].current = s.round.next,
              !.round.i = @ + 1,
              !.round.k = 1]

(* Every commit of the leaf is visited: leaf.current = nextCommitRefs.     *)
CanEndLeaf(s) == InRound(s) /\ ~AtCommit(s)

EndLeaf(s) ==
    [s EXCEPT !.visitors[s.round.i].current = s.round.next,
              !.round.i = @ + 1,
              !.round.k = 1,
              !.round.next = <<>>]

(* A bug: the next round starts with this round's hasCommits.              *)
EndRoundForever(s) ==
    [s EXCEPT !.round = [NewRound EXCEPT !.hasCommits = s.round.hasCommits],
              !.phase = IF s.round.hasCommits THEN "iterate" ELSE "roots"]

(* Every leaf is visited: another round, unless no commit had a parent.    *)
CanEndRound(s) == s.phase = "iterate" /\ s.round.i > Len(s.visitors)

EndRound(s) ==
    [s EXCEPT !.depth = @ + 1,
              !.round = NewRound,
              !.phase = IF s.round.hasCommits THEN "iterate" ELSE "roots"]

-----------------------------------------------------------------------------
(* After the rounds: unconnected commits are merged from left to right     *)
(* without a base, then the function returns the ref of the last visitor.  *)
CanMergeRoots(s) == s.phase = "roots" /\ Len(s.visitors) > 1

MergeRoots(s) == MergeVisitors(s, 1, 2, NoRef)

CanReturn(s) == s.phase = "roots" /\ Len(s.visitors) <= 1

Return(s) == [s EXCEPT !.phase = "done"]

-----------------------------------------------------------------------------
(* The next step of a run: the function is deterministic.                  *)
Step(graph, s) ==
    CASE CanMeet(s)       -> Meet(s)
      [] CanWalkUp(s)     -> WalkUp(graph, s)
      [] CanEndLeaf(s)    -> EndLeaf(s)
      [] CanEndRound(s)   -> EndRound(s)
      [] CanMergeRoots(s) -> MergeRoots(s)
      [] CanReturn(s)     -> Return(s)
      [] OTHER            -> s
=============================================================================
