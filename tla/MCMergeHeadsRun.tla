--------------------------- MODULE MCMergeHeadsRun ---------------------------
(***************************************************************************)
(* mergeHeads on every commit graph of at most MaxCommits commits that     *)
(* clients can build.  A commit is a number, in the order of creation.     *)
(***************************************************************************)
EXTENDS MergeHeadsRun

CONSTANT MaxCommits  \* the size of the graphs

MCNoRef == 0

MCSortRefs(r1, r2) == r1 < r2

(* A merge's ref is a function of the heads it is made of, and greater     *)
(* than every commit's.                                                    *)
MCMergedRef(base, left, right) ==
    LET heads(r) == IF r <= MaxCommits THEN 2^r ELSE r - MaxCommits
    IN  MaxCommits + heads(left) + heads(right)

MCRef == 1 .. MaxCommits \cup {MaxCommits + 2 * n : n \in 1 .. 2^MaxCommits - 1}

MCMadeOf(r, heads) ==
    LET made == IF r <= MaxCommits THEN {r}
                ELSE {h \in 1 .. MaxCommits : ((r - MaxCommits) \div 2^h) % 2 = 1}
    IN  IF made \subseteq heads THEN made ELSE {}

(* A client writes a commit on a root of its own, on the commit it shows   *)
(* or as the merge of two heads: commits neither of which is above the     *)
(* other, in the order of their refs.                                      *)
NewCommits(g) ==
    LET parents(r) == {g[r].base, g[r].merge} \ {NoRef}
        up[r \in DOMAIN g] == {r} \cup UNION {up[p] : p \in parents(r)}
    IN  {[base |-> b, merge |-> NoRef] : b \in DOMAIN g \cup {NoRef}}
        \cup {[base |-> c[1], merge |-> c[2]] : c \in
                {p \in (DOMAIN g) \X (DOMAIN g) :
                    SortRefs(p[1], p[2]) /\ p[1] \notin up[p[2]] /\ p[2] \notin up[p[1]]}}

GraphsOf ==
    LET of[n \in 0 .. MaxCommits] ==
            IF n = 0 THEN {<<>>}
            ELSE UNION {{Append(g, c) : c \in NewCommits(g)} : g \in of[n - 1]}
    IN  of

ManyHeads(g) ==
    Cardinality(DOMAIN g \ UNION {{g[r].base, g[r].merge} : r \in DOMAIN g}) > 1

MCGraphs == {g \in UNION {GraphsOf[n] : n \in 2 .. MaxCommits} : ManyHeads(g)}
=============================================================================
