-------------------------- MODULE MergeHeadsProofs --------------------------
(***************************************************************************)
(* Theorems about a call of mergeHeads, for commit graphs of any size and  *)
(* shape.                                                                  *)
(*                                                                         *)
(* The inductive invariant IInv speaks of the heads that a visitor is made *)
(* of and of the commits that are still ahead of it:                       *)
(*   VisitorsInv  a visitor has seen, of the heads, just those it is made  *)
(*                of, and nothing that is not above them; no two visitors  *)
(*                are made of the same head;                               *)
(*   WalkInv      a commit that two visitors have both seen is above what  *)
(*                one of them has still to visit, so that the walks cannot *)
(*                end before they meet, and the parents of what a visitor  *)
(*                has seen are seen or still ahead;                        *)
(*   PlaceInv     where iterate() is in the round;                         *)
(*   MergesInv    each ref is the side of one merge or that of a visitor.  *)
(*                                                                         *)
(* That walks do not miss each other is not inductive by itself: a merged  *)
(* visitor drops the commits noted for the next round (they are above the  *)
(* current ones, which it visits again), so the invariant needs what is    *)
(* above a set of commits (Above), a recursive function whose existence    *)
(* and whose value are proved here by least counterexample.                *)
(***************************************************************************)
EXTENDS MergeHeadsRun, ListLemmas, TLAPS

-----------------------------------------------------------------------------
(* The inductive invariant.                                                *)

(* The heads of the graph that a ref is made of.                           *)
Made(g, r) == MadeOf(r, HeadsOf(g))

(* Commits and all that is above them.                                     *)
Above(g, refs) == UNION {AncestorsIn(g)[r] : r \in refs}

VisitorOK(g, v) ==
    /\ v \in [ref : Ref, current : {v.current}, seen : SUBSET DOMAIN g]
    /\ IsQueue(v.current) /\ Elements(v.current) \subseteq v.seen
    /\ Made(g, v.ref) # {} /\ Made(g, v.ref) = v.seen \cap HeadsOf(g)
    /\ v.seen \subseteq Above(g, Made(g, v.ref))

(* The refs that merges may have as sides, after the first n merges.       *)
Known(g, merges, n) == HeadsOf(g) \cup {merges[x].ref : x \in 1 .. n}

Sides(m) == {m.left, m.right}

MergeOK(g, m, known) ==
    /\ m \in [base : Ref \cup {NoRef}, left : Ref, right : Ref, ref : Ref, depth : Nat]
    /\ m.left # m.right /\ Sides(m) \subseteq known /\ m.ref \notin known
    /\ Made(g, m.ref) = Made(g, m.left) \cup Made(g, m.right)
    /\ m.base # NoRef =>
          m.base \in Above(g, Made(g, m.left)) \cap Above(g, Made(g, m.right))
    /\ m.base = NoRef => Above(g, Made(g, m.left)) \cap Above(g, Made(g, m.right)) = {}

Shape(s) ==
    /\ s \in [visitors : {s.visitors}, round : {s.round}, depth : Nat,
              phase : {"iterate", "roots", "done"}, merges : {s.merges}]
    /\ s.round \in [i : Nat \ {0}, k : Nat \ {0}, next : {s.round.next}, hasCommits : BOOLEAN]
    /\ IsQueue(s.visitors) /\ IsQueue(s.merges) /\ IsQueue(s.round.next)

(* Visitors are made of different heads.                                   *)
VisitorsInv(g, visitors) ==
    /\ \A n \in DOMAIN visitors : VisitorOK(g, visitors[n])
    /\ \A m, n \in DOMAIN visitors :
          m # n => Made(g, visitors[m].ref) \cap Made(g, visitors[n].ref) = {}

(* Where iterate() is.                                                     *)
PlaceInv(g, visitors, round, phase) ==
    /\ round.i <= Len(visitors) + 1
    /\ round.i \in DOMAIN visitors =>
          /\ Elements(round.next) \subseteq visitors[round.i].seen
          /\ \A r \in Elements(round.next) : \E n \in DOMAIN visitors[round.i].current :
                n < round.k /\ r \in ParentsIn(g, visitors[round.i].current[n])
    /\ round.i \notin DOMAIN visitors => round.next = <<>>
    /\ ~round.hasCommits => round.next = <<>> /\ \A n \in DOMAIN visitors :
          n < round.i => visitors[n].current = <<>>
    /\ phase # "iterate" => round = NewRound
    /\ phase # "iterate" => Len(visitors) = 1 \/ \A n \in DOMAIN visitors : visitors[n].current = <<>>
    /\ phase = "done" => Len(visitors) = 1

(* What a visitor has still to visit, at the place of the leaf.            *)
Unvisited(v, k, next) == {v.current[n] : n \in {x \in DOMAIN v.current : x >= k}} \cup Elements(next)

Ahead(g, visitors, round, n) ==
    Above(g, IF n = round.i THEN Unvisited(visitors[n], round.k, round.next)
             ELSE Elements(visitors[n].current))

(* Two visitors that have seen the same commit still have to find out, and *)
(* the parents of what a visitor has seen are seen or ahead.               *)
WalkInv(g, visitors, round) ==
    /\ \A m, n \in DOMAIN visitors : m # n =>
          visitors[m].seen \cap visitors[n].seen \subseteq
              Ahead(g, visitors, round, m) \cup Ahead(g, visitors, round, n)
    /\ \A n \in DOMAIN visitors : \A r \in visitors[n].seen :
          ParentsIn(g, r) \subseteq visitors[n].seen \/ r \in Ahead(g, visitors, round, n)

AllSides(merges) == UNION {Sides(merges[n]) : n \in DOMAIN merges}

Refs(visitors) == {visitors[n].ref : n \in DOMAIN visitors}

(* Every ref is a side of one merge or that of a visitor.                  *)
MergesInv(g, visitors, merges) ==
    /\ \A n \in DOMAIN merges : MergeOK(g, merges[n], Known(g, merges, n - 1))
    /\ \A r \in Known(g, merges, Len(merges)) : Made(g, r) # {}
          /\ \E n \in DOMAIN visitors : Made(g, r) \subseteq Made(g, visitors[n].ref)
    /\ \A m, n \in DOMAIN merges : m # n => Sides(merges[m]) \cap Sides(merges[n]) = {}
    /\ \A m \in DOMAIN merges : \A n \in DOMAIN visitors : visitors[n].ref \notin Sides(merges[m])
    /\ AllSides(merges) \cup Refs(visitors) = Known(g, merges, Len(merges))

RunInv(g, s) ==
    /\ Shape(s)
    /\ VisitorsInv(g, s.visitors)
    /\ PlaceInv(g, s.visitors, s.round, s.phase)
    /\ WalkInv(g, s.visitors, s.round)
    /\ MergesInv(g, s.visitors, s.merges)

IInv == graph \in Graphs /\ RunInv(graph, run)

-----------------------------------------------------------------------------
(* Graphs.                                                                 *)

Closed(g, S) == \A r \in S : ParentsIn(g, r) \subseteq S

IsAncestors(g, up) == up = [r \in DOMAIN g |-> {r} \cup UNION {up[p] : p \in ParentsIn(g, r)}]

LEMMA GraphFacts ==
    ASSUME NEW g \in Graphs
    PROVE  /\ IsFiniteSet(DOMAIN g) /\ DOMAIN g \subseteq Ref /\ NoRef \notin DOMAIN g
           /\ Closed(g, DOMAIN g) /\ HeadsOf(g) # {} /\ HeadsOf(g) \subseteq DOMAIN g
           /\ \A r \in DOMAIN g : Made(g, r) = {r} \cap HeadsOf(g)
           /\ \A r \in DOMAIN g : ParentsIn(g, r) \cap HeadsOf(g) = {}
<1>1. /\ IsFiniteSet(DOMAIN g) /\ DOMAIN g \subseteq Ref /\ HeadsOf(g) # {}
      /\ Closed(g, DOMAIN g) /\ \A r \in DOMAIN g : Made(g, r) = {r} \cap HeadsOf(g)
      BY GraphsAssumption DEF Closed, Made
<1>2. NoRef \notin DOMAIN g
      BY <1>1, OrderAssumption
<1>3. HeadsOf(g) \subseteq DOMAIN g
      BY DEF HeadsOf
<1>4. \A r \in DOMAIN g : ParentsIn(g, r) \cap HeadsOf(g) = {}
      BY DEF HeadsOf
<1> QED
    BY <1>1, <1>2, <1>3, <1>4

(* Graphs have no cycle.                                                   *)
LEMMA Acyclic ==
    ASSUME NEW g \in Graphs, NEW S \in SUBSET DOMAIN g, S # {}
    PROVE  \E r \in S : ParentsIn(g, r) \cap S = {}
BY GraphsAssumption

LEMMA AncestorsExist ==
    ASSUME NEW g \in Graphs
    PROVE  \E up : IsAncestors(g, up)
<1> DEFINE Has(S, r) == r \in S /\ Closed(g, S)
           f == [r \in DOMAIN g |-> {a \in DOMAIN g : \A S \in SUBSET DOMAIN g : Has(S, r) => a \in S}]
<1>1. Closed(g, DOMAIN g)
      BY GraphFacts
<1>2. \A r \in DOMAIN g : ParentsIn(g, r) \subseteq DOMAIN g
      BY <1>1 DEF Closed
<1> HIDE DEF Has
<1>3. ASSUME NEW r \in DOMAIN g
      PROVE  f[r] = {r} \cup UNION {f[p] : p \in ParentsIn(g, r)}
  <2> DEFINE up == {r} \cup UNION {f[p] : p \in ParentsIn(g, r)}
  <2>1. r \in f[r]
        BY DEF Has
  <2>2. ASSUME NEW p \in ParentsIn(g, r) PROVE f[p] \subseteq f[r]
    <3>1. p \in DOMAIN g
          BY <1>2
    <3>2. \A S \in SUBSET DOMAIN g : Has(S, r) => Has(S, p)
          BY DEF Has, Closed
    <3> QED
        BY <3>1, <3>2
  <2>3. f[r] \subseteq up
    <3>1. up \in SUBSET DOMAIN g
          BY <1>2
    <3>2. Closed(g, up)
      <4> SUFFICES ASSUME NEW x \in up, NEW y \in ParentsIn(g, x) PROVE y \in up
          BY DEF Closed
      <4>1. y \in DOMAIN g /\ x \in DOMAIN g
            BY <1>2, <3>1
      <4>2. CASE x = r
        <5>1. y \in f[y]
              BY <4>1 DEF Has
        <5> QED
            BY <4>2, <5>1
      <4>3. CASE x # r
        <5>1. PICK p \in ParentsIn(g, r) : x \in f[p]
              BY <4>3
        <5>2. p \in DOMAIN g
              BY <1>2
        <5>3. ASSUME NEW S \in SUBSET DOMAIN g, Has(S, p) PROVE y \in S
          <6>1. x \in S
                BY <5>1, <5>2, <5>3
          <6> QED
              BY <6>1, <5>3 DEF Has, Closed
        <5>4. y \in f[p]
              BY <4>1, <5>2, <5>3
        <5> QED
            BY <5>4
      <4> QED
          BY <4>2, <4>3
    <3>3. Has(up, r)
          BY <3>2 DEF Has
    <3> HIDE DEF up
    <3> QED
        BY <3>1, <3>3
  <2> HIDE DEF f
  <2>4. up \subseteq f[r]
        BY <2>1, <2>2
  <2> QED
      BY <2>3, <2>4
<1>4. f = [r \in DOMAIN g |-> f[r]]
      OBVIOUS
<1> HIDE DEF f
<1>5. IsAncestors(g, f)
      BY <1>3, <1>4 DEF IsAncestors
<1> QED
    BY <1>5

LEMMA Ancestors ==
    ASSUME NEW g \in Graphs, NEW r \in DOMAIN g
    PROVE  AncestorsIn(g)[r] = {r} \cup UNION {AncestorsIn(g)[p] : p \in ParentsIn(g, r)}
<1>1. AncestorsIn(g) = CHOOSE up : IsAncestors(g, up)
      BY DEF AncestorsIn, IsAncestors
<1>2. IsAncestors(g, AncestorsIn(g))
      BY <1>1, AncestorsExist
<1> QED
    BY <1>2 DEF IsAncestors

(* The ancestors of a commit are all commits above it.                     *)
LEMMA AncestorsClosed ==
    ASSUME NEW g \in Graphs, NEW r \in DOMAIN g
    PROVE  /\ r \in AncestorsIn(g)[r] /\ AncestorsIn(g)[r] \subseteq DOMAIN g
           /\ Closed(g, AncestorsIn(g)[r])
<1> DEFINE up == AncestorsIn(g)
           OK(x) == x \in up[x] /\ up[x] \subseteq DOMAIN g /\ Closed(g, up[x])
           Bad == {x \in DOMAIN g : ~OK(x)}
<1>1. SUFFICES ASSUME Bad # {} PROVE FALSE
      OBVIOUS
<1>2. PICK x \in Bad : ParentsIn(g, x) \cap Bad = {}
      BY <1>1, Acyclic
<1>3. x \in DOMAIN g /\ ParentsIn(g, x) \subseteq DOMAIN g
      BY GraphFacts DEF Closed
<1>4. up[x] = {x} \cup UNION {up[p] : p \in ParentsIn(g, x)}
      BY <1>3, Ancestors
<1> HIDE DEF up
<1>5. \A p \in ParentsIn(g, x) : p \in up[p] /\ up[p] \subseteq DOMAIN g /\ Closed(g, up[p])
      BY <1>2, <1>3
<1>6. x \in up[x] /\ up[x] \subseteq DOMAIN g
      BY <1>3, <1>4, <1>5
<1>7. ASSUME NEW y \in up[x] PROVE ParentsIn(g, y) \subseteq up[x]
  <2>1. CASE y = x
        BY <2>1, <1>4, <1>5
  <2>2. CASE y # x
    <3>1. PICK p \in ParentsIn(g, x) : y \in up[p]
          BY <2>2, <1>4
    <3>2. ParentsIn(g, y) \subseteq up[p]
          BY <3>1, <1>5 DEF Closed
    <3> QED
        BY <3>1, <3>2, <1>4
  <2> QED
      BY <2>1, <2>2
<1> QED
    BY <1>6, <1>7 DEF Closed

LEMMA AncestorsLeast ==
    ASSUME NEW g \in Graphs, NEW r \in DOMAIN g, NEW S, Closed(g, S), r \in S
    PROVE  AncestorsIn(g)[r] \subseteq S
<1> DEFINE up == AncestorsIn(g)
           Bad == {x \in DOMAIN g : x \in S /\ ~(up[x] \subseteq S)}
<1>1. SUFFICES ASSUME Bad # {} PROVE FALSE
      OBVIOUS
<1>2. PICK x \in Bad : ParentsIn(g, x) \cap Bad = {}
      BY <1>1, Acyclic
<1>3. x \in DOMAIN g /\ ParentsIn(g, x) \subseteq DOMAIN g /\ ParentsIn(g, x) \subseteq S
      BY GraphFacts DEF Closed
<1>4. up[x] = {x} \cup UNION {up[p] : p \in ParentsIn(g, x)}
      BY <1>3, Ancestors
<1> HIDE DEF up
<1>5. \A p \in ParentsIn(g, x) : up[p] \subseteq S
      BY <1>2, <1>3
<1> QED
    BY <1>2, <1>4, <1>5

-----------------------------------------------------------------------------
(* Above.                                                                  *)

LEMMA AboveIs ==
    ASSUME NEW g \in Graphs, NEW S, S \subseteq DOMAIN g
    PROVE  S \subseteq Above(g, S) /\ Above(g, S) \subseteq DOMAIN g /\ Closed(g, Above(g, S))
<1>1. \A r \in S : /\ r \in AncestorsIn(g)[r] /\ AncestorsIn(g)[r] \subseteq DOMAIN g
                   /\ Closed(g, AncestorsIn(g)[r])
      BY AncestorsClosed
<1>2. S \subseteq Above(g, S) /\ Above(g, S) \subseteq DOMAIN g
      BY <1>1 DEF Above
<1>3. ASSUME NEW x \in Above(g, S) PROVE ParentsIn(g, x) \subseteq Above(g, S)
  <2>1. PICK r \in S : x \in AncestorsIn(g)[r]
        BY DEF Above
  <2>2. ParentsIn(g, x) \subseteq AncestorsIn(g)[r]
        BY <1>1, <2>1 DEF Closed
  <2> QED
      BY <2>2 DEF Above
<1> QED
    BY <1>2, <1>3 DEF Closed

LEMMA AboveLeast ==
    ASSUME NEW g \in Graphs, NEW S, S \subseteq DOMAIN g, NEW T, Closed(g, T), S \subseteq T
    PROVE  Above(g, S) \subseteq T
<1>1. \A r \in S : AncestorsIn(g)[r] \subseteq T
      BY AncestorsLeast
<1> QED
    BY <1>1 DEF Above

LEMMA AboveMore ==
    ASSUME NEW g, NEW S, NEW T, S \subseteq T
    PROVE  Above(g, S) \subseteq Above(g, T)
BY DEF Above

LEMMA AboveBoth ==
    ASSUME NEW g, NEW S, NEW T
    PROVE  Above(g, S \cup T) = Above(g, S) \cup Above(g, T)
BY DEF Above

(* Above a commit are the commit and what is above its parents.            *)
LEMMA AboveStep ==
    ASSUME NEW g \in Graphs, NEW c \in DOMAIN g, NEW S, S \subseteq DOMAIN g,
           NEW T, T \subseteq DOMAIN g, S \subseteq T \cup {c}, ParentsIn(g, c) \subseteq T
    PROVE  Above(g, S) \subseteq Above(g, T) \cup {c}
<1>1. T \subseteq Above(g, T) /\ Closed(g, Above(g, T))
      BY AboveIs
<1>2. Closed(g, Above(g, T) \cup {c})
      BY <1>1 DEF Closed
<1>3. S \subseteq Above(g, T) \cup {c}
      BY <1>1
<1> QED
    BY <1>2, <1>3, AboveLeast

-----------------------------------------------------------------------------
(* Lists of refs and of visitors.                                          *)

LEMMA NoElements ==
    ASSUME NEW q, IsQueue(q)
    PROVE  q = <<>> <=> Elements(q) = {}
<1>1. Len(q) \in Nat /\ DOMAIN q = 1 .. Len(q) /\ (q = <<>> <=> Len(q) = 0)
      BY QueueDomain
<1>2. ASSUME Len(q) # 0 PROVE q[1] \in Elements(q)
      BY <1>1, <1>2 DEF Elements
<1>3. ASSUME q = <<>> PROVE Elements(q) = {}
      BY <1>3, EmptyQueue
<1> QED
    BY <1>1, <1>2, <1>3

LEMMA ToSetIs == \A q : ToSet(q) = Elements(q)
BY DEF ToSet, Elements

LEMMA AddRefIs ==
    ASSUME NEW q, IsQueue(q), NEW r
    PROVE  /\ IsQueue(AddRef(q, r))
           /\ Elements(AddRef(q, r)) = Elements(q) \cup ({r} \ {NoRef})
<1>1. CASE r \in Elements(q) \cup {NoRef}
  <2>1. AddRef(q, r) = q
        BY <1>1, ToSetIs DEF AddRef
  <2> QED
      BY <1>1, <2>1
<1>2. CASE r \notin Elements(q) \cup {NoRef}
  <2>1. AddRef(q, r) = Append(q, r)
        BY <1>2, ToSetIs DEF AddRef
  <2>2. IsQueue(Append(q, r)) /\ Elements(Append(q, r)) = Elements(q) \cup {r}
        BY QueueAppend
  <2> QED
      BY <1>2, <2>1, <2>2
<1> QED
    BY <1>1, <1>2

LEMMA AddRefsIs ==
    ASSUME NEW q, IsQueue(q), NEW r, IsQueue(r)
    PROVE  /\ IsQueue(AddRefs(q, r))
           /\ Elements(AddRefs(q, r)) = Elements(q) \cup Elements(r)
<1> DEFINE kept == {n \in DOMAIN r : r[n] \notin ToSet(q)}
           more == Among(r, kept)
<1>1. kept \subseteq DOMAIN r
      OBVIOUS
<1> HIDE DEF kept
<1>2. IsQueue(more) /\ Elements(more) = {r[m] : m \in kept}
      BY <1>1, AmongQueue
<1>3. Elements(q) \cup Elements(more) = Elements(q) \cup Elements(r)
  <2>1. ToSet(q) = Elements(q)
        BY ToSetIs
  <2>2. \A n \in DOMAIN r : r[n] \in Elements(q) \/ n \in kept
        BY <2>1 DEF kept
  <2> HIDE DEF more
  <2> QED
      BY <1>1, <1>2, <2>2 DEF Elements
<1> HIDE DEF more
<1>4. IsQueue(q \o more) /\ Elements(q \o more) = Elements(q) \cup Elements(more)
      BY <1>2, QueueConcat
<1>5. AddRefs(q, r) = q \o more
      BY DEF AddRefs, kept, more
<1> QED
    BY <1>3, <1>4, <1>5

LEMMA RemoveIs ==
    ASSUME NEW q, IsQueue(q), NEW j \in DOMAIN q
    PROVE  /\ IsQueue(RemoveAt(q, j)) /\ Len(RemoveAt(q, j)) = Len(q) - 1
           /\ \A n \in 1 .. Len(q) - 1 : RemoveAt(q, j)[n] = q[IF n < j THEN n ELSE n + 1]
<1> DEFINE T == Elements(q)
           a == SubSeq(q, 1, j - 1)
           b == SubSeq(q, j + 1, Len(q))
<1>1. Len(q) \in Nat /\ DOMAIN q = 1 .. Len(q) /\ q \in Seq(T) /\ j \in 1 .. Len(q)
      BY QueueDomain
<1> HIDE DEF T
<1>2. a \in Seq(T) /\ Len(a) = j - 1 /\ \A n \in 1 .. j - 1 : a[n] = q[n]
      BY <1>1
<1>3. b \in Seq(T) /\ Len(b) = Len(q) - j /\ \A n \in 1 .. Len(q) - j : b[n] = q[j + n]
      BY <1>1
<1> HIDE DEF a, b
<1>4. IsQueue(a) /\ IsQueue(b)
      BY <1>2, <1>3 DEF IsQueue
<1>5. /\ IsQueue(a \o b) /\ Len(a \o b) = Len(q) - 1
      /\ \A n \in 1 .. j - 1 : (a \o b)[n] = q[n]
      /\ \A n \in 1 .. Len(q) - j : (a \o b)[j - 1 + n] = q[j + n]
  <2>1. Len(a \o b) = Len(a) + Len(b)
        BY <1>4, QueueConcat
  <2>2. \A n \in 1 .. Len(a) : (a \o b)[n] = a[n]
        BY <1>4, QueueConcat
  <2>3. \A n \in 1 .. Len(b) : (a \o b)[Len(a) + n] = b[n]
        BY <1>4, QueueConcat
  <2>4. IsQueue(a \o b)
        BY <1>4, QueueConcat
  <2> DEFINE ab == a \o b
  <2> HIDE DEF ab
  <2>5. Len(ab) = Len(q) - 1
        BY <1>1, <1>2, <1>3, <2>1 DEF ab
  <2>6. \A n \in 1 .. j - 1 : ab[n] = q[n]
        BY <1>2, <2>2 DEF ab
  <2>7. ASSUME NEW n \in 1 .. Len(q) - j PROVE ab[j - 1 + n] = q[j + n]
    <3>1. ab[Len(a) + n] = b[n]
          BY <1>3, <2>3 DEF ab
    <3> QED
        BY <1>2, <1>3, <3>1
  <2> QED
      BY <2>4, <2>5, <2>6, <2>7 DEF ab
<1> DEFINE new == a \o b
<1> HIDE DEF new
<1>6. \A n \in 1 .. Len(q) - 1 : new[n] = q[IF n < j THEN n ELSE n + 1]
  <2> TAKE n \in 1 .. Len(q) - 1
  <2>1. CASE n < j
        BY <2>1, <1>1, <1>5 DEF new
  <2>2. CASE ~(n < j)
    <3>1. n - (j - 1) \in 1 .. Len(q) - j
          BY <2>2, <1>1
    <3>2. new[j - 1 + (n - (j - 1))] = q[j + (n - (j - 1))]
          BY <3>1, <1>5 DEF new
    <3>3. j - 1 + (n - (j - 1)) = n /\ j + (n - (j - 1)) = n + 1
          BY <1>1
    <3> QED
        BY <2>2, <3>2, <3>3
  <2> QED
      BY <2>1, <2>2
<1>7. RemoveAt(q, j) = new
      BY DEF RemoveAt, a, b, new
<1> QED
    BY <1>5, <1>6, <1>7 DEF new

(* What splice(j, 1) leaves after visitor i has been replaced: where the   *)
(* visitor at each place was before.                                       *)
Spliced(new, visitors, i, j, merged, at) ==
    /\ IsQueue(new) /\ Len(new) = Len(visitors) - 1
    /\ at \in [DOMAIN new -> DOMAIN visitors \ {j}]
    /\ \A m, n \in DOMAIN new : m # n => at[m] # at[n]
    /\ \A o \in DOMAIN visitors \ {j} : \E n \in DOMAIN new : at[n] = o
    /\ \A n \in DOMAIN new : new[n] = IF at[n] = i THEN merged ELSE visitors[at[n]]

LEMMA SpliceIs ==
    ASSUME NEW visitors, IsQueue(visitors), NEW i \in DOMAIN visitors, NEW j \in DOMAIN visitors,
           NEW merged
    PROVE  \E at : Spliced(RemoveAt([visitors EXCEPT ![i] = merged], j), visitors, i, j, merged, at)
<1> DEFINE all == [visitors EXCEPT ![i] = merged]
           new == RemoveAt(all, j)
           size == Len(visitors)
           at == [n \in 1 .. size - 1 |-> IF n < j THEN n ELSE n + 1]
<1>1. /\ size \in Nat /\ DOMAIN visitors = 1 .. size /\ j \in 1 .. size /\ i \in 1 .. size
      /\ visitors \in Seq(Elements(visitors))
      BY QueueDomain
<1>2. IsQueue(all) /\ Len(all) = size /\ \A n \in 1 .. size : all[n] = IF n = i THEN merged ELSE visitors[n]
  <2>1. all = [n \in 1 .. size |-> IF n = i THEN merged ELSE visitors[n]]
        BY <1>1
  <2> HIDE DEF all, size
  <2>2. all = [n \in 1 .. size |-> all[n]]
        BY <2>1
  <2>3. IsQueue(all) /\ Len(all) = size
        BY <1>1, <2>2, ListedQueue
  <2> QED
      BY <2>1, <2>3
<1>3. DOMAIN all = 1 .. size
      BY <1>1
<1> HIDE DEF all, size
<1>4. /\ IsQueue(new) /\ Len(new) = size - 1
      /\ \A n \in 1 .. size - 1 : new[n] = all[IF n < j THEN n ELSE n + 1]
      BY <1>1, <1>2, <1>3, RemoveIs
<1> HIDE DEF new
<1>5. DOMAIN new = 1 .. size - 1
      BY <1>4, QueueDomain
<1>6. \A n \in 1 .. size - 1 : at[n] = IF n < j THEN n ELSE n + 1
      OBVIOUS
<1>7. at \in [DOMAIN new -> DOMAIN visitors \ {j}]
      BY <1>1, <1>5
<1> HIDE DEF at
<1>8. \A m, n \in DOMAIN new : m # n => at[m] # at[n]
      BY <1>1, <1>5, <1>6
<1>9. ASSUME NEW o \in DOMAIN visitors \ {j} PROVE \E n \in DOMAIN new : at[n] = o
  <2>1. CASE o < j
    <3>1. o \in 1 .. size - 1
          BY <1>1, <2>1
    <3> QED
        BY <1>5, <1>6, <2>1, <3>1
  <2>2. CASE ~(o < j)
    <3>1. o - 1 \in 1 .. size - 1 /\ ~(o - 1 < j) /\ o - 1 + 1 = o
          BY <1>1, <2>2
    <3>2. at[o - 1] = o
          BY <1>6, <3>1
    <3> QED
        BY <1>5, <3>1, <3>2
  <2> QED
      BY <2>1, <2>2
<1>10. ASSUME NEW n \in DOMAIN new PROVE new[n] = IF at[n] = i THEN merged ELSE visitors[at[n]]
  <2>1. new[n] = all[at[n]] /\ at[n] \in 1 .. size
        BY <1>1, <1>4, <1>5, <1>6, <1>7
  <2> QED
      BY <1>2, <2>1
<1>11. Spliced(new, visitors, i, j, merged, at)
       BY <1>4, <1>7, <1>8, <1>9, <1>10 DEF Spliced, size
<1> QED
    BY <1>11 DEF new, all

-----------------------------------------------------------------------------
(* The records of a run, field by field.                                   *)

Run(visitors, round, depth, phase, merges) ==
    [visitors |-> visitors, round |-> round, depth |-> depth, phase |-> phase,
     merges |-> merges]

Round(i, k, next, hasCommits) == [i |-> i, k |-> k, next |-> next, hasCommits |-> hasCommits]

LEMMA RunFields ==
    ASSUME NEW s, Shape(s)
    PROVE  /\ s = Run(s.visitors, s.round, s.depth, s.phase, s.merges)
           /\ s.round = Round(s.round.i, s.round.k, s.round.next, s.round.hasCommits)
           /\ s.round.i \in Nat \ {0} /\ s.round.k \in Nat \ {0} /\ s.round.hasCommits \in BOOLEAN
           /\ s.depth \in Nat /\ s.phase \in {"iterate", "roots", "done"}
           /\ IsQueue(s.visitors) /\ IsQueue(s.merges) /\ IsQueue(s.round.next)
BY DEF Shape, Run, Round

LEMMA RunIs ==
    ASSUME NEW visitors, NEW round, NEW depth, NEW phase, NEW merges, NEW s,
           s = Run(visitors, round, depth, phase, merges)
    PROVE  /\ s.visitors = visitors /\ s.round = round /\ s.depth = depth /\ s.phase = phase
           /\ s.merges = merges
BY DEF Run

LEMMA RoundIs ==
    ASSUME NEW i, NEW k, NEW next, NEW hasCommits, NEW round,
           round = Round(i, k, next, hasCommits)
    PROVE  /\ round.i = i /\ round.k = k /\ round.next = next /\ round.hasCommits = hasCommits
BY DEF Round

LEMMA RunOK ==
    ASSUME NEW g, NEW visitors, NEW round, NEW depth \in Nat,
           NEW phase \in {"iterate", "roots", "done"}, NEW merges,
           NEW i \in Nat \ {0}, NEW k \in Nat \ {0}, NEW next, NEW hasCommits \in BOOLEAN,
           round = Round(i, k, next, hasCommits),
           IsQueue(visitors), IsQueue(merges), IsQueue(next),
           VisitorsInv(g, visitors), PlaceInv(g, visitors, round, phase),
           WalkInv(g, visitors, round), MergesInv(g, visitors, merges)
    PROVE  RunInv(g, Run(visitors, round, depth, phase, merges))
<1> DEFINE s == Run(visitors, round, depth, phase, merges)
<1>1. /\ s.visitors = visitors /\ s.round = round /\ s.depth = depth /\ s.phase = phase
      /\ s.merges = merges
      BY RunIs
<1>2. s \in [visitors : {visitors}, round : {round}, depth : Nat,
             phase : {"iterate", "roots", "done"}, merges : {merges}]
      BY DEF Run
<1>3. round \in [i : Nat \ {0}, k : Nat \ {0}, next : {next}, hasCommits : BOOLEAN]
      BY DEF Round
<1>4. round.next = next
      BY RoundIs
<1> HIDE DEF s
<1>5. Shape(s)
      BY <1>1, <1>2, <1>3, <1>4 DEF Shape
<1>6. RunInv(g, s)
      BY <1>1, <1>5 DEF RunInv
<1> QED
    BY <1>6 DEF s

LEMMA NewRoundIs == NewRound = Round(1, 1, <<>>, FALSE)
BY DEF NewRound, Round

-----------------------------------------------------------------------------
(* The leaf.                                                               *)

LEMMA LeafFacts ==
    ASSUME NEW g \in Graphs, NEW s, RunInv(g, s), InRound(s)
    PROVE  /\ s.round.i \in DOMAIN s.visitors /\ VisitorOK(g, s.visitors[s.round.i])
           /\ Leaf(s) = s.visitors[s.round.i] /\ s.phase = "iterate"
           /\ AtCommit(s) <=> s.round.k \in DOMAIN Leaf(s).current
<1>1. Shape(s) /\ VisitorsInv(g, s.visitors)
      BY DEF RunInv
<1>2. s.round.i \in Nat \ {0} /\ s.round.k \in Nat \ {0} /\ IsQueue(s.visitors)
      BY <1>1, RunFields
<1>3. s.round.i <= Len(s.visitors) /\ s.phase = "iterate"
      BY DEF InRound
<1>4. DOMAIN s.visitors = 1 .. Len(s.visitors) /\ Len(s.visitors) \in Nat
      BY <1>2, QueueDomain
<1>5. s.round.i \in DOMAIN s.visitors
      BY <1>2, <1>3, <1>4
<1>6. VisitorOK(g, s.visitors[s.round.i])
      BY <1>1, <1>5 DEF VisitorsInv
<1>7. Leaf(s) = s.visitors[s.round.i]
      BY DEF Leaf
<1>8. IsQueue(Leaf(s).current)
      BY <1>6, <1>7 DEF VisitorOK
<1>9. DOMAIN Leaf(s).current = 1 .. Len(Leaf(s).current) /\ Len(Leaf(s).current) \in Nat
      BY <1>8, QueueDomain
<1>10. AtCommit(s) <=> s.round.k <= Len(Leaf(s).current)
       BY DEF AtCommit
<1> QED
    BY <1>2, <1>3, <1>5, <1>6, <1>7, <1>9, <1>10

(* A visitor that goes on to other commits.                                *)
LEMMA MovedVisitor ==
    ASSUME NEW g, NEW v, VisitorOK(g, v), NEW next, IsQueue(next), Elements(next) \subseteq v.seen
    PROVE  LET new == [v EXCEPT !.current = next]
           IN  /\ VisitorOK(g, new) /\ new.current = next /\ new.ref = v.ref /\ new.seen = v.seen
<1> DEFINE new == [v EXCEPT !.current = next]
<1>1. v \in [ref : Ref, current : {v.current}, seen : SUBSET DOMAIN g]
      BY DEF VisitorOK
<1>2. /\ new \in [ref : Ref, current : {next}, seen : SUBSET DOMAIN g]
      /\ new.current = next /\ new.ref = v.ref /\ new.seen = v.seen
      BY <1>1
<1> HIDE DEF new
<1>3. VisitorOK(g, new)
      BY <1>2 DEF VisitorOK
<1> QED
    BY <1>2, <1>3 DEF new

(* A visitor that has seen the parents of a commit.                        *)
LEMMA WalkedVisitor ==
    ASSUME NEW g \in Graphs, NEW v, VisitorOK(g, v), NEW c \in v.seen
    PROVE  LET new == [v EXCEPT !.seen = @ \cup ParentsIn(g, c)]
           IN  /\ VisitorOK(g, new) /\ new.current = v.current /\ new.ref = v.ref
               /\ new.seen = v.seen \cup ParentsIn(g, c)
<1> DEFINE new == [v EXCEPT !.seen = @ \cup ParentsIn(g, c)]
           heads == Made(g, v.ref)
<1>1. v \in [ref : Ref, current : {v.current}, seen : SUBSET DOMAIN g]
      BY DEF VisitorOK
<1>2. c \in DOMAIN g
      BY <1>1
<1>3. ParentsIn(g, c) \subseteq DOMAIN g /\ ParentsIn(g, c) \cap HeadsOf(g) = {}
      BY <1>2, GraphFacts DEF Closed
<1>4. /\ new \in [ref : Ref, current : {v.current}, seen : SUBSET DOMAIN g]
      /\ new.current = v.current /\ new.ref = v.ref /\ new.seen = v.seen \cup ParentsIn(g, c)
      BY <1>1, <1>3
<1>5. /\ heads # {} /\ heads = v.seen \cap HeadsOf(g) /\ v.seen \subseteq Above(g, heads)
      /\ IsQueue(v.current) /\ Elements(v.current) \subseteq v.seen
      BY DEF VisitorOK
<1> HIDE DEF new, heads
<1>6. heads \subseteq DOMAIN g
      BY <1>5, GraphFacts
<1>7. Closed(g, Above(g, heads))
      BY <1>6, AboveIs
<1>8. ParentsIn(g, c) \subseteq Above(g, heads)
      BY <1>5, <1>7 DEF Closed
<1>9. new.seen \subseteq Above(g, heads) /\ heads = new.seen \cap HeadsOf(g)
      BY <1>3, <1>4, <1>5, <1>8
<1>10. VisitorOK(g, new)
       BY <1>4, <1>5, <1>9 DEF VisitorOK, heads
<1> QED
    BY <1>4, <1>10 DEF new

(* A visitor is replaced by one with the same ref.                         *)
LEMMA SameRefs ==
    ASSUME NEW g, NEW visitors, IsQueue(visitors), NEW i \in DOMAIN visitors, NEW v, NEW merges,
           VisitorsInv(g, visitors), MergesInv(g, visitors, merges),
           VisitorOK(g, v), v.ref = visitors[i].ref
    PROVE  LET new == [visitors EXCEPT ![i] = v]
           IN  /\ IsQueue(new) /\ Len(new) = Len(visitors) /\ DOMAIN new = DOMAIN visitors
               /\ new[i] = v /\ \A n \in DOMAIN visitors \ {i} : new[n] = visitors[n]
               /\ VisitorsInv(g, new) /\ MergesInv(g, new, merges)
<1> DEFINE new == [visitors EXCEPT ![i] = v]
<1>1. DOMAIN visitors = 1 .. Len(visitors) /\ Len(visitors) \in Nat
      BY QueueDomain
<1>2. /\ DOMAIN new = DOMAIN visitors /\ new = [n \in 1 .. Len(visitors) |-> new[n]]
      /\ new[i] = v /\ \A n \in DOMAIN visitors \ {i} : new[n] = visitors[n]
      BY <1>1
<1> HIDE DEF new
<1>3. IsQueue(new) /\ Len(new) = Len(visitors)
      BY <1>1, <1>2, ListedQueue
<1>4. \A n \in DOMAIN visitors : new[n].ref = visitors[n].ref
      BY <1>2
<1>5. VisitorsInv(g, new)
  <2>1. \A n \in DOMAIN new : VisitorOK(g, new[n])
        BY <1>2 DEF VisitorsInv
  <2>2. ASSUME NEW m \in DOMAIN new, NEW n \in DOMAIN new, m # n
        PROVE  Made(g, new[m].ref) \cap Made(g, new[n].ref) = {}
    <3>1. new[m].ref = visitors[m].ref /\ new[n].ref = visitors[n].ref
          BY <1>2, <1>4
    <3>2. Made(g, visitors[m].ref) \cap Made(g, visitors[n].ref) = {}
          BY <1>2, <2>2 DEF VisitorsInv
    <3> QED
        BY <3>1, <3>2
  <2> QED
      BY <2>1, <2>2 DEF VisitorsInv
<1>6. Refs(new) = Refs(visitors)
      BY <1>2, <1>4 DEF Refs
<1>7. MergesInv(g, new, merges)
  <2>1. \A n \in DOMAIN merges : MergeOK(g, merges[n], Known(g, merges, n - 1))
        BY DEF MergesInv
  <2>2. \A r \in Known(g, merges, Len(merges)) : Made(g, r) # {}
          /\ \E n \in DOMAIN new : Made(g, r) \subseteq Made(g, new[n].ref)
        BY <1>2, <1>4 DEF MergesInv
  <2>3. \A m, n \in DOMAIN merges : m # n => Sides(merges[m]) \cap Sides(merges[n]) = {}
        BY DEF MergesInv
  <2>4. \A m \in DOMAIN merges : \A n \in DOMAIN new : new[n].ref \notin Sides(merges[m])
        BY <1>2, <1>4 DEF MergesInv
  <2>5. AllSides(merges) \cup Refs(new) = Known(g, merges, Len(merges))
        BY <1>6 DEF MergesInv
  <2> QED
      BY <2>1, <2>2, <2>3, <2>4, <2>5 DEF MergesInv
<1> QED
    BY <1>2, <1>3, <1>5, <1>7 DEF new

-----------------------------------------------------------------------------
(* The steps, as records.                                                  *)

LEMMA EndLeafRecord ==
    ASSUME NEW vs, NEW i, NEW k, NEW next, NEW has, NEW d, NEW p, NEW ms
    PROVE  EndLeaf(Run(vs, Round(i, k, next, has), d, p, ms)) =
               Run([vs EXCEPT ![i] = [@ EXCEPT !.current = next]], Round(i + 1, 1, <<>>, has), d, p, ms)
<1> DEFINE s == Run(vs, Round(i, k, next, has), d, p, ms)
           none == <<>>
           ii == i + 1
<1>1. /\ s.visitors = vs /\ s.round = Round(i, k, next, has) /\ s.depth = d /\ s.phase = p
      /\ s.merges = ms
      BY RunIs
<1>2. s.round.i = i /\ s.round.next = next
      BY <1>1, RoundIs
<1>3. EndLeaf(s) = [s EXCEPT !.visitors[i].current = next, !.round.i = ii, !.round.k = 1, !.round.next = none]
      BY <1>2 DEF EndLeaf
<1> HIDE DEF ii, none
<1> DEFINE v2 == [vs EXCEPT ![i] = [@ EXCEPT !.current = next]]
<1>4. [s EXCEPT !.visitors[i].current = next] = Run(v2, Round(i, k, next, has), d, p, ms)
      BY DEF Run
<1> HIDE DEF v2
<1>5. [Run(v2, Round(i, k, next, has), d, p, ms) EXCEPT !.round.i = ii] = Run(v2, Round(ii, k, next, has), d, p, ms)
      BY DEF Run, Round
<1>6. [Run(v2, Round(ii, k, next, has), d, p, ms) EXCEPT !.round.k = 1] = Run(v2, Round(ii, 1, next, has), d, p, ms)
      BY DEF Run, Round
<1>7. [Run(v2, Round(ii, 1, next, has), d, p, ms) EXCEPT !.round.next = none] = Run(v2, Round(ii, 1, none, has), d, p, ms)
      BY DEF Run, Round
<1>8. EndLeaf(s) = [[[[s EXCEPT !.visitors[i].current = next] EXCEPT !.round.i = ii] EXCEPT !.round.k = 1] EXCEPT !.round.next = none]
      BY <1>3
<1> QED
    BY <1>4, <1>5, <1>6, <1>7, <1>8 DEF v2, ii, none

LEMMA EndRoundRecord ==
    ASSUME NEW vs, NEW i, NEW k, NEW next, NEW has, NEW d, NEW p, NEW ms
    PROVE  EndRound(Run(vs, Round(i, k, next, has), d, p, ms)) =
               Run(vs, NewRound, d + 1, IF has THEN "iterate" ELSE "roots", ms)
<1> DEFINE s == Run(vs, Round(i, k, next, has), d, p, ms)
           first == NewRound
           more == d + 1
           after == IF has THEN "iterate" ELSE "roots"
<1>1. /\ s.visitors = vs /\ s.round = Round(i, k, next, has) /\ s.depth = d /\ s.phase = p
      /\ s.merges = ms
      BY RunIs
<1>2. s.round.hasCommits = has
      BY <1>1, RoundIs
<1>3. EndRound(s) = [s EXCEPT !.depth = more, !.round = first, !.phase = after]
      BY <1>1, <1>2 DEF EndRound
<1> HIDE DEF first, more, after
<1>4. [s EXCEPT !.depth = more] = Run(vs, Round(i, k, next, has), more, p, ms)
      BY DEF Run
<1>5. [Run(vs, Round(i, k, next, has), more, p, ms) EXCEPT !.round = first] = Run(vs, first, more, p, ms)
      BY DEF Run
<1>6. [Run(vs, first, more, p, ms) EXCEPT !.phase = after] = Run(vs, first, more, after, ms)
      BY DEF Run
<1>7. EndRound(s) = [[[s EXCEPT !.depth = more] EXCEPT !.round = first] EXCEPT !.phase = after]
      BY <1>3
<1> QED
    BY <1>4, <1>5, <1>6, <1>7 DEF first, more, after

LEMMA ReturnRecord ==
    ASSUME NEW vs, NEW round, NEW d, NEW p, NEW ms
    PROVE  Return(Run(vs, round, d, p, ms)) = Run(vs, round, d, "done", ms)
BY DEF Return, Run

(* A run after it has taken the value of one variable.                     *)
WithSeen(s, i, seen) == [s EXCEPT !.visitors[i].seen = seen]
WithNext(s, next) == [s EXCEPT !.round.next = next]
WithHas(s, has) == [s EXCEPT !.round.hasCommits = has]
WithPlace(s, k) == [s EXCEPT !.round.k = k]

LEMMA WithNextIs ==
    ASSUME NEW vs, NEW i, NEW k, NEW next, NEW has, NEW d, NEW p, NEW ms, NEW x
    PROVE  WithNext(Run(vs, Round(i, k, next, has), d, p, ms), x)
               = Run(vs, Round(i, k, x, has), d, p, ms)
BY DEF Run, Round, WithNext

LEMMA WithHasIs ==
    ASSUME NEW vs, NEW i, NEW k, NEW next, NEW has, NEW d, NEW p, NEW ms, NEW x
    PROVE  WithHas(Run(vs, Round(i, k, next, has), d, p, ms), x)
               = Run(vs, Round(i, k, next, x), d, p, ms)
BY DEF Run, Round, WithHas

LEMMA WithPlaceIs ==
    ASSUME NEW vs, NEW i, NEW k, NEW next, NEW has, NEW d, NEW p, NEW ms, NEW x
    PROVE  WithPlace(Run(vs, Round(i, k, next, has), d, p, ms), x)
               = Run(vs, Round(i, x, next, has), d, p, ms)
BY DEF Run, Round, WithPlace

(* What the leaf has noted after a commit without a meeting.               *)
Walked(g, vs, i, k, next, has, c, v2, more, any) ==
    /\ c = vs[i].current[k]
    /\ v2 = [vs EXCEPT ![i] = [@ EXCEPT !.seen = vs[i].seen \cup ParentsIn(g, c)]]
    /\ more = AddRef(AddRef(next, g[c].base), g[c].merge)
    /\ any = (has \/ ParentsIn(g, c) # {})

LEMMA WalkUpRecord ==
    ASSUME NEW g, NEW vs, NEW i, NEW k, NEW next, NEW has, NEW d, NEW p, NEW ms,
           NEW c, NEW v2, NEW more, NEW any,
           Walked(g, vs, i, k, next, has, c, v2, more, any)
    PROVE  WalkUp(g, Run(vs, Round(i, k, next, has), d, p, ms)) =
               Run(v2, Round(i, k + 1, more, any), d, p, ms)
<1> DEFINE s == Run(vs, Round(i, k, next, has), d, p, ms)
           parents == ParentsIn(g, c)
           seen == vs[i].seen \cup parents
           kk == k + 1
<1>1. /\ s.visitors = vs /\ s.round = Round(i, k, next, has) /\ s.depth = d /\ s.phase = p
      /\ s.merges = ms
      BY RunIs
<1>2. s.round.i = i /\ s.round.k = k /\ s.round.next = next /\ s.round.hasCommits = has
      BY <1>1, RoundIs
<1>3. CommitRef(s) = c
      BY <1>1, <1>2 DEF CommitRef, Leaf, Walked
<1>4. WalkUp(g, s) = [s EXCEPT !.visitors[i].seen = @ \cup parents,
                               !.round.next = AddRef(AddRef(@, g[c].base), g[c].merge),
                               !.round.hasCommits = @ \/ parents # {},
                               !.round.k = @ + 1]
      BY <1>2, <1>3 DEF WalkUp
<1>5. more = AddRef(AddRef(next, g[c].base), g[c].merge) /\ any = (has \/ parents # {})
      BY DEF Walked
<1>6. v2 = [vs EXCEPT ![i] = [@ EXCEPT !.seen = seen]]
      BY DEF Walked
<1>7. WalkUp(g, s) = [s EXCEPT !.visitors[i].seen = seen, !.round.next = more,
                               !.round.hasCommits = any, !.round.k = kk]
      BY <1>1, <1>2, <1>4, <1>5
<1> HIDE DEF parents, seen, kk
<1>8. WalkUp(g, s) = WithPlace(WithHas(WithNext(WithSeen(s, i, seen), more), any), kk)
      BY <1>7 DEF WithPlace, WithHas, WithNext, WithSeen
<1>9. WithSeen(s, i, seen) = Run(v2, Round(i, k, next, has), d, p, ms)
      BY <1>6 DEF Run, WithSeen
<1>10. WithNext(Run(v2, Round(i, k, next, has), d, p, ms), more) = Run(v2, Round(i, k, more, has), d, p, ms)
       BY WithNextIs
<1>11. WithHas(Run(v2, Round(i, k, more, has), d, p, ms), any) = Run(v2, Round(i, k, more, any), d, p, ms)
       BY WithHasIs
<1>12. WithPlace(Run(v2, Round(i, k, more, any), d, p, ms), kk) = Run(v2, Round(i, kk, more, any), d, p, ms)
       BY WithPlaceIs
<1> HIDE DEF s
<1>13. WalkUp(g, s) = Run(v2, Round(i, kk, more, any), d, p, ms)
       BY <1>8, <1>9, <1>10, <1>11, <1>12
<1> QED
    BY <1>13 DEF s, kk

Merge(base, left, right, ref, depth) ==
    [base |-> base, left |-> left, right |-> right, ref |-> ref, depth |-> depth]

MergedVisitor(a, b, ref) ==
    [ref |-> ref, current |-> AddRefs(a.current, b.current), seen |-> a.seen \cup b.seen]

(* The base is none of the sides.                                          *)
NoSide(vs, i, j, base) == base = NoRef \/ base \notin {vs[i].ref, vs[j].ref}

(* mergeVisitors() of two visitors a and b, in their order.                *)
MergesTo(vs, round, d, p, ms, i, j, base, a, b) ==
    /\ \/ a = vs[i] /\ b = vs[j]
       \/ a = vs[j] /\ b = vs[i]
    /\ LET ref == MergedRef(base, a.ref, b.ref)
       IN  MergeVisitors(Run(vs, round, d, p, ms), i, j, base) =
              Run(RemoveAt([vs EXCEPT ![i] = MergedVisitor(a, b, ref)], j), round, d, p,
                  Append(ms, Merge(base, a.ref, b.ref, ref, d)))

LEMMA MergeRecord ==
    ASSUME NEW vs, NEW round, NEW d, NEW p, NEW ms, NEW i, NEW j, NEW base,
           NoSide(vs, i, j, base)
    PROVE  \E a, b : MergesTo(vs, round, d, p, ms, i, j, base, a, b)
<1> DEFINE s == Run(vs, round, d, p, ms)
           inOrder == SortRefs(vs[i].ref, vs[j].ref)
           a == IF inOrder THEN vs[i] ELSE vs[j]
           b == IF inOrder THEN vs[j] ELSE vs[i]
           ref == MergedRef(base, a.ref, b.ref)
           merged == [ref     |-> ref,
                   current |-> AddRefs(a.current, b.current),
                   seen    |-> a.seen \cup b.seen]
           merge == [base |-> base, left |-> a.ref, right |-> b.ref, ref |-> ref, depth |-> d]
           new == RemoveAt([vs EXCEPT ![i] = merged], j)
           list == Append(ms, merge)
<1>1. /\ s.visitors = vs /\ s.round = round /\ s.depth = d /\ s.phase = p
      /\ s.merges = ms
      BY RunIs
<1>2. /\ \/ a = vs[i] /\ b = vs[j]
         \/ a = vs[j] /\ b = vs[i]
      OBVIOUS
<1>3. base \notin {a.ref, b.ref} \ {NoRef}
      BY <1>2 DEF NoSide
<1>4. MergeVisitors(s, i, j, base) = [s EXCEPT !.visitors = RemoveAt([@ EXCEPT ![i] = merged], j),
                                        !.merges = Append(@, merge)]
      BY <1>1, <1>3 DEF MergeVisitors
<1> HIDE DEF a, b, ref, merged, merge
<1>5. [s EXCEPT !.visitors = RemoveAt([@ EXCEPT ![i] = merged], j), !.merges = Append(@, merge)]
        = [[s EXCEPT !.visitors = RemoveAt([@ EXCEPT ![i] = merged], j)] EXCEPT !.merges = Append(@, merge)]
      OBVIOUS
<1>6. [s EXCEPT !.visitors = RemoveAt([@ EXCEPT ![i] = merged], j)] = [s EXCEPT !.visitors = new]
      BY DEF Run
<1> HIDE DEF new
<1>7. [s EXCEPT !.visitors = new] = Run(new, round, d, p, ms)
      BY DEF Run
<1>8. [Run(new, round, d, p, ms) EXCEPT !.merges = Append(@, merge)] = [Run(new, round, d, p, ms) EXCEPT !.merges = list]
      BY DEF Run
<1> HIDE DEF list
<1>9. [Run(new, round, d, p, ms) EXCEPT !.merges = list] = Run(new, round, d, p, list)
      BY DEF Run
<1>10. MergeVisitors(s, i, j, base) = Run(new, round, d, p, list)
       BY <1>4, <1>5, <1>6, <1>7, <1>8, <1>9
<1>11. merged = MergedVisitor(a, b, ref) /\ merge = Merge(base, a.ref, b.ref, ref, d)
       BY DEF merged, merge, MergedVisitor, Merge
<1>12. MergeVisitors(s, i, j, base) = Run(RemoveAt([vs EXCEPT ![i] = MergedVisitor(a, b, ref)], j), round, d, p,
                            Append(ms, Merge(base, a.ref, b.ref, ref, d)))
       BY <1>10, <1>11 DEF new, list
<1>13. MergesTo(vs, round, d, p, ms, i, j, base, a, b)
       BY <1>2, <1>12 DEF ref, MergesTo
<1> QED
    BY <1>13

(* Meet() makes such a merge and starts the round again.                   *)
LEMMA MeetRecord ==
    ASSUME NEW s, NEW vs, NEW round, NEW d, NEW ms, NEW p, p # "thrown",
           MergeVisitors(s, s.round.i, FirstMeeting(s), CommitRef(s)) = Run(vs, round, d, p, ms)
    PROVE  Meet(s) = Run(vs, NewRound, d, IF Len(vs) > 1 THEN "iterate" ELSE "roots", ms)
<1> DEFINE merged == Run(vs, round, d, p, ms)
           first == NewRound
           after == IF Len(vs) > 1 THEN "iterate" ELSE "roots"
<1>1. merged.visitors = vs /\ merged.phase = p
      BY RunIs
<1>2. Meet(s) = [merged EXCEPT !.round = first, !.phase = after]
      BY <1>1 DEF Meet
<1> HIDE DEF first, after
<1>3. [merged EXCEPT !.round = first] = Run(vs, first, d, p, ms)
      BY DEF Run
<1>4. [Run(vs, first, d, p, ms) EXCEPT !.phase = after] = Run(vs, first, d, after, ms)
      BY DEF Run
<1> QED
    BY <1>2, <1>3, <1>4 DEF first, after

-----------------------------------------------------------------------------
(* The steps of iterate() that merge nothing.                              *)

LEMMA InvFields ==
    ASSUME NEW g, NEW s, RunInv(g, s)
    PROVE  /\ Shape(s) /\ VisitorsInv(g, s.visitors) /\ PlaceInv(g, s.visitors, s.round, s.phase)
           /\ WalkInv(g, s.visitors, s.round) /\ MergesInv(g, s.visitors, s.merges)
           /\ IsQueue(s.visitors) /\ DOMAIN s.visitors = 1 .. Len(s.visitors)
           /\ Len(s.visitors) \in Nat
<1>1. IsQueue(s.visitors)
      BY DEF RunInv, Shape
<1> QED
    BY <1>1, QueueDomain DEF RunInv

(* All that is ahead stays ahead.                                          *)
LEMMA SameAhead ==
    ASSUME NEW g, NEW visitors, NEW round, WalkInv(g, visitors, round),
           NEW new, NEW after, DOMAIN new = DOMAIN visitors,
           \A n \in DOMAIN visitors : new[n].seen = visitors[n].seen,
           \A n \in DOMAIN visitors :
               Ahead(g, visitors, round, n) \subseteq Ahead(g, new, after, n)
    PROVE  WalkInv(g, new, after)
<1>1. ASSUME NEW m \in DOMAIN new, NEW n \in DOMAIN new, m # n
      PROVE  new[m].seen \cap new[n].seen \subseteq Ahead(g, new, after, m) \cup Ahead(g, new, after, n)
  <2>1. visitors[m].seen \cap visitors[n].seen \subseteq
            Ahead(g, visitors, round, m) \cup Ahead(g, visitors, round, n)
        BY <1>1 DEF WalkInv
  <2> QED
      BY <2>1
<1>2. ASSUME NEW n \in DOMAIN new, NEW r \in new[n].seen
      PROVE  ParentsIn(g, r) \subseteq new[n].seen \/ r \in Ahead(g, new, after, n)
  <2>1. ParentsIn(g, r) \subseteq visitors[n].seen \/ r \in Ahead(g, visitors, round, n)
        BY <1>2 DEF WalkInv
  <2> QED
      BY <2>1
<1> QED
    BY <1>1, <1>2 DEF WalkInv

LEMMA FirstUnvisited ==
    ASSUME NEW v, IsQueue(v.current)
    PROVE  /\ Unvisited(v, 1, <<>>) = Elements(v.current)
           /\ \A k \in Nat : \A next : k > Len(v.current) => Unvisited(v, k, next) = Elements(next)
<1>1. DOMAIN v.current = 1 .. Len(v.current) /\ Len(v.current) \in Nat
      BY QueueDomain
<1>2. Elements(<<>>) = {}
      BY EmptyQueue
<1> QED
    BY <1>1, <1>2 DEF Unvisited, Elements

LEMMA EndLeafOK ==
    ASSUME NEW g \in Graphs, NEW s, RunInv(g, s), CanEndLeaf(s)
    PROVE  RunInv(g, EndLeaf(s))
<1> DEFINE i == s.round.i
           k == s.round.k
           next == s.round.next
           has == s.round.hasCommits
           old == s.visitors
           v == [old[i] EXCEPT !.current = next]
           new == [old EXCEPT ![i] = v]
           none == <<>>
           round == Round(i + 1, 1, none, has)
<1>1. /\ Shape(s) /\ VisitorsInv(g, old) /\ PlaceInv(g, old, s.round, s.phase)
      /\ WalkInv(g, old, s.round) /\ MergesInv(g, old, s.merges)
      /\ IsQueue(old) /\ DOMAIN old = 1 .. Len(old) /\ Len(old) \in Nat
      BY InvFields
<1>2. /\ i \in DOMAIN old /\ VisitorOK(g, old[i]) /\ s.phase = "iterate"
      /\ k \notin DOMAIN old[i].current
      BY LeafFacts DEF CanEndLeaf
<1>3. /\ s = Run(old, s.round, s.depth, s.phase, s.merges)
      /\ s.round = Round(i, k, next, has) /\ i \in Nat \ {0} /\ k \in Nat \ {0}
      /\ has \in BOOLEAN /\ s.depth \in Nat /\ IsQueue(s.merges) /\ IsQueue(next)
      BY <1>1, RunFields
<1>4. IsQueue(none) /\ Elements(none) = {}
      BY EmptyQueue
<1>5. EndLeaf(s) = Run(new, round, s.depth, s.phase, s.merges)
  <2> DEFINE d == s.depth
             p == s.phase
             ms == s.merges
  <2>1. s = Run(old, Round(i, k, next, has), d, p, ms)
        BY <1>3
  <2> HIDE DEF i, k, next, has, old, d, p, ms
  <2>2. EndLeaf(Run(old, Round(i, k, next, has), d, p, ms)) = Run(new, round, d, p, ms)
        BY EndLeafRecord
  <2> HIDE DEF new, round
  <2> QED
      BY <2>1, <2>2 DEF d, p, ms
<1>6. Elements(next) \subseteq old[i].seen
      BY <1>1, <1>2 DEF PlaceInv
<1>7. VisitorOK(g, v) /\ v.current = next /\ v.ref = old[i].ref /\ v.seen = old[i].seen
      BY <1>2, <1>3, <1>6, MovedVisitor
<1>8. round.i = i + 1 /\ round.k = 1 /\ round.next = none /\ round.hasCommits = has
      BY RoundIs
<1> HIDE DEF v
<1>9. /\ IsQueue(new) /\ Len(new) = Len(old) /\ DOMAIN new = DOMAIN old
      /\ new[i] = v /\ \A n \in DOMAIN old \ {i} : new[n] = old[n]
      /\ VisitorsInv(g, new) /\ MergesInv(g, new, s.merges)
      BY <1>1, <1>2, <1>7, SameRefs
<1> HIDE DEF new, round
<1>10. PlaceInv(g, new, round, s.phase)
  <2>1. round.i <= Len(new) + 1
        BY <1>1, <1>2, <1>8, <1>9
  <2>2. Elements(round.next) = {}
        BY <1>4, <1>8
  <2>3. ~has => next = none /\ \A n \in DOMAIN old : n < i => old[n].current = none
        BY <1>1 DEF PlaceInv
  <2>4. ~has => \A n \in DOMAIN new : n < round.i => new[n].current = none
        BY <1>1, <1>2, <1>7, <1>8, <1>9, <2>3
  <2> QED
      BY <1>2, <1>8, <2>1, <2>2, <2>4 DEF PlaceInv
<1>11. \A n \in DOMAIN old : new[n].seen = old[n].seen
       BY <1>7, <1>9
<1>12. ASSUME NEW n \in DOMAIN old
       PROVE  Ahead(g, old, s.round, n) \subseteq Ahead(g, new, round, n)
  <2>1. CASE n = i
    <3>1. k > Len(old[i].current) /\ IsQueue(old[i].current)
      <4>1. IsQueue(old[i].current)
            BY <1>2 DEF VisitorOK
      <4>2. DOMAIN old[i].current = 1 .. Len(old[i].current) /\ Len(old[i].current) \in Nat
            BY <4>1, QueueDomain
      <4> QED
          BY <1>2, <1>3, <4>1, <4>2
    <3>2. Unvisited(old[i], k, next) = Elements(next)
          BY <1>3, <3>1, FirstUnvisited
    <3>3. n # round.i
          BY <1>3, <1>8, <2>1
    <3>4. new[n].current = next
          BY <1>7, <1>9, <2>1
    <3> QED
        BY <2>1, <3>2, <3>3, <3>4 DEF Ahead
  <2>2. CASE n # i
    <3>1. new[n] = old[n]
          BY <1>9, <2>2
    <3>2. Ahead(g, old, s.round, n) = Above(g, Elements(old[n].current))
          BY <2>2 DEF Ahead
    <3>3. IsQueue(old[n].current)
          BY <1>1 DEF VisitorsInv, VisitorOK
    <3>4. Unvisited(old[n], 1, none) = Elements(old[n].current)
          BY <3>3, FirstUnvisited
    <3>5. Ahead(g, new, round, n) = Above(g, Elements(old[n].current))
          BY <1>8, <3>1, <3>4 DEF Ahead
    <3> QED
        BY <3>2, <3>5
  <2> QED
      BY <2>1, <2>2
<1>13. WalkInv(g, new, round)
       BY <1>1, <1>9, <1>11, <1>12, SameAhead
<1>14. round = Round(i + 1, 1, none, has)
       BY DEF round
<1>15. i + 1 \in Nat \ {0} /\ 1 \in Nat \ {0}
       BY <1>3
<1> HIDE DEF i, k, next, has, old, none
<1> DEFINE d == s.depth
           p == s.phase
           ms == s.merges
<1>16. d \in Nat /\ p \in {"iterate", "roots", "done"} /\ IsQueue(ms)
       BY <1>2, <1>3
<1>17. PlaceInv(g, new, round, p) /\ MergesInv(g, new, ms)
       BY <1>9, <1>10
<1> HIDE DEF d, p, ms
<1>18. RunInv(g, Run(new, round, d, p, ms))
       BY <1>3, <1>4, <1>9, <1>13, <1>14, <1>15, <1>16, <1>17, RunOK
<1> QED
    BY <1>5, <1>18 DEF d, p, ms

LEMMA PhaseFacts ==
    \A has : (IF has THEN "iterate" ELSE "roots") \in {"iterate", "roots", "done"}
OBVIOUS

(* At the start of a round all current commits are ahead.                  *)
LEMMA AheadAtStart ==
    ASSUME NEW g, NEW visitors, NEW n \in DOMAIN visitors, VisitorsInv(g, visitors)
    PROVE  Ahead(g, visitors, NewRound, n) = Above(g, Elements(visitors[n].current))
<1>1. IsQueue(visitors[n].current)
      BY DEF VisitorsInv, VisitorOK
<1>2. Unvisited(visitors[n], 1, <<>>) = Elements(visitors[n].current)
      BY <1>1, FirstUnvisited
<1>3. NewRound.i = 1 /\ NewRound.k = 1 /\ NewRound.next = <<>>
      BY NewRoundIs DEF Round
<1> QED
    BY <1>2, <1>3 DEF Ahead

(* What holds of the place when iterate() starts a round, or is over.      *)
LEMMA PlaceAtStart ==
    ASSUME NEW g, NEW visitors, IsQueue(visitors), NEW phase,
           phase # "iterate" => Len(visitors) = 1 \/ \A n \in DOMAIN visitors : visitors[n].current = <<>>,
           phase = "done" => Len(visitors) = 1
    PROVE  PlaceInv(g, visitors, NewRound, phase)
<1> DEFINE none == <<>>
<1>1. NewRound.i = 1 /\ NewRound.next = none /\ Elements(none) = {}
      BY NewRoundIs, EmptyQueue DEF Round
<1>2. DOMAIN visitors = 1 .. Len(visitors) /\ Len(visitors) \in Nat
      BY QueueDomain
<1> HIDE DEF none
<1>3. \A n \in DOMAIN visitors : ~(n < 1)
      BY <1>2
<1>4. 1 <= Len(visitors) + 1
      BY <1>2
<1> QED
    BY <1>1, <1>3, <1>4 DEF PlaceInv, none

LEMMA EndRoundOK ==
    ASSUME NEW g \in Graphs, NEW s, RunInv(g, s), CanEndRound(s)
    PROVE  RunInv(g, EndRound(s))
<1> DEFINE i == s.round.i
           k == s.round.k
           next == s.round.next
           has == s.round.hasCommits
           old == s.visitors
           d == s.depth
           p == s.phase
           ms == s.merges
           none == <<>>
           after == IF has THEN "iterate" ELSE "roots"
<1>1. /\ Shape(s) /\ VisitorsInv(g, old) /\ PlaceInv(g, old, s.round, p)
      /\ WalkInv(g, old, s.round) /\ MergesInv(g, old, ms)
      /\ IsQueue(old) /\ DOMAIN old = 1 .. Len(old) /\ Len(old) \in Nat
      BY InvFields
<1>2. /\ s = Run(old, s.round, d, p, ms)
      /\ s.round = Round(i, k, next, has) /\ i \in Nat \ {0} /\ k \in Nat \ {0}
      /\ has \in BOOLEAN /\ d \in Nat /\ IsQueue(ms) /\ IsQueue(next)
      BY <1>1, RunFields
<1>3. i > Len(old)
      BY DEF CanEndRound
<1>4. i \notin DOMAIN old /\ \A n \in DOMAIN old : n < i
      BY <1>1, <1>2, <1>3
<1>5. IsQueue(none)
      BY EmptyQueue
<1>6. EndRound(s) = Run(old, NewRound, d + 1, after, ms)
  <2> HIDE DEF i, k, next, has, old, d, p, ms
  <2>1. s = Run(old, Round(i, k, next, has), d, p, ms)
        BY <1>2
  <2> QED
      BY <2>1, EndRoundRecord
<1>7. ~has => \A n \in DOMAIN old : old[n].current = <<>>
      BY <1>1, <1>4 DEF PlaceInv
<1>8. after # "iterate" => ~has
      OBVIOUS
<1>9. after # "done" /\ after \in {"iterate", "roots", "done"}
      BY PhaseFacts
<1> HIDE DEF after, has
<1>10. PlaceInv(g, old, NewRound, after)
       BY <1>1, <1>7, <1>8, <1>9, PlaceAtStart
<1>11. ASSUME NEW n \in DOMAIN old PROVE Ahead(g, old, s.round, n) \subseteq Ahead(g, old, NewRound, n)
  <2>1. Ahead(g, old, s.round, n) = Above(g, Elements(old[n].current))
        BY <1>4 DEF Ahead
  <2> QED
      BY <1>1, <2>1, AheadAtStart
<1>12. WalkInv(g, old, NewRound)
       BY <1>1, <1>11, SameAhead
<1>13. d + 1 \in Nat
       BY <1>2
<1>14. 1 \in Nat \ {0} /\ FALSE \in BOOLEAN
       OBVIOUS
<1> HIDE DEF i, k, next, old, d, p, ms, none
<1> DEFINE e == d + 1
           first == NewRound
           no == FALSE
<1>15. first = Round(1, 1, none, no)
       BY NewRoundIs DEF none
<1> HIDE DEF first, e, no
<1>16. /\ PlaceInv(g, old, first, after) /\ WalkInv(g, old, first) /\ e \in Nat
       /\ 1 \in Nat \ {0} /\ no \in BOOLEAN
       BY <1>10, <1>12, <1>13, <1>14 DEF first, e, no
<1>17. RunInv(g, Run(old, first, e, after, ms))
       BY <1>1, <1>2, <1>5, <1>9, <1>15, <1>16, RunOK
<1> QED
    BY <1>6, <1>17 DEF e, first

(* Some visitor is left.                                                   *)
LEMMA SomeVisitor ==
    ASSUME NEW g \in Graphs, NEW visitors, NEW merges, MergesInv(g, visitors, merges)
    PROVE  DOMAIN visitors # {}
<1>1. PICK h \in HeadsOf(g) : TRUE
      BY GraphFacts
<1>2. h \in Known(g, merges, Len(merges))
      BY DEF Known
<1> QED
    BY <1>2 DEF MergesInv

LEMMA ReturnOK ==
    ASSUME NEW g \in Graphs, NEW s, RunInv(g, s), CanReturn(s)
    PROVE  RunInv(g, Return(s))
<1> DEFINE i == s.round.i
           k == s.round.k
           next == s.round.next
           has == s.round.hasCommits
           old == s.visitors
           round == s.round
           d == s.depth
           p == s.phase
           ms == s.merges
           done == "done"
<1>1. /\ Shape(s) /\ VisitorsInv(g, old) /\ PlaceInv(g, old, round, p)
      /\ WalkInv(g, old, round) /\ MergesInv(g, old, ms)
      /\ IsQueue(old) /\ DOMAIN old = 1 .. Len(old) /\ Len(old) \in Nat
      BY InvFields
<1>2. /\ s = Run(old, round, d, p, ms)
      /\ round = Round(i, k, next, has) /\ i \in Nat \ {0} /\ k \in Nat \ {0}
      /\ has \in BOOLEAN /\ d \in Nat /\ IsQueue(ms) /\ IsQueue(next)
      BY <1>1, RunFields
<1>3. p = "roots" /\ Len(old) <= 1
      BY DEF CanReturn
<1>4. Len(old) = 1
  <2>1. PICK n \in DOMAIN old : TRUE
        BY <1>1, SomeVisitor
  <2>2. n \in 1 .. Len(old) /\ Len(old) \in Nat
        BY <1>1
  <2>3. Len(old) <= 1
        BY <1>3
  <2> DEFINE len == Len(old)
  <2> HIDE DEF len
  <2>4. n \in 1 .. len /\ len \in Nat /\ len <= 1
        BY <2>2, <2>3 DEF len
  <2>5. len = 1
        BY <2>4
  <2> QED
      BY <2>5 DEF len
<1>5. round = NewRound
      BY <1>1, <1>3 DEF PlaceInv
<1>6. PlaceInv(g, old, NewRound, "done")
      BY <1>1, <1>4, PlaceAtStart
<1>7. done \in {"iterate", "roots", "done"}
      OBVIOUS
<1> HIDE DEF i, k, next, has, old, round, d, p, ms
<1>8. Return(s) = Run(old, round, d, done, ms)
      BY <1>2, ReturnRecord
<1>9. PlaceInv(g, old, round, done)
      BY <1>5, <1>6
<1> HIDE DEF done
<1>10. RunInv(g, Run(old, round, d, done, ms))
       BY <1>1, <1>2, <1>7, <1>9, RunOK
<1> QED
    BY <1>8, <1>10

-----------------------------------------------------------------------------
(* The leaf has nothing in common with the others at this commit.          *)

LEMMA NextRefs ==
    ASSUME NEW g, NEW c, NEW next, IsQueue(next)
    PROVE  LET more == AddRef(AddRef(next, g[c].base), g[c].merge)
           IN  IsQueue(more) /\ Elements(more) = Elements(next) \cup ParentsIn(g, c)
<1> DEFINE one == AddRef(next, g[c].base)
           more == AddRef(one, g[c].merge)
<1>1. IsQueue(one) /\ Elements(one) = Elements(next) \cup ({g[c].base} \ {NoRef})
      BY AddRefIs
<1> HIDE DEF one
<1>2. IsQueue(more) /\ Elements(more) = Elements(one) \cup ({g[c].merge} \ {NoRef})
      BY <1>1, AddRefIs
<1> HIDE DEF more
<1>3. IsQueue(more) /\ Elements(more) = Elements(next) \cup ParentsIn(g, c)
      BY <1>1, <1>2 DEF ParentsIn
<1> QED
    BY <1>3 DEF more, one

LEMMA WalkUpAhead ==
    ASSUME NEW g \in Graphs, NEW v, VisitorOK(g, v), NEW k \in DOMAIN v.current,
           NEW w, w.current = v.current, NEW next, Elements(next) \subseteq v.seen,
           NEW more, Elements(more) = Elements(next) \cup ParentsIn(g, v.current[k])
    PROVE  /\ Above(g, Unvisited(v, k, next))
                 \subseteq Above(g, Unvisited(w, k + 1, more)) \cup {v.current[k]}
           /\ ParentsIn(g, v.current[k]) \subseteq Above(g, Unvisited(w, k + 1, more))
<1> DEFINE c == v.current[k]
           S == Unvisited(v, k, next)
           T == Unvisited(w, k + 1, more)
<1>1. IsQueue(v.current) /\ Elements(v.current) \subseteq v.seen /\ v.seen \subseteq DOMAIN g
      BY DEF VisitorOK
<1>2. DOMAIN v.current = 1 .. Len(v.current) /\ Len(v.current) \in Nat
      BY <1>1, QueueDomain
<1>3. c \in DOMAIN g /\ \A n \in DOMAIN v.current : v.current[n] \in DOMAIN g
      BY <1>1 DEF Elements
<1>4. ParentsIn(g, c) \subseteq DOMAIN g
      BY <1>3, GraphFacts DEF Closed
<1>5. S \subseteq DOMAIN g /\ T \subseteq DOMAIN g
      BY <1>1, <1>3, <1>4 DEF Unvisited
<1>6. S \subseteq T \cup {c}
  <2>1. \A n \in DOMAIN v.current : n >= k => n = k \/ n >= k + 1
        BY <1>2
  <2> QED
      BY <2>1 DEF Unvisited
<1>7. ParentsIn(g, c) \subseteq T
      BY DEF Unvisited
<1> HIDE DEF S, T, c
<1>8. Above(g, S) \subseteq Above(g, T) \cup {c}
      BY <1>3, <1>5, <1>6, <1>7, AboveStep
<1>9. T \subseteq Above(g, T)
      BY <1>5, AboveIs
<1> QED
    BY <1>7, <1>8, <1>9 DEF S, T, c

LEMMA WalkUpOK ==
    ASSUME NEW g \in Graphs, NEW s, RunInv(g, s), CanWalkUp(s)
    PROVE  RunInv(g, WalkUp(g, s))
<1> DEFINE i == s.round.i
           k == s.round.k
           next == s.round.next
           has == s.round.hasCommits
           old == s.visitors
           d == s.depth
           p == s.phase
           ms == s.merges
           c == old[i].current[k]
           parents == ParentsIn(g, c)
           v == [old[i] EXCEPT !.seen = @ \cup ParentsIn(g, c)]
           new == [old EXCEPT ![i] = v]
           more == AddRef(AddRef(next, g[c].base), g[c].merge)
           any == has \/ parents # {}
           kk == k + 1
           round == Round(i, kk, more, any)
<1>1. /\ Shape(s) /\ VisitorsInv(g, old) /\ PlaceInv(g, old, s.round, p)
      /\ WalkInv(g, old, s.round) /\ MergesInv(g, old, ms)
      /\ IsQueue(old) /\ DOMAIN old = 1 .. Len(old) /\ Len(old) \in Nat
      BY InvFields
<1>2. /\ i \in DOMAIN old /\ VisitorOK(g, old[i]) /\ p = "iterate"
      /\ Leaf(s) = old[i] /\ k \in DOMAIN old[i].current
      BY LeafFacts DEF CanWalkUp, AtCommit
<1>3. /\ s = Run(old, s.round, d, p, ms)
      /\ s.round = Round(i, k, next, has) /\ i \in Nat \ {0} /\ k \in Nat \ {0}
      /\ has \in BOOLEAN /\ d \in Nat /\ IsQueue(ms) /\ IsQueue(next)
      BY <1>1, RunFields
<1>4. \A n \in DOMAIN old \ {i} : c \notin old[n].seen
  <2>1. CommitRef(s) = c
        BY <1>2 DEF CommitRef
  <2> QED
      BY <2>1 DEF CanWalkUp, Meetings
<1>5. WalkUp(g, s) = Run(new, round, d, p, ms)
  <2>1. s = Run(old, Round(i, k, next, has), d, p, ms)
        BY <1>3
  <2> HIDE DEF i, k, next, has, old, d, p, ms
  <2> DEFINE cc == c
  <2>2. cc = old[i].current[k]
        OBVIOUS
  <2>3. new = [old EXCEPT ![i] = [@ EXCEPT !.seen = old[i].seen \cup ParentsIn(g, cc)]]
        OBVIOUS
  <2>4. more = AddRef(AddRef(next, g[cc].base), g[cc].merge)
        OBVIOUS
  <2>5. any = (has \/ ParentsIn(g, cc) # {})
        OBVIOUS
  <2> HIDE DEF cc, new, more, any
  <2>6. Walked(g, old, i, k, next, has, cc, new, more, any)
        BY <2>2, <2>3, <2>4, <2>5 DEF Walked
  <2>7. WalkUp(g, Run(old, Round(i, k, next, has), d, p, ms)) = Run(new, Round(i, k + 1, more, any), d, p, ms)
        BY <2>6, WalkUpRecord
  <2> QED
      BY <2>1, <2>7
<1>6. c \in old[i].seen
      BY <1>2 DEF VisitorOK, Elements
<1>7. Elements(next) \subseteq old[i].seen
      BY <1>1, <1>2 DEF PlaceInv
<1> HIDE DEF c
<1>8. /\ VisitorOK(g, v) /\ v.current = old[i].current /\ v.ref = old[i].ref
      /\ v.seen = old[i].seen \cup parents
      BY <1>2, <1>6, WalkedVisitor
<1>9. IsQueue(more) /\ Elements(more) = Elements(next) \cup parents
      BY <1>3, NextRefs
<1>10. round.i = i /\ round.k = kk /\ round.next = more /\ round.hasCommits = any
       BY RoundIs
<1> HIDE DEF v
<1>11. /\ IsQueue(new) /\ Len(new) = Len(old) /\ DOMAIN new = DOMAIN old
       /\ new[i] = v /\ \A n \in DOMAIN old \ {i} : new[n] = old[n]
       /\ VisitorsInv(g, new) /\ MergesInv(g, new, ms)
       BY <1>1, <1>2, <1>8, SameRefs
<1>12. kk \in Nat \ {0} /\ any \in BOOLEAN
       BY <1>3
<1>13. k < kk /\ \A n \in DOMAIN old[i].current : n < k => n < kk
  <2>1. IsQueue(old[i].current)
        BY <1>2 DEF VisitorOK
  <2>2. DOMAIN old[i].current = 1 .. Len(old[i].current) /\ Len(old[i].current) \in Nat
        BY <2>1, QueueDomain
  <2> QED
      BY <1>3, <2>2
<1>14. Above(g, Unvisited(old[i], k, next)) \subseteq Above(g, Unvisited(v, kk, more)) \cup {c}
  <2>1. Elements(more) = Elements(next) \cup ParentsIn(g, old[i].current[k])
        BY <1>9 DEF c
  <2> HIDE DEF more, old, i, k, next
  <2> QED
      BY <1>2, <1>7, <1>8, <2>1, WalkUpAhead DEF c
<1>15. parents \subseteq Above(g, Unvisited(v, kk, more))
  <2>1. Elements(more) = Elements(next) \cup ParentsIn(g, old[i].current[k])
        BY <1>9 DEF c
  <2> HIDE DEF more, old, i, k, next
  <2> QED
      BY <1>2, <1>7, <1>8, <2>1, WalkUpAhead DEF c
<1>16. \A n \in DOMAIN old \ {i} : Ahead(g, old, s.round, n) = Above(g, Elements(old[n].current))
       BY DEF Ahead
<1>17. Ahead(g, old, s.round, i) = Above(g, Unvisited(old[i], k, next))
       BY DEF Ahead
<1> HIDE DEF new, round, any, more, kk
<1>18. PlaceInv(g, new, round, p)
  <2>1. round.i <= Len(new) + 1
        BY <1>1, <1>10, <1>11 DEF PlaceInv
  <2>2. round.i \in DOMAIN new
        BY <1>2, <1>10, <1>11
  <2>3. Elements(round.next) \subseteq new[round.i].seen
        BY <1>7, <1>8, <1>9, <1>10, <1>11
  <2>4. ASSUME NEW r \in Elements(round.next)
        PROVE  \E n \in DOMAIN new[round.i].current :
                  n < round.k /\ r \in ParentsIn(g, new[round.i].current[n])
    <3>1. new[round.i].current = old[i].current /\ round.k = kk
          BY <1>8, <1>10, <1>11
    <3>2. CASE r \in Elements(next)
      <4>1. \E n \in DOMAIN old[i].current : n < k /\ r \in ParentsIn(g, old[i].current[n])
            BY <1>1, <1>2, <3>2 DEF PlaceInv
      <4> QED
          BY <1>13, <3>1, <4>1
    <3>3. CASE r \in parents
          BY <1>2, <1>13, <3>1, <3>3 DEF c
    <3> QED
        BY <1>9, <1>10, <3>2, <3>3
  <2>5. ASSUME ~round.hasCommits
        PROVE  round.next = <<>> /\ \A n \in DOMAIN new : n < round.i => new[n].current = <<>>
    <3>1. ~has /\ parents = {}
          BY <1>10, <2>5 DEF any
    <3>2. next = <<>> /\ \A n \in DOMAIN old : n < i => old[n].current = <<>>
          BY <1>1, <3>1 DEF PlaceInv
    <3>3. Elements(more) = {}
          BY <1>9, <3>1, <3>2, EmptyQueue
    <3>4. more = <<>>
          BY <1>9, <3>3, NoElements
    <3>5. \A n \in DOMAIN new : n < i => n # i
          BY <1>1, <1>3, <1>11
    <3>6. \A n \in DOMAIN new : n < round.i => new[n].current = <<>>
          BY <1>10, <1>11, <3>2, <3>5
    <3> QED
        BY <1>10, <3>4, <3>6
  <2>6. p = "iterate"
        BY <1>2
  <2> HIDE DEF p
  <2>7. p # "done"
        BY <2>6
  <2> QED
      BY <2>1, <2>2, <2>3, <2>4, <2>5, <2>6, <2>7 DEF PlaceInv
<1>19. \A n \in DOMAIN old \ {i} : Ahead(g, new, round, n) = Ahead(g, old, s.round, n)
  <2>1. \A n \in DOMAIN old \ {i} : Ahead(g, new, round, n) = Above(g, Elements(old[n].current))
        BY <1>10, <1>11 DEF Ahead
  <2> QED
      BY <1>16, <2>1
<1>20. Ahead(g, new, round, i) = Above(g, Unvisited(v, kk, more))
       BY <1>10, <1>11 DEF Ahead
<1>21. Ahead(g, old, s.round, i) \subseteq Ahead(g, new, round, i) \cup {c} /\ parents \subseteq Ahead(g, new, round, i)
       BY <1>14, <1>15, <1>17, <1>20
<1>22. WalkInv(g, new, round)
  <2> DEFINE A(n) == Ahead(g, old, s.round, n)
             B(n) == Ahead(g, new, round, n)
  <2>1. /\ \A m, n \in DOMAIN old : m # n => old[m].seen \cap old[n].seen \subseteq A(m) \cup A(n)
        /\ \A n \in DOMAIN old : \A r \in old[n].seen : ParentsIn(g, r) \subseteq old[n].seen \/ r \in A(n)
        BY <1>1 DEF WalkInv
  <2>2. A(i) \subseteq B(i) \cup {c} /\ parents \subseteq B(i) /\ \A n \in DOMAIN old \ {i} : B(n) = A(n)
        BY <1>19, <1>21
  <2>3. new[i].seen = old[i].seen \cup parents /\ \A n \in DOMAIN old \ {i} : new[n].seen = old[n].seen
        BY <1>8, <1>11
  <2> HIDE DEF A, B
  <2>4. ASSUME NEW n \in DOMAIN old \ {i}
        PROVE  new[i].seen \cap new[n].seen \subseteq B(i) \cup B(n)
    <3>1. old[i].seen \cap old[n].seen \subseteq A(i) \cup A(n)
          BY <1>2, <2>1
    <3>2. c \notin old[n].seen
          BY <1>4
    <3> QED
        BY <2>2, <2>3, <3>1, <3>2
  <2>5. ASSUME NEW m \in DOMAIN old, NEW n \in DOMAIN old, m # n
        PROVE  new[m].seen \cap new[n].seen \subseteq B(m) \cup B(n)
    <3>1. CASE m = i
          BY <2>4, <2>5, <3>1
    <3>2. CASE n = i
          BY <2>4, <2>5, <3>2
    <3>3. CASE m # i /\ n # i
      <4>1. old[m].seen \cap old[n].seen \subseteq A(m) \cup A(n)
            BY <2>1, <2>5
      <4> QED
          BY <2>2, <2>3, <3>3, <4>1
    <3> QED
        BY <3>1, <3>2, <3>3
  <2>6. ASSUME NEW n \in DOMAIN old, NEW r \in new[n].seen
        PROVE  ParentsIn(g, r) \subseteq new[n].seen \/ r \in B(n)
    <3>1. CASE n # i
          BY <2>1, <2>2, <2>3, <3>1
    <3>2. CASE n = i /\ r \in parents
          BY <2>2, <3>2
    <3>3. CASE n = i /\ r \in old[i].seen
      <4>1. ParentsIn(g, r) \subseteq old[i].seen \/ r \in A(i)
            BY <1>2, <2>1, <3>3
      <4>2. r = c => ParentsIn(g, r) \subseteq new[i].seen
            BY <2>3
      <4> QED
          BY <2>2, <2>3, <3>3, <4>1, <4>2
    <3> QED
        BY <2>3, <3>1, <3>2, <3>3
  <2> QED
      BY <1>11, <2>5, <2>6 DEF WalkInv, B
<1>23. round = Round(i, kk, more, any)
       BY DEF round
<1>24. d \in Nat /\ p \in {"iterate", "roots", "done"} /\ IsQueue(ms)
       BY <1>2, <1>3
<1> HIDE DEF i, k, next, has, old, d, p, ms, parents
<1>25. RunInv(g, Run(new, round, d, p, ms))
       BY <1>3, <1>9, <1>11, <1>12, <1>18, <1>22, <1>23, <1>24, RunOK
<1> QED
    BY <1>5, <1>25

-----------------------------------------------------------------------------
(* mergeVisitors().                                                        *)

(* Two visitors to merge, and what comes of it.                            *)
Merging(visitors, i, j, base, a, b, ref, w) ==
    /\ i \in DOMAIN visitors /\ j \in DOMAIN visitors /\ i # j
    /\ \/ a = visitors[i] /\ b = visitors[j]
       \/ a = visitors[j] /\ b = visitors[i]
    /\ base \in Ref \cup {NoRef}
    /\ ref = MergedRef(base, a.ref, b.ref)
    /\ w = MergedVisitor(a, b, ref)

(* The base fits both sides.                                               *)
GoodBase(g, base, a, b) ==
    /\ base # NoRef => base \in Above(g, Made(g, a.ref)) \cap Above(g, Made(g, b.ref))
    /\ base = NoRef => Above(g, Made(g, a.ref)) \cap Above(g, Made(g, b.ref)) = {}

LEMMA MergedIsMade ==
    ASSUME NEW g \in Graphs, NEW left \in Ref, NEW right \in Ref, NEW base \in Ref \cup {NoRef},
           Made(g, left) # {}, Made(g, right) # {}, Made(g, left) \cap Made(g, right) = {}
    PROVE  /\ MergedRef(base, left, right) \in Ref
           /\ Made(g, MergedRef(base, left, right)) = Made(g, left) \cup Made(g, right)
<1> DEFINE heads == HeadsOf(g)
<1>1. heads \in {HeadsOf(h) : h \in Graphs}
      OBVIOUS
<1> HIDE DEF heads
<1>2. MadeOf(left, heads) # {} /\ MadeOf(right, heads) # {}
      /\ MadeOf(left, heads) \cap MadeOf(right, heads) = {}
      BY DEF Made, heads
<1>3. /\ MergedRef(base, left, right) \in Ref
      /\ MadeOf(MergedRef(base, left, right), heads) = MadeOf(left, heads) \cup MadeOf(right, heads)
      BY <1>1, <1>2, MergedRefAssumption
<1> QED
    BY <1>3 DEF Made, heads

(* The two sides.                                                          *)
LEMMA MergingSides ==
    ASSUME NEW g \in Graphs, NEW visitors, VisitorsInv(g, visitors),
           NEW i, NEW j, NEW base, NEW a, NEW b, NEW ref, NEW w,
           Merging(visitors, i, j, base, a, b, ref, w)
    PROVE  /\ VisitorOK(g, a) /\ VisitorOK(g, b)
           /\ Made(g, a.ref) \cap Made(g, b.ref) = {}
           /\ a.ref \in Ref /\ b.ref \in Ref /\ a.ref # b.ref /\ ref \in Ref
           /\ Made(g, ref) = Made(g, a.ref) \cup Made(g, b.ref)
<1>1. VisitorOK(g, a) /\ VisitorOK(g, b)
      BY DEF VisitorsInv, Merging
<1>2. Made(g, a.ref) \cap Made(g, b.ref) = {}
  <2>1. Made(g, visitors[i].ref) \cap Made(g, visitors[j].ref) = {}
        BY DEF VisitorsInv, Merging
  <2> QED
      BY <2>1 DEF Merging
<1>3. a.ref \in Ref /\ b.ref \in Ref /\ Made(g, a.ref) # {} /\ Made(g, b.ref) # {}
      BY <1>1 DEF VisitorOK
<1>4. a.ref # b.ref
      BY <1>2, <1>3
<1>5. base \in Ref \cup {NoRef} /\ ref = MergedRef(base, a.ref, b.ref)
      BY DEF Merging
<1>6. ref \in Ref /\ Made(g, ref) = Made(g, a.ref) \cup Made(g, b.ref)
      BY <1>2, <1>3, <1>5, MergedIsMade
<1> QED
    BY <1>1, <1>2, <1>3, <1>4, <1>6

LEMMA MergedVisitorOK ==
    ASSUME NEW g \in Graphs, NEW visitors, VisitorsInv(g, visitors),
           NEW i, NEW j, NEW base, NEW a, NEW b, NEW ref, NEW w,
           Merging(visitors, i, j, base, a, b, ref, w)
    PROVE  /\ VisitorOK(g, w) /\ w.ref = ref /\ w.seen = a.seen \cup b.seen
           /\ Elements(w.current) = Elements(a.current) \cup Elements(b.current)
<1>1. /\ VisitorOK(g, a) /\ VisitorOK(g, b) /\ ref \in Ref
      /\ Made(g, ref) = Made(g, a.ref) \cup Made(g, b.ref)
      BY MergingSides
<1>2. /\ a.seen \subseteq DOMAIN g /\ b.seen \subseteq DOMAIN g
      /\ IsQueue(a.current) /\ IsQueue(b.current)
      /\ Elements(a.current) \subseteq a.seen /\ Elements(b.current) \subseteq b.seen
      /\ Made(g, a.ref) # {} /\ Made(g, a.ref) = a.seen \cap HeadsOf(g)
      /\ Made(g, b.ref) = b.seen \cap HeadsOf(g)
      /\ a.seen \subseteq Above(g, Made(g, a.ref)) /\ b.seen \subseteq Above(g, Made(g, b.ref))
      BY <1>1 DEF VisitorOK
<1> DEFINE current == AddRefs(a.current, b.current)
           seen == a.seen \cup b.seen
<1>3. IsQueue(current) /\ Elements(current) = Elements(a.current) \cup Elements(b.current)
      BY <1>2, AddRefsIs
<1>4. seen \in SUBSET DOMAIN g
      BY <1>2
<1>5. Made(g, ref) # {} /\ Made(g, ref) = seen \cap HeadsOf(g)
      BY <1>1, <1>2
<1>6. Above(g, Made(g, ref)) = Above(g, Made(g, a.ref)) \cup Above(g, Made(g, b.ref))
      BY <1>1, AboveBoth
<1>7. seen \subseteq Above(g, Made(g, ref)) /\ Elements(current) \subseteq seen
      BY <1>2, <1>3, <1>6
<1> HIDE DEF current, seen
<1>8. w = [ref |-> ref, current |-> current, seen |-> seen]
      BY DEF Merging, MergedVisitor, current, seen
<1>9. /\ w \in [ref : Ref, current : {w.current}, seen : SUBSET DOMAIN g]
      /\ w.ref = ref /\ w.current = current /\ w.seen = seen
      BY <1>1, <1>4, <1>8
<1>10. VisitorOK(g, w)
       BY <1>3, <1>5, <1>7, <1>9 DEF VisitorOK
<1> QED
    BY <1>3, <1>9, <1>10 DEF seen

LEMMA MergedVisitors ==
    ASSUME NEW g \in Graphs, NEW visitors, VisitorsInv(g, visitors),
           NEW i, NEW j, NEW base, NEW a, NEW b, NEW ref, NEW w,
           Merging(visitors, i, j, base, a, b, ref, w),
           NEW new, NEW at, Spliced(new, visitors, i, j, w, at)
    PROVE  VisitorsInv(g, new)
<1>1. /\ VisitorOK(g, w) /\ w.ref = ref
      BY MergedVisitorOK
<1>2. Made(g, ref) = Made(g, visitors[i].ref) \cup Made(g, visitors[j].ref)
  <2>1. Made(g, ref) = Made(g, a.ref) \cup Made(g, b.ref)
        BY MergingSides
  <2> QED
      BY <2>1 DEF Merging
<1>3. /\ \A n \in DOMAIN new : at[n] \in DOMAIN visitors \ {j}
      /\ \A m, n \in DOMAIN new : m # n => at[m] # at[n]
      /\ \A n \in DOMAIN new : new[n] = IF at[n] = i THEN w ELSE visitors[at[n]]
      BY DEF Spliced
<1>4. i \in DOMAIN visitors /\ j \in DOMAIN visitors /\ i # j
      BY DEF Merging
<1>5. /\ \A n \in DOMAIN visitors : VisitorOK(g, visitors[n])
      /\ \A m, n \in DOMAIN visitors :
          m # n => Made(g, visitors[m].ref) \cap Made(g, visitors[n].ref) = {}
      BY DEF VisitorsInv
<1>6. ASSUME NEW n \in DOMAIN new PROVE VisitorOK(g, new[n])
      BY <1>1, <1>3, <1>5
<1>7. ASSUME NEW m \in DOMAIN new, NEW n \in DOMAIN new, m # n, at[m] = i
      PROVE  Made(g, new[m].ref) \cap Made(g, new[n].ref) = {}
  <2>1. new[m].ref = ref /\ at[n] # i /\ new[n] = visitors[at[n]] /\ at[n] \in DOMAIN visitors /\ at[n] # j
        BY <1>1, <1>3, <1>7
  <2>2. /\ Made(g, visitors[i].ref) \cap Made(g, visitors[at[n]].ref) = {}
        /\ Made(g, visitors[j].ref) \cap Made(g, visitors[at[n]].ref) = {}
        BY <1>4, <1>5, <2>1
  <2> QED
      BY <1>2, <2>1, <2>2
<1>8. ASSUME NEW m \in DOMAIN new, NEW n \in DOMAIN new, m # n
      PROVE  Made(g, new[m].ref) \cap Made(g, new[n].ref) = {}
  <2>1. CASE at[m] = i
        BY <1>7, <1>8, <2>1
  <2>2. CASE at[n] = i
        BY <1>7, <1>8, <2>2
  <2>3. CASE at[m] # i /\ at[n] # i
    <3>1. new[m] = visitors[at[m]] /\ new[n] = visitors[at[n]] /\ at[m] # at[n]
          /\ at[m] \in DOMAIN visitors /\ at[n] \in DOMAIN visitors
          BY <1>3, <1>8, <2>3
    <3> QED
        BY <1>5, <3>1
  <2> QED
      BY <2>1, <2>2, <2>3
<1> QED
    BY <1>6, <1>8 DEF VisitorsInv

LEMMA MergedWalk ==
    ASSUME NEW g \in Graphs, NEW visitors, VisitorsInv(g, visitors),
           NEW i, NEW j, NEW base, NEW a, NEW b, NEW ref, NEW w,
           Merging(visitors, i, j, base, a, b, ref, w),
           NEW new, NEW at, Spliced(new, visitors, i, j, w, at),
           WalkInv(g, visitors, NewRound)
    PROVE  WalkInv(g, new, NewRound)
<1> DEFINE A(n) == Ahead(g, visitors, NewRound, n)
           B(n) == Ahead(g, new, NewRound, n)
<1>1. VisitorsInv(g, new)
      BY MergedVisitors
<1>2. /\ w.seen = a.seen \cup b.seen
      /\ Elements(w.current) = Elements(a.current) \cup Elements(b.current)
      BY MergedVisitorOK
<1>3. /\ \A n \in DOMAIN new : at[n] \in DOMAIN visitors \ {j}
      /\ \A m, n \in DOMAIN new : m # n => at[m] # at[n]
      /\ \A n \in DOMAIN new : new[n] = IF at[n] = i THEN w ELSE visitors[at[n]]
      BY DEF Spliced
<1>4. i \in DOMAIN visitors /\ j \in DOMAIN visitors /\ i # j
      BY DEF Merging
<1>5. w.seen = visitors[i].seen \cup visitors[j].seen
      BY <1>2 DEF Merging
<1>6. \A n \in DOMAIN visitors : A(n) = Above(g, Elements(visitors[n].current))
      BY AheadAtStart
<1>7. \A n \in DOMAIN new : B(n) = Above(g, Elements(new[n].current))
      BY <1>1, AheadAtStart
<1>8. Above(g, Elements(w.current)) = A(i) \cup A(j)
  <2>1. Elements(w.current) = Elements(visitors[i].current) \cup Elements(visitors[j].current)
        BY <1>2 DEF Merging
  <2> QED
      BY <1>4, <1>6, <2>1, AboveBoth
<1>9. /\ \A m, n \in DOMAIN visitors : m # n =>
            visitors[m].seen \cap visitors[n].seen \subseteq A(m) \cup A(n)
      /\ \A n \in DOMAIN visitors : \A r \in visitors[n].seen :
            ParentsIn(g, r) \subseteq visitors[n].seen \/ r \in A(n)
      BY DEF WalkInv
<1> HIDE DEF A, B
<1>10. \A n \in DOMAIN new : at[n] = i => new[n].seen = w.seen /\ B(n) = A(i) \cup A(j)
       BY <1>3, <1>7, <1>8
<1>11. \A n \in DOMAIN new : at[n] # i =>
           new[n].seen = visitors[at[n]].seen /\ B(n) = A(at[n]) /\ at[n] \in DOMAIN visitors \ {i, j}
       BY <1>3, <1>6, <1>7
<1>12. ASSUME NEW m \in DOMAIN new, NEW n \in DOMAIN new, m # n, at[m] = i
       PROVE  new[m].seen \cap new[n].seen \subseteq B(m) \cup B(n)
  <2>1. at[n] # i
        BY <1>3, <1>12
  <2>2. /\ new[n].seen = visitors[at[n]].seen /\ B(n) = A(at[n]) /\ at[n] \in DOMAIN visitors \ {i, j}
        /\ new[m].seen = visitors[i].seen \cup visitors[j].seen /\ B(m) = A(i) \cup A(j)
        BY <1>5, <1>10, <1>11, <1>12, <2>1
  <2>3. /\ visitors[i].seen \cap visitors[at[n]].seen \subseteq A(i) \cup A(at[n])
        /\ visitors[j].seen \cap visitors[at[n]].seen \subseteq A(j) \cup A(at[n])
        BY <1>4, <1>9, <2>2
  <2> QED
      BY <2>2, <2>3
<1>13. ASSUME NEW m \in DOMAIN new, NEW n \in DOMAIN new, m # n
       PROVE  new[m].seen \cap new[n].seen \subseteq B(m) \cup B(n)
  <2>1. CASE at[m] = i
        BY <1>12, <1>13, <2>1
  <2>2. CASE at[n] = i
        BY <1>12, <1>13, <2>2
  <2>3. CASE at[m] # i /\ at[n] # i
    <3>1. /\ new[m].seen = visitors[at[m]].seen /\ new[n].seen = visitors[at[n]].seen
          /\ B(m) = A(at[m]) /\ B(n) = A(at[n]) /\ at[m] # at[n]
          /\ at[m] \in DOMAIN visitors /\ at[n] \in DOMAIN visitors
          BY <1>3, <1>11, <1>13, <2>3
    <3>2. visitors[at[m]].seen \cap visitors[at[n]].seen \subseteq A(at[m]) \cup A(at[n])
          BY <1>9, <3>1
    <3> QED
        BY <3>1, <3>2
  <2> QED
      BY <2>1, <2>2, <2>3
<1>14. ASSUME NEW n \in DOMAIN new, NEW r \in new[n].seen
       PROVE  ParentsIn(g, r) \subseteq new[n].seen \/ r \in B(n)
  <2>1. CASE at[n] = i
    <3>1. new[n].seen = visitors[i].seen \cup visitors[j].seen /\ B(n) = A(i) \cup A(j)
          BY <1>5, <1>10, <2>1
    <3>2. CASE r \in visitors[i].seen
      <4>1. ParentsIn(g, r) \subseteq visitors[i].seen \/ r \in A(i)
            BY <1>4, <1>9, <3>2
      <4> QED
          BY <3>1, <4>1
    <3>3. CASE r \in visitors[j].seen
      <4>1. ParentsIn(g, r) \subseteq visitors[j].seen \/ r \in A(j)
            BY <1>4, <1>9, <3>3
      <4> QED
          BY <3>1, <4>1
    <3> QED
        BY <1>14, <3>1, <3>2, <3>3
  <2>2. CASE at[n] # i
    <3>1. /\ new[n].seen = visitors[at[n]].seen /\ B(n) = A(at[n]) /\ at[n] \in DOMAIN visitors
          BY <1>11, <2>2
    <3>2. ParentsIn(g, r) \subseteq visitors[at[n]].seen \/ r \in A(at[n])
          BY <1>9, <1>14, <3>1
    <3> QED
        BY <3>1, <3>2
  <2> QED
      BY <2>1, <2>2
<1> QED
    BY <1>13, <1>14 DEF WalkInv, B

LEMMA KnownGrows ==
    ASSUME NEW g, NEW merges, IsQueue(merges), NEW m
    PROVE  LET more == Append(merges, m)
           IN  /\ \A n \in 0 .. Len(merges) : Known(g, more, n) = Known(g, merges, n)
               /\ Known(g, more, Len(more)) = Known(g, merges, Len(merges)) \cup {m.ref}
               /\ DOMAIN more = DOMAIN merges \cup {Len(merges) + 1} /\ IsQueue(more)
               /\ Len(merges) + 1 \notin DOMAIN merges
               /\ more[Len(merges) + 1] = m /\ \A n \in DOMAIN merges : more[n] = merges[n]
               /\ \A n \in DOMAIN merges : n - 1 \in 0 .. Len(merges)
                     /\ Known(g, merges, n - 1) \subseteq Known(g, merges, Len(merges))
               /\ Len(merges) + 1 - 1 = Len(merges) /\ Len(merges) \in 0 .. Len(merges)
<1> DEFINE more == Append(merges, m)
           len == Len(merges)
<1>1. /\ IsQueue(more) /\ Len(more) = len + 1 /\ more[len + 1] = m
      /\ \A n \in 1 .. len : more[n] = merges[n]
      BY QueueAppend
<1>2. len \in Nat /\ DOMAIN merges = 1 .. len
      BY QueueDomain
<1>3. DOMAIN more = 1 .. len + 1
      BY <1>1, QueueDomain
<1> HIDE DEF more, len
<1>4. ASSUME NEW n \in 0 .. len PROVE Known(g, more, n) = Known(g, merges, n)
  <2>1. \A x \in 1 .. n : x \in 1 .. len
        BY <1>2, <1>4
  <2>2. \A x \in 1 .. n : more[x].ref = merges[x].ref
        BY <1>1, <2>1
  <2> QED
      BY <2>2 DEF Known
<1>5. Known(g, more, len + 1) = Known(g, merges, len) \cup {m.ref}
  <2>1. \A x \in 1 .. len + 1 : x \in 1 .. len \/ x = len + 1
        BY <1>2
  <2>2. 1 .. len \subseteq 1 .. len + 1 /\ len + 1 \in 1 .. len + 1
        BY <1>2
  <2>3. {more[x].ref : x \in 1 .. len + 1} \subseteq {merges[x].ref : x \in 1 .. len} \cup {m.ref}
        BY <1>1, <2>1
  <2>4. {merges[x].ref : x \in 1 .. len} \cup {m.ref} \subseteq {more[x].ref : x \in 1 .. len + 1}
        BY <1>1, <2>2
  <2> QED
      BY <2>3, <2>4 DEF Known
<1>6. ASSUME NEW n \in DOMAIN merges
      PROVE  n - 1 \in 0 .. len /\ Known(g, merges, n - 1) \subseteq Known(g, merges, len)
  <2>1. n - 1 \in 0 .. len /\ \A x \in 1 .. n - 1 : x \in 1 .. len
        BY <1>2, <1>6
  <2> QED
      BY <2>1 DEF Known
<1>7. DOMAIN more = DOMAIN merges \cup {len + 1} /\ len + 1 \notin DOMAIN merges
      /\ len + 1 - 1 = len /\ len \in 0 .. len
      BY <1>2, <1>3
<1>8. \A n \in DOMAIN merges : more[n] = merges[n]
      BY <1>1, <1>2
<1> QED
    BY <1>1, <1>4, <1>5, <1>6, <1>7, <1>8 DEF more, len

LEMMA MergesFields ==
    ASSUME NEW g, NEW visitors, NEW merges, MergesInv(g, visitors, merges)
    PROVE  /\ \A n \in DOMAIN merges : MergeOK(g, merges[n], Known(g, merges, n - 1))
           /\ \A r \in Known(g, merges, Len(merges)) : Made(g, r) # {}
                 /\ \E n \in DOMAIN visitors : Made(g, r) \subseteq Made(g, visitors[n].ref)
           /\ \A m, n \in DOMAIN merges : m # n => Sides(merges[m]) \cap Sides(merges[n]) = {}
           /\ \A m \in DOMAIN merges : \A n \in DOMAIN visitors : visitors[n].ref \notin Sides(merges[m])
           /\ AllSides(merges) \cup Refs(visitors) = Known(g, merges, Len(merges))
BY DEF MergesInv

(* The ref of the merge is new.                                            *)
LEMMA MergedIsNew ==
    ASSUME NEW g \in Graphs, NEW visitors, VisitorsInv(g, visitors),
           NEW i, NEW j, NEW base, NEW a, NEW b, NEW ref, NEW w,
           Merging(visitors, i, j, base, a, b, ref, w),
           NEW merges, MergesInv(g, visitors, merges)
    PROVE  ref \notin Known(g, merges, Len(merges))
<1> DEFINE known == Known(g, merges, Len(merges))
<1> SUFFICES ASSUME ref \in known PROVE FALSE
    OBVIOUS
<1>1. \A r \in known : \E n \in DOMAIN visitors : Made(g, r) \subseteq Made(g, visitors[n].ref)
      BY MergesFields
<1> HIDE DEF known
<1>2. PICK o \in DOMAIN visitors : Made(g, ref) \subseteq Made(g, visitors[o].ref)
      BY <1>1
<1>3. Made(g, ref) = Made(g, visitors[i].ref) \cup Made(g, visitors[j].ref)
  <2>1. Made(g, ref) = Made(g, a.ref) \cup Made(g, b.ref)
        BY MergingSides
  <2> QED
      BY <2>1 DEF Merging
<1>4. i \in DOMAIN visitors /\ j \in DOMAIN visitors /\ i # j
      BY DEF Merging
<1>5. /\ \A n \in DOMAIN visitors : Made(g, visitors[n].ref) # {}
      /\ \A m, n \in DOMAIN visitors :
          m # n => Made(g, visitors[m].ref) \cap Made(g, visitors[n].ref) = {}
      BY DEF VisitorsInv, VisitorOK
<1>6. CASE o # i
  <2>1. Made(g, visitors[o].ref) \cap Made(g, visitors[i].ref) = {} /\ Made(g, visitors[i].ref) # {}
        BY <1>2, <1>4, <1>5, <1>6
  <2> QED
      BY <1>2, <1>3, <2>1
<1>7. CASE o # j
  <2>1. Made(g, visitors[o].ref) \cap Made(g, visitors[j].ref) = {} /\ Made(g, visitors[j].ref) # {}
        BY <1>2, <1>4, <1>5, <1>7
  <2> QED
      BY <1>2, <1>3, <2>1
<1> QED
    BY <1>4, <1>6, <1>7

LEMMA MergedMerges ==
    ASSUME NEW g \in Graphs, NEW visitors, VisitorsInv(g, visitors),
           NEW i, NEW j, NEW base, NEW a, NEW b, NEW ref, NEW w,
           Merging(visitors, i, j, base, a, b, ref, w), GoodBase(g, base, a, b),
           NEW new, NEW at, Spliced(new, visitors, i, j, w, at),
           NEW merges, IsQueue(merges), MergesInv(g, visitors, merges), NEW d \in Nat
    PROVE  MergesInv(g, new, Append(merges, Merge(base, a.ref, b.ref, ref, d)))
<1> DEFINE m == Merge(base, a.ref, b.ref, ref, d)
           more == Append(merges, m)
           len == Len(merges)
           last == len + 1
           known == Known(g, merges, len)
<1>1. m.base = base /\ m.left = a.ref /\ m.right = b.ref /\ m.ref = ref /\ Sides(m) = {a.ref, b.ref}
      BY DEF Merge, Sides
<1>2. /\ a.ref \in Ref /\ b.ref \in Ref /\ a.ref # b.ref /\ ref \in Ref
      /\ Made(g, ref) = Made(g, a.ref) \cup Made(g, b.ref)
      BY MergingSides
<1>3. m \in [base : Ref \cup {NoRef}, left : Ref, right : Ref, ref : Ref, depth : Nat]
      BY <1>2 DEF Merge, Merging
<1>4. \/ a = visitors[i] /\ b = visitors[j]
      \/ a = visitors[j] /\ b = visitors[i]
      BY DEF Merging
<1>5. i \in DOMAIN visitors /\ j \in DOMAIN visitors /\ i # j
      BY DEF Merging
<1>6. {a.ref, b.ref} = {visitors[i].ref, visitors[j].ref}
      BY <1>4
<1>7. /\ \A n \in DOMAIN merges : MergeOK(g, merges[n], Known(g, merges, n - 1))
      /\ \A r \in known : Made(g, r) # {}
            /\ \E n \in DOMAIN visitors : Made(g, r) \subseteq Made(g, visitors[n].ref)
      /\ \A x, n \in DOMAIN merges : x # n => Sides(merges[x]) \cap Sides(merges[n]) = {}
      /\ \A x \in DOMAIN merges : \A n \in DOMAIN visitors : visitors[n].ref \notin Sides(merges[x])
      /\ AllSides(merges) \cup Refs(visitors) = known
      BY MergesFields
<1>8. ref \notin known
      BY MergedIsNew
<1>9. w.ref = ref /\ VisitorOK(g, w)
      BY MergedVisitorOK
<1>10. /\ \A n \in DOMAIN new : at[n] \in DOMAIN visitors \ {j}
       /\ \A o \in DOMAIN visitors \ {j} : \E n \in DOMAIN new : at[n] = o
       /\ \A n \in DOMAIN new : new[n] = IF at[n] = i THEN w ELSE visitors[at[n]]
       BY DEF Spliced
<1>11. \A x, n \in DOMAIN visitors : x # n => visitors[x].ref # visitors[n].ref
       BY DEF VisitorsInv, VisitorOK
<1> HIDE DEF m
<1>12. /\ \A n \in 0 .. len : Known(g, more, n) = Known(g, merges, n)
       /\ Known(g, more, Len(more)) = known \cup {m.ref}
       /\ DOMAIN more = DOMAIN merges \cup {last}
       /\ last \notin DOMAIN merges
       /\ more[last] = m /\ \A n \in DOMAIN merges : more[n] = merges[n]
       /\ \A n \in DOMAIN merges : n - 1 \in 0 .. len /\ Known(g, merges, n - 1) \subseteq known
       /\ last - 1 = len /\ len \in 0 .. len
       BY KnownGrows
<1>13. Known(g, more, Len(more)) = known \cup {ref}
       BY <1>1, <1>12
<1>14. a.ref \in known /\ b.ref \in known
  <2>1. visitors[i].ref \in Refs(visitors) /\ visitors[j].ref \in Refs(visitors)
        BY <1>5 DEF Refs
  <2>2. Refs(visitors) \subseteq known
        BY <1>7
  <2> QED
      BY <1>6, <2>1, <2>2
<1>15. \A n \in DOMAIN merges : Sides(merges[n]) \subseteq known
  <2>1. \A n \in DOMAIN merges : Sides(merges[n]) \subseteq AllSides(merges)
        BY DEF AllSides
  <2>2. AllSides(merges) \subseteq known
        BY <1>7
  <2> QED
      BY <2>1, <2>2
<1>16. MergeOK(g, m, known)
  <2>1. m.left # m.right /\ Sides(m) \subseteq known /\ m.ref \notin known
        BY <1>1, <1>2, <1>8, <1>14
  <2>2. Made(g, m.ref) = Made(g, m.left) \cup Made(g, m.right)
        BY <1>1, <1>2
  <2>3. /\ m.base # NoRef => m.base \in Above(g, Made(g, m.left)) \cap Above(g, Made(g, m.right))
        /\ m.base = NoRef => Above(g, Made(g, m.left)) \cap Above(g, Made(g, m.right)) = {}
        BY <1>1 DEF GoodBase
  <2> QED
      BY <1>3, <2>1, <2>2, <2>3 DEF MergeOK
<1>17. Known(g, more, last - 1) = known
       BY <1>12
<1> HIDE DEF known, more, last, len
<1>18. ASSUME NEW n \in DOMAIN more PROVE MergeOK(g, more[n], Known(g, more, n - 1))
  <2>1. CASE n \in DOMAIN merges
    <3>1. more[n] = merges[n] /\ Known(g, more, n - 1) = Known(g, merges, n - 1)
          BY <1>12, <2>1
    <3>2. MergeOK(g, merges[n], Known(g, merges, n - 1))
          BY <1>7, <2>1
    <3> QED
        BY <3>1, <3>2
  <2>2. CASE n = last
    <3>1. more[n] = m /\ Known(g, more, n - 1) = known
          BY <1>12, <1>17, <2>2
    <3> QED
        BY <1>16, <3>1
  <2> QED
      BY <1>12, <2>1, <2>2
<1>19. PICK there \in DOMAIN new : at[there] = i
       BY <1>5, <1>10
<1>20. new[there].ref = ref
       BY <1>9, <1>10, <1>19
<1>21. Made(g, ref) = Made(g, visitors[i].ref) \cup Made(g, visitors[j].ref)
       BY <1>2, <1>4
<1>22. ASSUME NEW r \in known \cup {ref}
       PROVE  Made(g, r) # {} /\ \E n \in DOMAIN new : Made(g, r) \subseteq Made(g, new[n].ref)
  <2>1. CASE r = ref
    <3>1. Made(g, ref) # {}
          BY <1>9 DEF VisitorOK
    <3> QED
        BY <1>19, <1>20, <2>1, <3>1
  <2>2. CASE r \in known
    <3>1. Made(g, r) # {}
          BY <1>7, <2>2
    <3>2. PICK o \in DOMAIN visitors : Made(g, r) \subseteq Made(g, visitors[o].ref)
          BY <1>7, <2>2
    <3>3. CASE o \in {i, j}
      <4>1. Made(g, r) \subseteq Made(g, new[there].ref)
            BY <1>20, <1>21, <3>2, <3>3
      <4> QED
          BY <1>19, <3>1, <4>1
    <3>4. CASE o \notin {i, j}
      <4>1. PICK n \in DOMAIN new : at[n] = o
            BY <1>10, <3>4
      <4>2. new[n] = visitors[o]
            BY <1>10, <3>4, <4>1
      <4> QED
          BY <3>1, <3>2, <4>2
    <3> QED
        BY <3>3, <3>4
  <2> QED
      BY <2>1, <2>2
<1>23. ASSUME NEW x \in DOMAIN more, NEW n \in DOMAIN more, x # n
       PROVE  Sides(more[x]) \cap Sides(more[n]) = {}
  <2>1. ASSUME NEW y \in DOMAIN merges PROVE Sides(m) \cap Sides(merges[y]) = {}
    <3>1. visitors[i].ref \notin Sides(merges[y]) /\ visitors[j].ref \notin Sides(merges[y])
          BY <1>5, <1>7
    <3> QED
        BY <1>1, <1>6, <3>1
  <2>2. CASE x \in DOMAIN merges /\ n \in DOMAIN merges
        BY <1>7, <1>12, <1>23, <2>2
  <2>3. CASE x \in DOMAIN merges /\ n = last
        BY <1>12, <2>1, <2>3
  <2>4. CASE x = last /\ n \in DOMAIN merges
        BY <1>12, <2>1, <2>4
  <2> QED
      BY <1>12, <1>23, <2>2, <2>3, <2>4
<1>24. ASSUME NEW n \in DOMAIN new
       PROVE  \/ at[n] = i /\ new[n].ref = ref
              \/ at[n] \in DOMAIN visitors \ {i, j} /\ new[n].ref = visitors[at[n]].ref
       BY <1>9, <1>10
<1>25. ASSUME NEW x \in DOMAIN more, NEW n \in DOMAIN new PROVE new[n].ref \notin Sides(more[x])
  <2>1. CASE x \in DOMAIN merges
    <3>1. Sides(more[x]) = Sides(merges[x]) /\ Sides(merges[x]) \subseteq known
          BY <1>12, <1>15, <2>1
    <3>2. \A o \in DOMAIN visitors : visitors[o].ref \notin Sides(merges[x])
          BY <1>7, <2>1
    <3> QED
        BY <1>8, <1>24, <3>1, <3>2
  <2>2. CASE x = last
    <3>1. Sides(more[x]) = {visitors[i].ref, visitors[j].ref}
          BY <1>1, <1>6, <1>12, <2>2
    <3>2. visitors[i].ref \in known /\ visitors[j].ref \in known
          BY <1>6, <1>14
    <3>3. \A o \in DOMAIN visitors \ {i, j} : visitors[o].ref \notin {visitors[i].ref, visitors[j].ref}
          BY <1>5, <1>11
    <3> QED
        BY <1>8, <1>24, <3>1, <3>2, <3>3
  <2> QED
      BY <1>12, <2>1, <2>2
<1>26. AllSides(more) \cup Refs(new) = known \cup {ref}
  <2>1. Sides(more[last]) = {a.ref, b.ref} /\ \A n \in DOMAIN merges : Sides(more[n]) = Sides(merges[n])
        BY <1>1, <1>12
  <2>2. AllSides(more) = AllSides(merges) \cup {a.ref, b.ref}
        BY <1>12, <2>1 DEF AllSides
  <2>3. Refs(new) \subseteq Refs(visitors) \cup {ref}
        BY <1>24 DEF Refs
  <2>4. ASSUME NEW x \in Refs(visitors) PROVE x \in {a.ref, b.ref} \cup Refs(new)
    <3>1. PICK o \in DOMAIN visitors : x = visitors[o].ref
          BY DEF Refs
    <3>2. CASE o \in {i, j}
          BY <1>6, <3>1, <3>2
    <3>3. CASE o \notin {i, j}
      <4>1. PICK n \in DOMAIN new : at[n] = o
            BY <1>10, <3>3
      <4>2. new[n] = visitors[o]
            BY <1>10, <3>3, <4>1
      <4> QED
          BY <3>1, <4>2 DEF Refs
    <3> QED
        BY <3>2, <3>3
  <2>5. ref \in Refs(new)
        BY <1>19, <1>20 DEF Refs
  <2>6. AllSides(merges) \cup Refs(visitors) = known
        BY <1>7
  <2> QED
      BY <1>14, <2>2, <2>3, <2>4, <2>5, <2>6
<1>27. MergesInv(g, new, more)
       BY <1>13, <1>18, <1>22, <1>23, <1>25, <1>26 DEF MergesInv
<1> QED
    BY <1>27 DEF more, m

(* What iterate() has noted of the leaf is above the leaf's commits.       *)
LEMMA AheadBelow ==
    ASSUME NEW g \in Graphs, NEW visitors, NEW round, NEW phase,
           VisitorsInv(g, visitors), PlaceInv(g, visitors, round, phase), WalkInv(g, visitors, round)
    PROVE  WalkInv(g, visitors, NewRound)
<1>1. ASSUME NEW n \in DOMAIN visitors
      PROVE  Ahead(g, visitors, round, n) \subseteq Above(g, Elements(visitors[n].current))
  <2> DEFINE S == Elements(visitors[n].current)
  <2>1. VisitorOK(g, visitors[n])
        BY DEF VisitorsInv
  <2>2. S \subseteq DOMAIN g
        BY <2>1 DEF VisitorOK
  <2>3. S \subseteq Above(g, S) /\ Above(g, S) \subseteq DOMAIN g /\ Closed(g, Above(g, S))
        BY <2>2, AboveIs
  <2>4. CASE n = round.i
    <3> DEFINE U == Unvisited(visitors[n], round.k, round.next)
    <3>1. \A r \in Elements(round.next) : \E x \in DOMAIN visitors[n].current :
                r \in ParentsIn(g, visitors[n].current[x])
          BY <2>4 DEF PlaceInv
    <3>2. \A x \in DOMAIN visitors[n].current : visitors[n].current[x] \in S
          BY DEF Elements
    <3> HIDE DEF S
    <3>3. Elements(round.next) \subseteq Above(g, S)
          BY <2>3, <3>1, <3>2 DEF Closed
    <3>4. U \subseteq Above(g, S)
          BY <2>3, <3>2, <3>3 DEF Unvisited
    <3>5. Ahead(g, visitors, round, n) = Above(g, U)
          BY <2>4 DEF Ahead
    <3> HIDE DEF U
    <3>6. U \subseteq DOMAIN g
          BY <2>3, <3>4
    <3>7. Above(g, U) \subseteq Above(g, S)
          BY <2>3, <3>4, <3>6, AboveLeast
    <3> QED
        BY <3>5, <3>7 DEF S
  <2>5. CASE n # round.i
        BY <2>5 DEF Ahead
  <2> QED
      BY <2>4, <2>5
<1>2. \A n \in DOMAIN visitors : Ahead(g, visitors, round, n) \subseteq Ahead(g, visitors, NewRound, n)
      BY <1>1, AheadAtStart
<1> QED
    BY <1>2, SameAhead

(* A merge leaves a run in order, at the start of a round.                 *)
Merged(g, s, i, j, base, vs, ms) ==
    /\ MergeVisitors(s, i, j, base) = Run(vs, s.round, s.depth, s.phase, ms)
    /\ IsQueue(vs) /\ IsQueue(ms)
    /\ VisitorsInv(g, vs) /\ WalkInv(g, vs, NewRound) /\ MergesInv(g, vs, ms)
    /\ (\A n \in DOMAIN s.visitors : s.visitors[n].current = <<>>)
          => \A n \in DOMAIN vs : vs[n].current = <<>>

LEMMA MergedOK ==
    ASSUME NEW g \in Graphs, NEW s, RunInv(g, s),
           NEW i \in DOMAIN s.visitors, NEW j \in DOMAIN s.visitors, i # j,
           NEW base \in Ref \cup {NoRef}, NoSide(s.visitors, i, j, base),
           GoodBase(g, base, s.visitors[i], s.visitors[j])
    PROVE  \E vs, ms : Merged(g, s, i, j, base, vs, ms)
<1> DEFINE old == s.visitors
           round == s.round
           d == s.depth
           p == s.phase
           merges == s.merges
<1>1. /\ Shape(s) /\ VisitorsInv(g, old) /\ PlaceInv(g, old, round, p)
      /\ WalkInv(g, old, round) /\ MergesInv(g, old, merges) /\ IsQueue(old)
      BY InvFields
<1>2. s = Run(old, round, d, p, merges) /\ d \in Nat /\ IsQueue(merges)
      BY <1>1, RunFields
<1>3. NoSide(old, i, j, base)
      OBVIOUS
<1>4. GoodBase(g, base, old[i], old[j])
      OBVIOUS
<1>5. i \in DOMAIN old /\ j \in DOMAIN old
      OBVIOUS
<1> HIDE DEF old, round, d, p, merges
<1>6. PICK a, b : MergesTo(old, round, d, p, merges, i, j, base, a, b)
      BY <1>3, MergeRecord
<1> DEFINE ref == MergedRef(base, a.ref, b.ref)
           w == MergedVisitor(a, b, ref)
           vs == RemoveAt([old EXCEPT ![i] = w], j)
           ms == Append(merges, Merge(base, a.ref, b.ref, ref, d))
<1>7. MergeVisitors(s, i, j, base) = Run(vs, round, d, p, ms)
      BY <1>2, <1>6 DEF MergesTo
<1>8. Merging(old, i, j, base, a, b, ref, w)
      BY <1>5, <1>6 DEF Merging, MergesTo
<1>9. GoodBase(g, base, a, b)
      BY <1>4, <1>6 DEF GoodBase, MergesTo
<1> HIDE DEF w, ref
<1>10. \E at : Spliced(vs, old, i, j, w, at)
       BY <1>1, <1>5, SpliceIs
<1>11. IsQueue(ms)
       BY <1>2, QueueAppend
<1> HIDE DEF vs
<1>12. PICK at : Spliced(vs, old, i, j, w, at)
       BY <1>10
<1>13. VisitorsInv(g, vs)
       BY <1>1, <1>8, <1>12, MergedVisitors
<1>14. WalkInv(g, old, NewRound)
       BY <1>1, AheadBelow
<1>15. WalkInv(g, vs, NewRound)
       BY <1>1, <1>8, <1>12, <1>14, MergedWalk
<1>16. MergesInv(g, vs, ms)
       BY <1>1, <1>2, <1>8, <1>9, <1>12, MergedMerges
<1>17. IsQueue(vs)
       BY <1>12 DEF Spliced
<1>18. ASSUME \A n \in DOMAIN old : old[n].current = <<>>, NEW n \in DOMAIN vs
       PROVE  vs[n].current = <<>>
  <2>1. VisitorOK(g, w) /\ Elements(w.current) = Elements(a.current) \cup Elements(b.current)
        BY <1>1, <1>8, MergedVisitorOK
  <2>2. a.current = <<>> /\ b.current = <<>>
        BY <1>5, <1>6, <1>18 DEF MergesTo
  <2>3. Elements(w.current) = {}
        BY <2>1, <2>2, EmptyQueue
  <2>4. IsQueue(w.current)
        BY <2>1 DEF VisitorOK
  <2>5. w.current = <<>>
        BY <2>3, <2>4, NoElements
  <2>6. vs[n] = w \/ (at[n] \in DOMAIN old /\ vs[n] = old[at[n]])
        BY <1>12 DEF Spliced
  <2> QED
      BY <1>18, <2>5, <2>6
<1> HIDE DEF ms
<1>19. /\ MergeVisitors(s, i, j, base) = Run(vs, s.round, s.depth, s.phase, ms)
       /\ IsQueue(vs) /\ IsQueue(ms)
       /\ VisitorsInv(g, vs) /\ WalkInv(g, vs, NewRound) /\ MergesInv(g, vs, ms)
       BY <1>7, <1>11, <1>13, <1>15, <1>16, <1>17 DEF round, d, p
<1>20. (\A n \in DOMAIN s.visitors : s.visitors[n].current = <<>>)
                    => \A n \in DOMAIN vs : vs[n].current = <<>>
       BY <1>18 DEF old
<1>21. Merged(g, s, i, j, base, vs, ms)
       BY <1>19, <1>20 DEF Merged
<1> QED
    BY <1>21

-----------------------------------------------------------------------------
(* Two walks meet.                                                         *)

LEMMA FirstMeetingIs ==
    ASSUME NEW g \in Graphs, NEW s, RunInv(g, s), CanMeet(s)
    PROVE  FirstMeeting(s) \in Meetings(s)
<1>1. DOMAIN s.visitors = 1 .. Len(s.visitors)
      BY InvFields
<1>2. Meetings(s) \subseteq Nat /\ Meetings(s) # {}
      BY <1>1 DEF Meetings, CanMeet
<1>3. \E j \in Meetings(s) : \A o \in Meetings(s) : j <= o
      BY <1>2, Least
<1> QED
    BY <1>3 DEF FirstMeeting

(* Heads of one graph are not above each other: nothing is thrown.         *)
LEMMA CommonIsNoSide ==
    ASSUME NEW g \in Graphs, NEW visitors, VisitorsInv(g, visitors),
           NEW i \in DOMAIN visitors, NEW j \in DOMAIN visitors, i # j,
           NEW c \in visitors[i].seen \cap visitors[j].seen
    PROVE  c # visitors[i].ref
<1> SUFFICES ASSUME c = visitors[i].ref PROVE FALSE
    OBVIOUS
<1>1. VisitorOK(g, visitors[i]) /\ VisitorOK(g, visitors[j])
      BY DEF VisitorsInv
<1>2. Made(g, visitors[i].ref) \cap Made(g, visitors[j].ref) = {}
      BY DEF VisitorsInv
<1>3. c \in DOMAIN g /\ Made(g, c) # {}
      BY <1>1 DEF VisitorOK
<1>4. Made(g, c) = {c} \cap HeadsOf(g)
      BY <1>3, GraphFacts
<1>5. c \in HeadsOf(g)
      BY <1>3, <1>4
<1>6. c \in Made(g, visitors[i].ref) /\ c \in Made(g, visitors[j].ref)
      BY <1>1, <1>5 DEF VisitorOK
<1> QED
    BY <1>2, <1>6

LEMMA MeetOK ==
    ASSUME NEW g \in Graphs, NEW s, RunInv(g, s), CanMeet(s)
    PROVE  RunInv(g, Meet(s))
<1> DEFINE i == s.round.i
           k == s.round.k
           old == s.visitors
           j == FirstMeeting(s)
           c == CommitRef(s)
           d == s.depth
<1>1. /\ Shape(s) /\ VisitorsInv(g, old) /\ IsQueue(old)
      BY InvFields
<1>2. d \in Nat /\ s.phase \in {"iterate", "roots", "done"}
      BY <1>1, RunFields
<1>3. /\ i \in DOMAIN old /\ VisitorOK(g, old[i]) /\ Leaf(s) = old[i]
      /\ k \in DOMAIN old[i].current
      BY LeafFacts DEF CanMeet, AtCommit
<1>4. j \in DOMAIN old /\ j # i /\ c \in old[j].seen
      BY FirstMeetingIs DEF Meetings
<1>5. c \in old[i].seen
      BY <1>3 DEF CommitRef, VisitorOK, Elements
<1> HIDE DEF i, k, old, j, c, d
<1>6. VisitorOK(g, old[j])
      BY <1>1, <1>4 DEF VisitorsInv
<1>7. c \in Ref \cup {NoRef} /\ c # NoRef
  <2>1. c \in DOMAIN g
        BY <1>3, <1>5 DEF VisitorOK
  <2> QED
      BY <2>1, GraphFacts
<1>8. c \notin {old[i].ref, old[j].ref}
  <2>1. c # old[i].ref
        BY <1>1, <1>3, <1>4, <1>5, CommonIsNoSide
  <2>2. c # old[j].ref
        BY <1>1, <1>3, <1>4, <1>5, CommonIsNoSide
  <2> QED
      BY <2>1, <2>2
<1>9. GoodBase(g, c, old[i], old[j])
  <2>1. c \in Above(g, Made(g, old[i].ref))
        BY <1>3, <1>5 DEF VisitorOK
  <2>2. c \in Above(g, Made(g, old[j].ref))
        BY <1>4, <1>6 DEF VisitorOK
  <2> QED
      BY <1>7, <2>1, <2>2 DEF GoodBase
<1>10. PICK vs, ms : Merged(g, s, i, j, c, vs, ms)
  <2>1. NoSide(s.visitors, i, j, c)
        BY <1>8 DEF old, NoSide
  <2>2. GoodBase(g, c, s.visitors[i], s.visitors[j])
        BY <1>9 DEF old
  <2>3. i \in DOMAIN s.visitors /\ j \in DOMAIN s.visitors /\ i # j
        BY <1>3, <1>4 DEF old
  <2> QED
      BY <1>7, <2>1, <2>2, <2>3, MergedOK
<1> DEFINE after == IF Len(vs) > 1 THEN "iterate" ELSE "roots"
           first == NewRound
<1>21. /\ MergeVisitors(s, i, j, c) = Run(vs, s.round, s.depth, s.phase, ms)
       /\ IsQueue(vs) /\ IsQueue(ms)
       /\ VisitorsInv(g, vs) /\ WalkInv(g, vs, NewRound) /\ MergesInv(g, vs, ms)
       BY <1>10 DEF Merged
<1>11. MergeVisitors(s, s.round.i, FirstMeeting(s), CommitRef(s)) = Run(vs, s.round, s.depth, s.phase, ms)
       BY <1>21 DEF i, j, c
<1>12. s.phase # "thrown"
       BY <1>2
<1>13. Meet(s) = Run(vs, first, d, after, ms)
       BY <1>11, <1>12, MeetRecord DEF d
<1>14. after \in {"iterate", "roots", "done"} /\ after # "done"
       OBVIOUS
<1>15. after # "iterate" => Len(vs) = 1
  <2>1. PICK n \in DOMAIN vs : TRUE
        BY <1>21, SomeVisitor
  <2> DEFINE len == Len(vs)
  <2>2. len \in Nat /\ n \in 1 .. len
        BY <1>21, <2>1, QueueDomain
  <2> HIDE DEF len
  <2>3. ~(len > 1) => len = 1
        BY <2>2
  <2> QED
      BY <2>3 DEF len
<1> HIDE DEF after
<1>16. PlaceInv(g, vs, NewRound, after)
       BY <1>21, <1>14, <1>15, PlaceAtStart
<1> DEFINE none == <<>>
           no == FALSE
<1>17. first = Round(1, 1, none, no) /\ IsQueue(none)
       BY NewRoundIs, EmptyQueue
<1>18. 1 \in Nat \ {0} /\ no \in BOOLEAN
       OBVIOUS
<1>19. PlaceInv(g, vs, first, after) /\ WalkInv(g, vs, first)
       BY <1>21, <1>16
<1> HIDE DEF none, no, first
<1>20. RunInv(g, Run(vs, first, d, after, ms))
       BY <1>2, <1>21, <1>14, <1>17, <1>18, <1>19, RunOK DEF d
<1> QED
    BY <1>13, <1>20

-----------------------------------------------------------------------------
(* Walks that have ended without a meeting have nothing in common.         *)

LEMMA NothingInCommon ==
    ASSUME NEW g \in Graphs, NEW visitors, VisitorsInv(g, visitors),
           WalkInv(g, visitors, NewRound), \A n \in DOMAIN visitors : visitors[n].current = <<>>,
           NEW i \in DOMAIN visitors, NEW j \in DOMAIN visitors, i # j
    PROVE  Above(g, Made(g, visitors[i].ref)) \cap Above(g, Made(g, visitors[j].ref)) = {}
<1>1. \A n \in DOMAIN visitors : Ahead(g, visitors, NewRound, n) = {}
  <2>1. \A n \in DOMAIN visitors : Ahead(g, visitors, NewRound, n) = Above(g, Elements(visitors[n].current))
        BY AheadAtStart
  <2>2. \A n \in DOMAIN visitors : Elements(visitors[n].current) = {}
        BY EmptyQueue
  <2>3. Above(g, {}) = {}
        BY DEF Above
  <2> QED
      BY <2>1, <2>2, <2>3
<1>2. visitors[i].seen \cap visitors[j].seen = {}
      BY <1>1 DEF WalkInv
<1>3. ASSUME NEW n \in DOMAIN visitors
      PROVE  Above(g, Made(g, visitors[n].ref)) \subseteq visitors[n].seen
  <2> DEFINE seen == visitors[n].seen
             made == Made(g, visitors[n].ref)
  <2>1. VisitorOK(g, visitors[n])
        BY DEF VisitorsInv
  <2>2. made \subseteq seen /\ seen \subseteq DOMAIN g
        BY <2>1 DEF VisitorOK
  <2>3. \A r \in seen : ParentsIn(g, r) \subseteq seen
        BY <1>1 DEF WalkInv
  <2> HIDE DEF seen, made
  <2>4. Closed(g, seen)
        BY <2>2, <2>3 DEF Closed
  <2>5. made \subseteq DOMAIN g
        BY <2>2
  <2>6. Above(g, made) \subseteq seen
        BY <2>2, <2>4, <2>5, AboveLeast
  <2> QED
      BY <2>6 DEF seen, made
<1> QED
    BY <1>2, <1>3

LEMMA MergeRootsOK ==
    ASSUME NEW g \in Graphs, NEW s, RunInv(g, s), CanMergeRoots(s)
    PROVE  RunInv(g, MergeRoots(s))
<1> DEFINE old == s.visitors
           round == s.round
           d == s.depth
           p == s.phase
<1>1. /\ Shape(s) /\ VisitorsInv(g, old) /\ PlaceInv(g, old, round, p) /\ WalkInv(g, old, round)
      /\ IsQueue(old) /\ DOMAIN old = 1 .. Len(old) /\ Len(old) \in Nat
      BY InvFields
<1>2. d \in Nat /\ p \in {"iterate", "roots", "done"}
      BY <1>1, RunFields
<1>3. p = "roots" /\ Len(old) > 1
      BY DEF CanMergeRoots
<1>4. 1 \in DOMAIN old /\ 2 \in DOMAIN old /\ Len(old) # 1
  <2> DEFINE len == Len(old)
  <2>1. len \in Nat /\ len > 1 /\ DOMAIN old = 1 .. len
        BY <1>1, <1>3
  <2> HIDE DEF len, old
  <2>2. 1 \in 1 .. len /\ 2 \in 1 .. len /\ len # 1
        BY <2>1
  <2> QED
      BY <2>1, <2>2 DEF len
<1> HIDE DEF old, p, d
<1>5. round = NewRound /\ \A n \in DOMAIN old : old[n].current = <<>>
      BY <1>1, <1>3, <1>4 DEF PlaceInv
<1> DEFINE one == 1
           two == 2
           base == NoRef
<1>6. one \in DOMAIN old /\ two \in DOMAIN old /\ one # two
      BY <1>4
<1>17. base \in Ref \cup {NoRef} /\ NoSide(s.visitors, one, two, base)
       BY DEF NoSide
<1>18. MergeRoots(s) = MergeVisitors(s, one, two, base)
       BY DEF MergeRoots
<1> HIDE DEF one, two
<1>7. GoodBase(g, base, s.visitors[one], s.visitors[two])
  <2>1. Above(g, Made(g, old[one].ref)) \cap Above(g, Made(g, old[two].ref)) = {}
        BY <1>1, <1>5, <1>6, NothingInCommon
  <2> QED
      BY <2>1 DEF GoodBase, old
<1> HIDE DEF base
<1>19. PICK vs, ms : Merged(g, s, one, two, base, vs, ms)
  <2>1. one \in DOMAIN s.visitors /\ two \in DOMAIN s.visitors
        BY <1>6 DEF old
  <2> QED
      BY <1>6, <1>7, <1>17, <2>1, MergedOK
<1>8. /\ MergeVisitors(s, one, two, base) = Run(vs, s.round, s.depth, s.phase, ms)
      /\ IsQueue(vs) /\ IsQueue(ms)
      /\ VisitorsInv(g, vs) /\ WalkInv(g, vs, NewRound) /\ MergesInv(g, vs, ms)
      /\ (\A n \in DOMAIN s.visitors : s.visitors[n].current = <<>>)
            => \A n \in DOMAIN vs : vs[n].current = <<>>
      BY <1>19 DEF Merged
<1>9. \A n \in DOMAIN vs : vs[n].current = <<>>
      BY <1>5, <1>8 DEF old
<1>10. p # "done"
       BY <1>3
<1>11. PlaceInv(g, vs, NewRound, p)
       BY <1>8, <1>9, <1>10, PlaceAtStart
<1>12. MergeRoots(s) = Run(vs, round, d, p, ms)
       BY <1>8, <1>18 DEF d, p
<1> DEFINE none == <<>>
           no == FALSE
<1>13. round = Round(1, 1, none, no) /\ IsQueue(none)
       BY <1>5, NewRoundIs, EmptyQueue
<1>14. 1 \in Nat \ {0} /\ no \in BOOLEAN
       OBVIOUS
<1>15. PlaceInv(g, vs, round, p) /\ WalkInv(g, vs, round)
       BY <1>5, <1>8, <1>11
<1> HIDE DEF none, no, round
<1>16. RunInv(g, Run(vs, round, d, p, ms))
       BY <1>2, <1>8, <1>13, <1>14, <1>15, RunOK
<1> QED
    BY <1>12, <1>16

-----------------------------------------------------------------------------
(* A call starts with one visitor for each head.                           *)

LEMMA SortedHeads ==
    ASSUME NEW g \in Graphs
    PROVE  LET sorted == Sorted(HeadsOf(g), SortRefs)
           IN  /\ IsQueue(sorted) /\ Elements(sorted) = HeadsOf(g)
               /\ \A m, n \in DOMAIN sorted : m # n => sorted[m] # sorted[n]
<1> DEFINE heads == HeadsOf(g)
           card == Cardinality(heads)
           sorted == Sorted(heads, SortRefs)
           R == {p \in heads \X heads : SortRefs(p[1], p[2])}
           Good(q) == \A i, j \in 1 .. card : i < j => q[i] # q[j] /\ SortRefs(q[i], q[j])
<1>1. heads \subseteq DOMAIN g /\ DOMAIN g \subseteq Ref /\ IsFiniteSet(DOMAIN g)
      BY GraphFacts
<1>2. IsFiniteSet(heads)
      BY <1>1, FS_Subset
<1>3. \A x, y \in heads : <<x, y>> \in R <=> SortRefs(x, y)
      OBVIOUS
<1>4. heads \subseteq Ref
      BY <1>1
<1> HIDE DEF R, heads
<1>5. StrictOrder(R, heads)
  <2>1. \A x, y \in heads : x = y \/ <<x, y>> \in R \/ <<y, x>> \in R
        BY <1>3, <1>4, OrderAssumption
  <2>2. \A x \in heads : <<x, x>> \notin R
        BY <1>3, <1>4, OrderAssumption
  <2>3. \A x, y, z \in heads : <<x, y>> \in R /\ <<y, z>> \in R => <<x, z>> \in R
        BY <1>3, <1>4, OrderAssumption
  <2> QED
      BY <2>1, <2>2, <2>3 DEF StrictOrder
<1>6. \E q \in [1 .. card -> heads] :
          \A i, j \in 1 .. card : i < j => q[i] # q[j] /\ <<q[i], q[j]>> \in R
      BY <1>2, <1>5, Sorting
<1>7. \E q \in [1 .. card -> heads] : Good(q)
  <2>1. PICK q \in [1 .. card -> heads] :
          \A i, j \in 1 .. card : i < j => q[i] # q[j] /\ <<q[i], q[j]>> \in R
        BY <1>6
  <2>2. \A i \in 1 .. card : q[i] \in heads
        OBVIOUS
  <2>3. Good(q)
        BY <1>3, <2>1, <2>2
  <2> QED
      BY <2>3
<1>8. sorted = CHOOSE q \in [1 .. card -> heads] : Good(q)
      BY DEF Sorted
<1>9. card \in Nat
      BY <1>2, FS_CardinalityType
<1> HIDE DEF sorted, card
<1>10. sorted \in [1 .. card -> heads] /\ Good(sorted)
  <2> HIDE DEF Good
  <2> QED
      BY <1>7, <1>8
<1>11. \A i, j \in 1 .. card : i < j => sorted[i] # sorted[j]
       BY <1>10
<1> HIDE DEF Good
<1>12. IsQueue(sorted) /\ Elements(sorted) = heads
       BY <1>2, <1>10, <1>11, ListsAll DEF card
<1>13. ASSUME NEW m \in DOMAIN sorted, NEW n \in DOMAIN sorted, m # n PROVE sorted[m] # sorted[n]
  <2>1. m \in 1 .. card /\ n \in 1 .. card
        BY <1>10
  <2>2. m < n \/ n < m
        BY <1>9, <1>13, <2>1
  <2>3. CASE m < n
        BY <1>11, <2>1, <2>3
  <2>4. CASE n < m
        BY <1>11, <2>1, <2>4
  <2> QED
      BY <2>2, <2>3, <2>4
<1>14. sorted = Sorted(HeadsOf(g), SortRefs)
       BY DEF sorted, heads
<1> QED
    BY <1>12, <1>13, <1>14 DEF heads

LEMMA NewVisitorOK ==
    ASSUME NEW g \in Graphs, NEW h \in HeadsOf(g)
    PROVE  /\ VisitorOK(g, NewVisitor(h)) /\ NewVisitor(h).ref = h /\ NewVisitor(h).seen = {h}
           /\ Made(g, h) = {h} /\ h \in Above(g, Elements(NewVisitor(h).current))
<1> DEFINE one == <<h>>
           v == NewVisitor(h)
           seen == {h}
<1>1. HeadsOf(g) \subseteq DOMAIN g /\ DOMAIN g \subseteq Ref
      /\ \A r \in DOMAIN g : Made(g, r) = {r} \cap HeadsOf(g)
      BY GraphFacts
<1>2. h \in DOMAIN g /\ h \in Ref /\ Made(g, h) = {h}
      BY <1>1
<1>3. IsQueue(one) /\ Elements(one) = {h}
  <2>1. one = Append(<<>>, h)
        OBVIOUS
  <2>2. IsQueue(<<>>) /\ Elements(<<>>) = {}
        BY EmptyQueue
  <2>3. IsQueue(Append(<<>>, h)) /\ Elements(Append(<<>>, h)) = Elements(<<>>) \cup {h}
        BY <2>2, QueueAppend
  <2> QED
      BY <2>1, <2>2, <2>3
<1>4. h \in Above(g, {h})
  <2>1. {h} \subseteq DOMAIN g
        BY <1>2
  <2>2. {h} \subseteq Above(g, {h})
        BY <2>1, AboveIs
  <2> QED
      BY <2>2
<1>5. v = [ref |-> h, current |-> one, seen |-> seen]
      BY DEF NewVisitor
<1>6. seen \in SUBSET DOMAIN g
      BY <1>2
<1>7. h \in seen /\ seen = {h}
      OBVIOUS
<1> HIDE DEF v, one, seen
<1>8. /\ v \in [ref : Ref, current : {v.current}, seen : SUBSET DOMAIN g]
      /\ v.ref = h /\ v.current = one /\ v.seen = seen
      BY <1>2, <1>5, <1>6
<1>9. /\ Made(g, v.ref) # {} /\ Made(g, v.ref) = v.seen \cap HeadsOf(g)
      /\ v.seen \subseteq Above(g, Made(g, v.ref))
      BY <1>2, <1>4, <1>7, <1>8
<1>10. IsQueue(v.current) /\ Elements(v.current) \subseteq v.seen
       BY <1>3, <1>7, <1>8
<1>11. VisitorOK(g, v)
       BY <1>8, <1>9, <1>10 DEF VisitorOK
<1> QED
    BY <1>2, <1>3, <1>4, <1>7, <1>8, <1>11 DEF v

LEMMA InitOK ==
    ASSUME NEW g \in Graphs
    PROVE  RunInv(g, InitRun(HeadsOf(g)))
<1> DEFINE heads == HeadsOf(g)
           sorted == Sorted(heads, SortRefs)
           vs == [n \in DOMAIN sorted |-> NewVisitor(sorted[n])]
           none == <<>>
           zero == 0
           first == NewRound
           p == "iterate"
           no == FALSE
<1>1. /\ IsQueue(sorted) /\ Elements(sorted) = heads
      /\ \A m, n \in DOMAIN sorted : m # n => sorted[m] # sorted[n]
      BY SortedHeads
<1>2. InitRun(heads) = Run(vs, first, zero, p, none)
      BY DEF InitRun, InitVisitors, Run
<1> HIDE DEF sorted
<1>3. DOMAIN vs = DOMAIN sorted /\ \A n \in DOMAIN sorted : vs[n] = NewVisitor(sorted[n])
      OBVIOUS
<1>4. IsQueue(vs)
  <2>1. DOMAIN sorted = 1 .. Len(sorted) /\ Len(sorted) \in Nat
        BY <1>1, QueueDomain
  <2>2. vs = [n \in 1 .. Len(sorted) |-> vs[n]]
        BY <1>3, <2>1
  <2> HIDE DEF vs
  <2> QED
      BY <2>1, <2>2, ListedQueue
<1> HIDE DEF vs
<1>5. \A n \in DOMAIN vs : sorted[n] \in heads
      BY <1>1, <1>3 DEF Elements
<1>6. \A h \in heads : \E n \in DOMAIN vs : sorted[n] = h
      BY <1>1, <1>3 DEF Elements
<1>7. ASSUME NEW n \in DOMAIN vs
      PROVE  /\ VisitorOK(g, vs[n]) /\ vs[n].ref = sorted[n] /\ vs[n].seen = {sorted[n]}
             /\ Made(g, vs[n].ref) = {sorted[n]}
             /\ sorted[n] \in Above(g, Elements(vs[n].current))
  <2> DEFINE h == sorted[n]
  <2>1. h \in HeadsOf(g) /\ vs[n] = NewVisitor(h)
        BY <1>3, <1>5
  <2> HIDE DEF h
  <2>2. /\ VisitorOK(g, NewVisitor(h)) /\ NewVisitor(h).ref = h /\ NewVisitor(h).seen = {h}
        /\ Made(g, h) = {h} /\ h \in Above(g, Elements(NewVisitor(h).current))
        BY <2>1, NewVisitorOK
  <2> QED
      BY <2>1, <2>2 DEF h
<1>8. VisitorsInv(g, vs)
  <2>1. ASSUME NEW m \in DOMAIN vs, NEW n \in DOMAIN vs, m # n
        PROVE  Made(g, vs[m].ref) \cap Made(g, vs[n].ref) = {}
    <3>1. sorted[m] # sorted[n]
          BY <1>1, <1>3, <2>1
    <3> QED
        BY <1>7, <3>1
  <2> QED
      BY <1>7, <2>1 DEF VisitorsInv
<1>9. PlaceInv(g, vs, NewRound, p)
  <2>1. p = "iterate" /\ p # "done"
        OBVIOUS
  <2> HIDE DEF p
  <2> QED
      BY <1>4, <2>1, PlaceAtStart
<1>10. WalkInv(g, vs, NewRound)
  <2>1. \A n \in DOMAIN vs : sorted[n] \in Ahead(g, vs, NewRound, n)
        BY <1>7, <1>8, AheadAtStart
  <2>2. ASSUME NEW m \in DOMAIN vs, NEW n \in DOMAIN vs, m # n
        PROVE  vs[m].seen \cap vs[n].seen \subseteq Ahead(g, vs, NewRound, m) \cup Ahead(g, vs, NewRound, n)
        BY <1>7, <2>1
  <2>3. ASSUME NEW n \in DOMAIN vs, NEW r \in vs[n].seen
        PROVE  ParentsIn(g, r) \subseteq vs[n].seen \/ r \in Ahead(g, vs, NewRound, n)
        BY <1>7, <2>1
  <2> QED
      BY <2>2, <2>3 DEF WalkInv
<1>11. DOMAIN none = {} /\ Len(none) = 0 /\ IsQueue(none)
       BY EmptyQueue
<1> HIDE DEF none
<1>12. Known(g, none, Len(none)) = heads
  <2>1. 1 .. Len(none) = {}
        BY <1>11
  <2> QED
      BY <2>1 DEF Known
<1> HIDE DEF heads
<1>13. AllSides(none) = {}
       BY <1>11 DEF AllSides
<1>14. Refs(vs) = heads
       BY <1>5, <1>6, <1>7 DEF Refs
<1>15. ASSUME NEW r \in heads
       PROVE  Made(g, r) # {} /\ \E n \in DOMAIN vs : Made(g, r) \subseteq Made(g, vs[n].ref)
  <2>1. PICK n \in DOMAIN vs : sorted[n] = r
        BY <1>6
  <2>2. Made(g, r) = {r} /\ vs[n].ref = r
        BY <1>7, <2>1
  <2> QED
      BY <2>2
<1>16. MergesInv(g, vs, none)
       BY <1>11, <1>12, <1>13, <1>14, <1>15 DEF MergesInv
<1>17. first = Round(1, 1, none, no)
       BY NewRoundIs DEF none
<1>18. zero \in Nat /\ 1 \in Nat \ {0} /\ no \in BOOLEAN /\ p \in {"iterate", "roots", "done"}
       OBVIOUS
<1>19. PlaceInv(g, vs, first, p) /\ WalkInv(g, vs, first)
       BY <1>9, <1>10
<1> HIDE DEF zero, first, p, no
<1>20. RunInv(g, Run(vs, first, zero, p, none))
       BY <1>4, <1>8, <1>11, <1>16, <1>17, <1>18, <1>19, RunOK
<1> QED
    BY <1>2, <1>20 DEF heads

-----------------------------------------------------------------------------
(* The heads that a ref is made of, as the properties compute them.        *)

MadeOfKnown(g, merges, n) == [r \in Known(g, merges, n) |-> Made(g, r)]

WithMerge(f, m) ==
    [r \in DOMAIN f \cup {m.ref} |-> IF r = m.ref THEN f[m.left] \cup f[m.right] ELSE f[r]]

IsLeaves(g, m, n, under) ==
    under = [k \in 0 .. n |-> IF k = 0 THEN [r \in HeadsOf(g) |-> {r}]
                              ELSE WithMerge(under[k - 1], m[k])]

AllMergeOK(g, m) == \A n \in DOMAIN m : MergeOK(g, m[n], Known(g, m, n - 1))

LEMMA LeavesStart ==
    ASSUME NEW g \in Graphs, NEW m
    PROVE  [r \in HeadsOf(g) |-> {r}] = MadeOfKnown(g, m, 0)
<1>1. Known(g, m, 0) = HeadsOf(g)
      BY DEF Known
<1>2. \A r \in HeadsOf(g) : Made(g, r) = {r}
      BY GraphFacts
<1> QED
    BY <1>1, <1>2 DEF MadeOfKnown

LEMMA LeavesStep ==
    ASSUME NEW g \in Graphs, NEW m, IsQueue(m), AllMergeOK(g, m), NEW k \in DOMAIN m,
           NEW f, f = MadeOfKnown(g, m, k - 1)
    PROVE  WithMerge(f, m[k]) = MadeOfKnown(g, m, k)
<1> DEFINE before == Known(g, m, k - 1)
           now == Known(g, m, k)
           new == m[k].ref
<1>1. DOMAIN m = 1 .. Len(m) /\ Len(m) \in Nat
      BY QueueDomain
<1>2. now = before \cup {new}
  <2>1. 1 .. k = 1 .. k - 1 \cup {k}
        BY <1>1
  <2> QED
      BY <2>1 DEF Known
<1>3. MergeOK(g, m[k], before)
      BY DEF AllMergeOK
<1>4. /\ m[k].left \in before /\ m[k].right \in before /\ new \notin before
      /\ Made(g, new) = Made(g, m[k].left) \cup Made(g, m[k].right)
      BY <1>3 DEF MergeOK, Sides
<1>5. DOMAIN f = before /\ \A r \in before : f[r] = Made(g, r)
      BY DEF MadeOfKnown
<1> DEFINE h == [r \in DOMAIN f \cup {m[k].ref} |->
                       IF r = m[k].ref THEN f[m[k].left] \cup f[m[k].right] ELSE f[r]]
<1> HIDE DEF before, now
<1>6. DOMAIN h = now
      BY <1>2, <1>5
<1>7. ASSUME NEW r \in now PROVE h[r] = Made(g, r)
  <2>1. CASE r = new
    <3>1. h[r] = f[m[k].left] \cup f[m[k].right]
          BY <1>2, <1>5, <2>1
    <3> QED
        BY <1>4, <1>5, <2>1, <3>1
  <2>2. CASE r # new
    <3>1. r \in before
          BY <1>2, <2>2
    <3>2. h[r] = f[r]
          BY <1>5, <2>2, <3>1
    <3> QED
        BY <1>5, <3>1, <3>2
  <2> QED
      BY <2>1, <2>2
<1>8. h = [r \in now |-> Made(g, r)]
  <2>1. h = [r \in DOMAIN h |-> h[r]]
        OBVIOUS
  <2> HIDE DEF h
  <2> QED
      BY <1>6, <1>7, <2>1
<1> QED
    BY <1>8 DEF MadeOfKnown, now, WithMerge

LEMMA LeavesExist ==
    ASSUME NEW g \in Graphs, NEW m, IsQueue(m), AllMergeOK(g, m), NEW n \in 0 .. Len(m)
    PROVE  \E under : IsLeaves(g, m, n, under)
<1> DEFINE f == [k \in 0 .. n |-> MadeOfKnown(g, m, k)]
           StepOf(k) == WithMerge(f[k - 1], m[k])
<1>1. DOMAIN m = 1 .. Len(m) /\ Len(m) \in Nat /\ n \in Nat
      BY QueueDomain
<1>2. ASSUME NEW k \in 0 .. n, k # 0 PROVE f[k] = StepOf(k)
  <2>1. k \in DOMAIN m /\ k - 1 \in 0 .. n
        BY <1>1, <1>2
  <2>2. f[k] = MadeOfKnown(g, m, k) /\ f[k - 1] = MadeOfKnown(g, m, k - 1)
        BY <2>1
  <2> HIDE DEF f
  <2>3. StepOf(k) = MadeOfKnown(g, m, k)
        BY <2>1, <2>2, LeavesStep
  <2> HIDE DEF StepOf
  <2> QED
      BY <2>2, <2>3
<1>3. f[0] = [r \in HeadsOf(g) |-> {r}]
  <2>1. f[0] = MadeOfKnown(g, m, 0)
        BY <1>1
  <2> HIDE DEF f
  <2> QED
      BY <2>1, LeavesStart
<1> DEFINE First == [r \in HeadsOf(g) |-> {r}]
<1>4. f = [k \in 0 .. n |-> f[k]]
      OBVIOUS
<1> HIDE DEF f, StepOf, First
<1>5. f = [k \in 0 .. n |-> IF k = 0 THEN First ELSE StepOf(k)]
      BY <1>2, <1>3, <1>4 DEF First
<1>6. IsLeaves(g, m, n, f)
      BY <1>5 DEF IsLeaves, StepOf, First
<1> QED
    BY <1>6

LEMMA LeavesUnique ==
    ASSUME NEW g \in Graphs, NEW m, IsQueue(m), AllMergeOK(g, m), NEW n \in 0 .. Len(m),
           NEW under, IsLeaves(g, m, n, under)
    PROVE  under[n] = MadeOfKnown(g, m, n)
<1> DEFINE S == {k \in Nat : k <= n => under[k] = MadeOfKnown(g, m, k)}
<1>1. DOMAIN m = 1 .. Len(m) /\ Len(m) \in Nat /\ n \in Nat
      BY QueueDomain
<1>2. 0 \in S
  <2>1. under[0] = [r \in HeadsOf(g) |-> {r}]
        BY <1>1 DEF IsLeaves
  <2> QED
      BY <2>1, LeavesStart
<1>3. ASSUME NEW k \in Nat, k \in S PROVE k + 1 \in S
  <2>1. CASE k + 1 <= n
    <3> DEFINE x == k + 1
               h == WithMerge(under[x - 1], m[x])
    <3>1. x \in 0 .. n /\ x # 0 /\ x - 1 = k /\ x \in DOMAIN m /\ k <= n
          BY <1>1, <2>1
    <3>2. under[k] = MadeOfKnown(g, m, k)
          BY <1>3, <3>1
    <3> HIDE DEF x
    <3>3. under[x] = h
          BY <3>1 DEF IsLeaves
    <3>4. under[x - 1] = MadeOfKnown(g, m, x - 1)
          BY <3>1, <3>2
    <3>5. h = MadeOfKnown(g, m, x)
          BY <3>1, <3>4, LeavesStep
    <3> HIDE DEF h
    <3>6. under[x] = MadeOfKnown(g, m, x)
          BY <3>3, <3>5
    <3> QED
        BY <3>6 DEF x
  <2>2. CASE ~(k + 1 <= n)
        BY <2>2
  <2> QED
      BY <2>1, <2>2
<1> HIDE DEF S
<1>4. Nat \subseteq S
      BY <1>2, <1>3, InductionOnSet
<1>5. n \in S
      BY <1>1, <1>4
<1> QED
    BY <1>1, <1>5 DEF S

LEMMA LeavesAre ==
    ASSUME graph \in Graphs, IsQueue(run.merges), AllMergeOK(graph, run.merges),
           NEW n \in 0 .. Len(run.merges)
    PROVE  LeavesOf(n) = MadeOfKnown(graph, run.merges, n)
<1> DEFINE up == CHOOSE under : IsLeaves(graph, run.merges, n, under)
<1>1. LeavesOf(n) = up[n]
      BY DEF LeavesOf, IsLeaves, WithMerge, Heads
<1>2. \E under : IsLeaves(graph, run.merges, n, under)
      BY LeavesExist
<1>3. IsLeaves(graph, run.merges, n, up)
      BY <1>2
<1> HIDE DEF up
<1>4. up[n] = MadeOfKnown(graph, run.merges, n)
      BY <1>3, LeavesUnique
<1> QED
    BY <1>1, <1>4

LEMMA CommonAre ==
    ASSUME IInv, NEW n \in Merges
    PROVE  /\ MergeOK(graph, run.merges[n], Known(graph, run.merges, n - 1))
           /\ CommonAncestors(n) = Above(graph, Made(graph, run.merges[n].left))
                                       \cap Above(graph, Made(graph, run.merges[n].right))
<1> DEFINE m == run.merges
           known == Known(graph, m, n - 1)
           leaves == LeavesOf(n - 1)
<1>1. graph \in Graphs /\ Shape(run) /\ MergesInv(graph, run.visitors, m)
      BY InvFields DEF IInv
<1>2. IsQueue(m)
      BY <1>1, RunFields
<1>3. AllMergeOK(graph, m)
      BY <1>1 DEF MergesInv, AllMergeOK
<1>4. DOMAIN m = 1 .. Len(m) /\ Len(m) \in Nat
      BY <1>2, QueueDomain
<1>5. n \in DOMAIN m /\ n - 1 \in 0 .. Len(m)
      BY <1>4 DEF Merges
<1>6. leaves = MadeOfKnown(graph, m, n - 1)
      BY <1>1, <1>2, <1>3, <1>5, LeavesAre
<1>7. MergeOK(graph, m[n], known)
      BY <1>3, <1>5 DEF AllMergeOK
<1>8. m[n].left \in known /\ m[n].right \in known
      BY <1>7 DEF MergeOK, Sides
<1> HIDE DEF leaves, known
<1>9. leaves[m[n].left] = Made(graph, m[n].left) /\ leaves[m[n].right] = Made(graph, m[n].right)
      BY <1>6, <1>8 DEF MadeOfKnown, known
<1>10. CommonAncestors(n) = Above(graph, leaves[m[n].left]) \cap Above(graph, leaves[m[n].right])
       BY DEF CommonAncestors, Above, AncestorsOf, leaves
<1> QED
    BY <1>7, <1>9, <1>10 DEF known

-----------------------------------------------------------------------------
(* Every step keeps the invariant.                                         *)

LEMMA InitIInv == Init => IInv
BY InitOK DEF Init, IInv, Heads

LEMMA NextIInv == IInv /\ [Next]_vars => IInv'
<1> SUFFICES ASSUME IInv, [Next]_vars PROVE IInv'
    OBVIOUS
<1>1. graph \in Graphs /\ RunInv(graph, run)
      BY DEF IInv
<1>2. CASE UNCHANGED vars
      BY <1>1, <1>2 DEF vars, IInv
<1>3. CASE MeetNext
      BY <1>1, <1>3, MeetOK DEF MeetNext, IInv
<1>4. CASE WalkUpNext
      BY <1>1, <1>4, WalkUpOK DEF WalkUpNext, IInv
<1>5. CASE EndLeafNext
      BY <1>1, <1>5, EndLeafOK DEF EndLeafNext, IInv
<1>6. CASE EndRoundNext
      BY <1>1, <1>6, EndRoundOK DEF EndRoundNext, IInv
<1>7. CASE MergeRootsNext
      BY <1>1, <1>7, MergeRootsOK DEF MergeRootsNext, IInv
<1>8. CASE ReturnNext
      BY <1>1, <1>8, ReturnOK DEF ReturnNext, IInv
<1> QED
    BY <1>2, <1>3, <1>4, <1>5, <1>6, <1>7, <1>8 DEF Next

(* The inductive invariant, for every graph.                               *)
THEOREM RunsAreInOrder == Spec => []IInv
BY InitIInv, NextIInv, PTL DEF Spec

-----------------------------------------------------------------------------
(* What follows from it.                                                   *)

LEMMA TypesFollow == IInv => TypeOK
<1> SUFFICES ASSUME IInv PROVE TypeOK
    OBVIOUS
<1> DEFINE i == run.round.i
           vs == run.visitors
<1>1. /\ Shape(run) /\ VisitorsInv(graph, vs) /\ PlaceInv(graph, vs, run.round, run.phase)
      /\ IsQueue(vs) /\ DOMAIN vs = 1 .. Len(vs) /\ Len(vs) \in Nat
      BY InvFields DEF IInv
<1>2. /\ i \in Nat \ {0} /\ run.round.k \in Nat \ {0} /\ run.phase \in {"iterate", "roots", "done"}
      BY <1>1, RunFields
<1>3. \A n \in DOMAIN vs : /\ Elements(vs[n].current) \subseteq vs[n].seen
                           /\ vs[n].seen \subseteq DOMAIN graph
      BY <1>1 DEF VisitorsInv, VisitorOK
<1>4. i <= Len(vs) + 1
      BY <1>1 DEF PlaceInv
<1>5. Elements(run.round.next) \subseteq DOMAIN graph
  <2>1. CASE i \in DOMAIN vs
        BY <1>1, <1>3, <2>1 DEF PlaceInv
  <2>2. CASE i \notin DOMAIN vs
    <3>1. run.round.next = <<>>
          BY <1>1, <2>2 DEF PlaceInv
    <3> QED
        BY <3>1, EmptyQueue
  <2> QED
      BY <2>1, <2>2
<1>6. i \in 1 .. Len(vs) + 1
      BY <1>1, <1>2, <1>4
<1>7. \A q : ToSet(q) = Elements(q)
      BY ToSetIs
<1> HIDE DEF i
<1> QED
    BY <1>2, <1>3, <1>5, <1>6, <1>7 DEF TypeOK, i

LEMMA OnceFollows == IInv => EveryHeadMergedOnce
<1> SUFFICES ASSUME IInv, run.phase = "done" PROVE
        LET used == [n \in Merges |-> {run.merges[n].left, run.merges[n].right}]
            made == {run.merges[n].ref : n \in Merges}
        IN  /\ Len(run.visitors) = 1
            /\ \A n \in Merges : Cardinality(used[n]) = 2
            /\ \A m, n \in Merges : m # n => used[m] \cap used[n] = {}
            /\ (UNION {used[n] : n \in Merges}) \cup {run.visitors[1].ref} = Heads \cup made
    BY DEF EveryHeadMergedOnce
<1> DEFINE m == run.merges
           vs == run.visitors
           used == [n \in Merges |-> {m[n].left, m[n].right}]
           made == {m[n].ref : n \in Merges}
<1>1. /\ Shape(run) /\ PlaceInv(graph, vs, run.round, run.phase)
      /\ MergesInv(graph, vs, m)
      /\ IsQueue(vs) /\ DOMAIN vs = 1 .. Len(vs)
      BY InvFields DEF IInv
<1>2. IsQueue(m)
      BY <1>1, RunFields
<1>3. DOMAIN m = 1 .. Len(m) /\ Merges = DOMAIN m
      BY <1>2, QueueDomain DEF Merges
<1>4. Len(vs) = 1
      BY <1>1 DEF PlaceInv
<1>5. DOMAIN vs = {1}
      BY <1>1, <1>4
<1>6. /\ \A n \in DOMAIN m : MergeOK(graph, m[n], Known(graph, m, n - 1))
      /\ \A x, n \in DOMAIN m : x # n => Sides(m[x]) \cap Sides(m[n]) = {}
      /\ AllSides(m) \cup Refs(vs) = Known(graph, m, Len(m))
      BY <1>1 DEF MergesInv
<1>7. \A n \in Merges : used[n] = Sides(m[n])
      BY DEF Sides
<1>8. ASSUME NEW n \in Merges PROVE Cardinality(used[n]) = 2
  <2>1. m[n].left # m[n].right
        BY <1>3, <1>6 DEF MergeOK
  <2>2. IsFiniteSet({m[n].left}) /\ Cardinality({m[n].left}) = 1
        BY FS_Singleton
  <2>3. Cardinality({m[n].left} \cup {m[n].right}) = 1 + 1
        BY <2>1, <2>2, FS_AddElement
  <2>4. used[n] = {m[n].left} \cup {m[n].right}
        OBVIOUS
  <2> QED
      BY <2>3, <2>4
<1> HIDE DEF used, m, vs
<1>9. ASSUME NEW x \in Merges, NEW n \in Merges, x # n PROVE used[x] \cap used[n] = {}
      BY <1>3, <1>6, <1>7, <1>9
<1>10. (UNION {used[n] : n \in Merges}) \cup {vs[1].ref} = Heads \cup made
  <2>1. UNION {used[n] : n \in Merges} = AllSides(m)
        BY <1>3, <1>7 DEF AllSides
  <2>2. Refs(vs) = {vs[1].ref}
        BY <1>5 DEF Refs
  <2>3. Known(graph, m, Len(m)) = Heads \cup made
        BY <1>3 DEF Known, Heads
  <2> DEFINE U == UNION {used[n] : n \in Merges}
             last == vs[1].ref
  <2> HIDE DEF U, last, made
  <2>4. U \cup {last} = AllSides(m) \cup Refs(vs)
        BY <2>1, <2>2 DEF U, last
  <2>5. AllSides(m) \cup Refs(vs) = Heads \cup made
        BY <1>6, <2>3
  <2>6. U \cup {last} = Heads \cup made
        BY <2>4, <2>5
  <2> QED
      BY <2>6 DEF U, last
<1> QED
    BY <1>4, <1>8, <1>9, <1>10 DEF used, m, vs

(* The types of the variables of mergeHeads().                             *)
THEOREM RunTypesOK == Spec => []TypeOK
BY RunsAreInOrder, TypesFollow, PTL

(* Heads are never above each other, so that the check in mergeVisitors()  *)
(* never throws (merge-heads.ts:55), on any graph.                         *)
THEOREM NothingIsThrown == Spec => []NoThrow
<1>1. IInv => NoThrow
      BY InvFields, RunFields DEF IInv, NoThrow
<1> QED
    BY <1>1, RunsAreInOrder, PTL

(* The merges of a call form one binary tree over the heads.               *)
THEOREM HeadsAreMergedOnce == Spec => []EveryHeadMergedOnce
BY RunsAreInOrder, OnceFollows, PTL

(* The base of a merge is an ancestor of both its sides.                   *)
THEOREM BasesAreCommon == Spec => []BaseIsCommonAncestor
<1>1. IInv => BaseIsCommonAncestor
      BY CommonAre DEF BaseIsCommonAncestor, MergeOK
<1> QED
    BY <1>1, RunsAreInOrder, PTL

(* Two sides that are merged without a base have no ancestor in common: no *)
(* walk stops too early.                                                   *)
THEOREM NoBaseIsMissed == Spec => []NoBaseMeansUnrelated
<1>1. IInv => NoBaseMeansUnrelated
      BY CommonAre DEF NoBaseMeansUnrelated, MergeOK
<1> QED
    BY <1>1, RunsAreInOrder, PTL
=============================================================================
