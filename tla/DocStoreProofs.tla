---------------------------- MODULE DocStoreProofs ----------------------------
(***************************************************************************)
(* What adding commits makes of the table and of a store's memory, and     *)
(* what is served from the table, for commits of any kind.                 *)
(***************************************************************************)
EXTENDS DocStore, ListLemmas

-----------------------------------------------------------------------------
(* validateCommitOrder.                                                    *)

NothingChecked == [newCommits |-> <<>>, invalidRefs |-> {}, referenced |-> {}]

(* What has been found after n commits, for all n up to the last.          *)
IsChecking(f, batch, last) ==
    f = [n \in 0 .. last |-> IF n = 0 THEN NothingChecked ELSE CheckOne(f[n - 1], batch[n])]

Checking(batch) == CHOOSE f : IsChecking(f, batch, Len(batch))

LEMMA CheckingExists ==
    ASSUME NEW batch, IsQueue(batch)
    PROVE  IsChecking(Checking(batch), batch, Len(batch))
<1> DEFINE Defined == {n \in Nat : \E f : IsChecking(f, batch, n)}
<1>1. 0 \in Defined
  <2> DEFINE f == [n \in 0 .. 0 |-> NothingChecked]
  <2>1. IsChecking(f, batch, 0)
        BY DEF IsChecking
  <2> QED
      BY <2>1
<1>2. ASSUME NEW n \in Nat, n \in Defined
      PROVE  n + 1 \in Defined
  <2>1. PICK f : IsChecking(f, batch, n)
        BY <1>2
  <2> DEFINE g == [i \in 0 .. n + 1 |->
                      IF i = n + 1 THEN CheckOne(f[n], batch[n + 1]) ELSE f[i]]
  <2>2. \A i \in 0 .. n : f[i] = IF i = 0 THEN NothingChecked ELSE CheckOne(f[i - 1], batch[i])
        BY <2>1 DEF IsChecking
  <2>3. ASSUME NEW i \in 0 .. n + 1
        PROVE  g[i] = IF i = 0 THEN NothingChecked ELSE CheckOne(g[i - 1], batch[i])
    <3>1. CASE i = n + 1
      <4>1. i # 0 /\ g[i - 1] = f[n]
            BY <3>1
      <4> QED
          BY <3>1, <4>1
    <3>2. CASE i # n + 1
      <4>1. i \in 0 .. n /\ (i # 0 => i - 1 \in 0 .. n + 1 /\ i - 1 # n + 1)
            BY <3>2
      <4>2. g[i] = f[i] /\ (i # 0 => g[i - 1] = f[i - 1])
            BY <4>1, <3>2
      <4> QED
          BY <4>1, <4>2, <2>2
    <3> QED
        BY <3>1, <3>2
  <2>4. IsChecking(g, batch, n + 1)
    <3>1. g = [i \in 0 .. n + 1 |-> g[i]]
          OBVIOUS
    <3> HIDE DEF g
    <3> QED
        BY <3>1, <2>3 DEF IsChecking
  <2> QED
      BY <2>4
<1>3. Len(batch) \in Defined
  <2> HIDE DEF Defined
  <2> QED
      BY <1>1, <1>2, InductionOnSet, QueueDomain
<1> QED
    BY <1>3 DEF Checking

LEMMA ValidateChecks ==
    ASSUME NEW batch
    PROVE  ValidateCommitOrder(batch) =
               [newCommits |-> Checking(batch)[Len(batch)].newCommits,
                invalidRefs |-> Checking(batch)[Len(batch)].invalidRefs]
BY DEF ValidateCommitOrder, Checking, IsChecking, NothingChecked

(* The commits that are left are commits of the message.                   *)
LEMMA ValidCommits ==
    ASSUME NEW batch, IsQueue(batch)
    PROVE  /\ IsQueue(ValidateCommitOrder(batch).newCommits)
           /\ Elements(ValidateCommitOrder(batch).newCommits) \subseteq Elements(batch)
<1> DEFINE f == Checking(batch)
           OK(found) ==
               /\ found \in [newCommits : {found.newCommits},
                             invalidRefs : {found.invalidRefs},
                             referenced : {found.referenced}]
               /\ IsQueue(found.newCommits)
               /\ Elements(found.newCommits) \subseteq Elements(batch)
           Good == {n \in Nat : n <= Len(batch) => OK(f[n])}
<1>0. Len(batch) \in Nat /\ DOMAIN batch = 1 .. Len(batch)
      BY QueueDomain
<1>1. \A n \in 0 .. Len(batch) :
          f[n] = IF n = 0 THEN NothingChecked ELSE CheckOne(f[n - 1], batch[n])
      BY CheckingExists DEF IsChecking
<1> HIDE DEF f
<1>2. 0 \in Good
  <2>1. f[0] = NothingChecked
        BY <1>0, <1>1
  <2> QED
      BY <2>1, EmptyQueue DEF NothingChecked
<1>3. ASSUME NEW n \in Nat, n \in Good
      PROVE  n + 1 \in Good
  <2>1. SUFFICES ASSUME n + 1 <= Len(batch) PROVE OK(f[n + 1])
        OBVIOUS
  <2>2. OK(f[n]) /\ n + 1 \in 1 .. Len(batch)
        BY <1>0, <1>3, <2>1
  <2>3. f[n + 1] = CheckOne(f[n], batch[n + 1])
        BY <1>0, <1>1, <2>2
  <2> DEFINE r == batch[n + 1]
             found == f[n]
             more == Append(found.newCommits, r)
  <2>4. r \in Elements(batch)
        BY <1>0, <2>2 DEF Elements
  <2>5. IsQueue(more) /\ Elements(more) = Elements(found.newCommits) \cup {r}
        BY <2>2, QueueAppend
  <2>6. \/ CheckOne(found, r) = [found EXCEPT !.invalidRefs = @ \cup {r}]
        \/ CheckOne(found, r) = [found EXCEPT !.newCommits = more, !.referenced =
               found.referenced \cup (ParentsOf(r) \ ToSet(found.newCommits))]
        BY DEF CheckOne
  <2>7. OK(found)
        BY <2>2
  <2> HIDE DEF found, more, r
  <2>8. OK(CheckOne(found, r))
    <3>1. ASSUME NEW x
          PROVE  OK([found EXCEPT !.invalidRefs = x])
          BY <2>7
    <3>2. ASSUME NEW x
          PROVE  OK([found EXCEPT !.newCommits = more, !.referenced = x])
      <4>1. Elements(more) \subseteq Elements(batch)
            BY <2>4, <2>5, <2>7
      <4> QED
          BY <4>1, <2>5, <2>7
    <3> QED
        BY <2>6, <3>1, <3>2
  <2> QED
      BY <2>3, <2>8 DEF found, r
<1>4. OK(f[Len(batch)])
  <2> HIDE DEF OK
  <2>1. Good = {n \in Nat : n <= Len(batch) => OK(f[n])}
        OBVIOUS
  <2> HIDE DEF Good
  <2>2. Nat \subseteq Good
        BY <1>2, <1>3, InductionOnSet
  <2> QED
      BY <1>0, <2>1, <2>2
<1> QED
    BY <1>4, ValidateChecks DEF f

(* What was accepted as a parent comes before the commits that name it:    *)
(* what has been found of the first n commits.                             *)
OrderFound(found, batch, n) ==
    /\ found.newCommits \in Seq(Elements(found.newCommits))
    /\ \A r \in Elements(found.newCommits) \cap found.referenced : r \in ParentsOf(r)
    /\ \A r \in Elements(found.newCommits) : \E i \in 1 .. n : batch[i] = r
    /\ \A i \in 1 .. n : batch[i] \in Elements(found.newCommits) \cup found.referenced
    /\ \A i \in 1 .. n : batch[i] \in Elements(found.newCommits) =>
          \A q \in ParentsOf(batch[i]) :
              q \in found.referenced \/ \E m \in 1 .. i - 1 : batch[m] = q

LEMMA OrderRefused ==
    ASSUME NEW found, NEW batch, NEW n \in Nat, OrderFound(found, batch, n),
           batch[n + 1] \in found.referenced, NEW new,
           new.newCommits = found.newCommits, new.referenced = found.referenced
    PROVE  OrderFound(new, batch, n + 1)
<1> DEFINE r == batch[n + 1]
           N == Elements(found.newCommits)
<1>1. 1 .. n + 1 = (1 .. n) \cup {n + 1}
      OBVIOUS
<1>2. \A x \in N : \E i \in 1 .. n + 1 : batch[i] = x
      BY <1>1 DEF OrderFound
<1>3. \A i \in 1 .. n + 1 : batch[i] \in N \cup found.referenced
      BY <1>1 DEF OrderFound
<1>4. ASSUME NEW i \in 1 .. n + 1, batch[i] \in N, NEW q \in ParentsOf(batch[i])
      PROVE  q \in found.referenced \/ \E m \in 1 .. i - 1 : batch[m] = q
  <2>1. CASE i \in 1 .. n
        BY <1>4, <2>1 DEF OrderFound
  <2>2. CASE i = n + 1
    <3>1. PICK k \in 1 .. n : batch[k] = r
          BY <1>4, <2>2 DEF OrderFound
    <3>2. q \in found.referenced \/ \E m \in 1 .. k - 1 : batch[m] = q
          BY <1>4, <2>2, <3>1 DEF OrderFound
    <3>3. 1 .. k - 1 \subseteq 1 .. i - 1
          BY <2>2
    <3> QED
        BY <3>2, <3>3
  <2> QED
      BY <1>1, <2>1, <2>2
<1> QED
    BY <1>2, <1>3, <1>4 DEF OrderFound

LEMMA OrderAccepted ==
    ASSUME NEW found, NEW batch, NEW n \in Nat, OrderFound(found, batch, n),
           batch[n + 1] \notin found.referenced, NEW new,
           new.newCommits \in Seq(Elements(new.newCommits)),
           Elements(new.newCommits) = Elements(found.newCommits) \cup {batch[n + 1]},
           new.referenced = found.referenced
               \cup (ParentsOf(batch[n + 1]) \ Elements(found.newCommits))
    PROVE  OrderFound(new, batch, n + 1)
<1> DEFINE r == batch[n + 1]
           N == Elements(found.newCommits)
<1>1. 1 .. n + 1 = (1 .. n) \cup {n + 1}
      OBVIOUS
<1>2. \A x \in N \cup {r} : \E i \in 1 .. n + 1 : batch[i] = x
      BY <1>1 DEF OrderFound
<1>3. \A i \in 1 .. n + 1 : batch[i] \in (N \cup {r}) \cup new.referenced
      BY <1>1 DEF OrderFound
<1>4. ASSUME NEW i \in 1 .. n + 1, batch[i] \in N \cup {r}, NEW q \in ParentsOf(batch[i])
      PROVE  q \in new.referenced \/ \E m \in 1 .. i - 1 : batch[m] = q
  <2>1. CASE i \in 1 .. n
    <3>1. batch[i] \in N
          BY <1>4, <2>1 DEF OrderFound
    <3> QED
        BY <1>4, <2>1, <3>1 DEF OrderFound
  <2>2. CASE i = n + 1
    <3>1. CASE q \in N
      <4>1. PICK k \in 1 .. n : batch[k] = q
            BY <3>1 DEF OrderFound
      <4>2. k \in 1 .. i - 1
            BY <2>2
      <4> QED
          BY <4>1, <4>2
    <3>2. CASE q \notin N
          BY <1>4, <2>2, <3>2
    <3> QED
        BY <3>1, <3>2
  <2> QED
      BY <1>1, <2>1, <2>2
<1>5. \A x \in (N \cup {r}) \cap new.referenced : x \in ParentsOf(x)
      BY DEF OrderFound
<1> QED
    BY <1>2, <1>3, <1>4, <1>5 DEF OrderFound

(* A parent that is left comes before the commit.                          *)
ParentsBefore(batch, commits) ==
    \A n \in DOMAIN batch : batch[n] \in commits =>
        \A q \in ParentsOf(batch[n]) \cap commits :
            q \in ParentsOf(q) \/ \E m \in DOMAIN batch : m < n /\ batch[m] = q

LEMMA ValidOrder ==
    ASSUME NEW batch, IsQueue(batch)
    PROVE  ParentsBefore(batch, Elements(ValidateCommitOrder(batch).newCommits))
<1> DEFINE f == Checking(batch)
           OK(found, n) ==
               /\ found \in [newCommits : {found.newCommits},
                             invalidRefs : {found.invalidRefs},
                             referenced : {found.referenced}]
               /\ OrderFound(found, batch, n)
           Good == {n \in Nat : n <= Len(batch) => OK(f[n], n)}
<1>0. Len(batch) \in Nat /\ DOMAIN batch = 1 .. Len(batch)
      BY QueueDomain
<1>1. \A n \in 0 .. Len(batch) :
          f[n] = IF n = 0 THEN NothingChecked ELSE CheckOne(f[n - 1], batch[n])
      BY CheckingExists DEF IsChecking
<1> HIDE DEF f
<1>2. 0 \in Good
  <2>1. f[0] = NothingChecked
        BY <1>0, <1>1
  <2>2. OrderFound(NothingChecked, batch, 0)
    <3>1. <<>> \in Seq(Elements(<<>>)) /\ Elements(<<>>) = {}
          BY EmptyQueue
    <3> QED
        BY <3>1 DEF NothingChecked, OrderFound
  <2>3. OK(NothingChecked, 0)
        BY <2>2 DEF NothingChecked
  <2> HIDE DEF OK
  <2> QED
      BY <2>1, <2>3
<1>3. ASSUME NEW n \in Nat, n \in Good
      PROVE  n + 1 \in Good
  <2>1. SUFFICES ASSUME n + 1 <= Len(batch) PROVE OK(f[n + 1], n + 1)
        OBVIOUS
  <2>2. OK(f[n], n) /\ n + 1 \in 1 .. Len(batch)
        BY <1>0, <1>3, <2>1
  <2>3. f[n + 1] = CheckOne(f[n], batch[n + 1])
        BY <1>0, <1>1, <2>2
  <2> DEFINE found == f[n]
             r == batch[n + 1]
  <2>4. found \in [newCommits : {found.newCommits}, invalidRefs : {found.invalidRefs},
                   referenced : {found.referenced}] /\ OrderFound(found, batch, n)
        BY <2>2
  <2> HIDE DEF found
  <2>5. CASE r \in found.referenced
    <3> DEFINE new == [found EXCEPT !.invalidRefs = @ \cup {r}]
    <3>1. CheckOne(found, r) = new
          BY <2>5 DEF CheckOne
    <3>2. new.newCommits = found.newCommits /\ new.referenced = found.referenced
          BY <2>4
    <3>3. new \in [newCommits : {new.newCommits}, invalidRefs : {new.invalidRefs},
                   referenced : {new.referenced}]
          BY <2>4
    <3> HIDE DEF new
    <3>4. OrderFound(new, batch, n + 1)
          BY <2>4, <2>5, <3>2, OrderRefused
    <3>5. OK(new, n + 1)
          BY <3>3, <3>4
    <3> QED
        BY <2>3, <3>1, <3>5 DEF found
  <2>6. CASE r \notin found.referenced
    <3> DEFINE more == Append(found.newCommits, r)
               refs == found.referenced \cup (ParentsOf(r) \ Elements(found.newCommits))
               new == [found EXCEPT !.newCommits = more, !.referenced = refs]
    <3>1. CheckOne(found, r) = new
          BY <2>6 DEF CheckOne, ToSet, Elements
    <3>2. IsQueue(found.newCommits)
          BY <2>4 DEF OrderFound, IsQueue
    <3>3. IsQueue(more) /\ Elements(more) = Elements(found.newCommits) \cup {r}
          BY <3>2, QueueAppend
    <3>4. more \in Seq(Elements(more))
          BY <3>3, QueueDomain
    <3> HIDE DEF more, refs
    <3>5. new.newCommits = more /\ new.referenced = refs
          BY <2>4
    <3>6. new \in [newCommits : {new.newCommits}, invalidRefs : {new.invalidRefs},
                   referenced : {new.referenced}]
          BY <2>4
    <3> HIDE DEF new
    <3>7. OrderFound(new, batch, n + 1)
          BY <2>4, <2>6, <3>3, <3>4, <3>5, OrderAccepted DEF refs
    <3>8. OK(new, n + 1)
          BY <3>6, <3>7
    <3> QED
        BY <2>3, <3>1, <3>8 DEF found
  <2> QED
      BY <2>5, <2>6
<1>4. OK(f[Len(batch)], Len(batch))
  <2> HIDE DEF OK
  <2>1. Good = {n \in Nat : n <= Len(batch) => OK(f[n], n)}
        OBVIOUS
  <2> HIDE DEF Good
  <2>2. Nat \subseteq Good
        BY <1>2, <1>3, InductionOnSet
  <2> QED
      BY <1>0, <2>1, <2>2
<1> DEFINE N == Elements(f[Len(batch)].newCommits)
<1>5. ASSUME NEW n \in DOMAIN batch, batch[n] \in N, NEW q \in ParentsOf(batch[n]) \cap N
      PROVE  q \in ParentsOf(q) \/ \E m \in DOMAIN batch : m < n /\ batch[m] = q
  <2>1. OrderFound(f[Len(batch)], batch, Len(batch))
        BY <1>4
  <2>2. \/ q \in f[Len(batch)].referenced
        \/ \E m \in 1 .. n - 1 : batch[m] = q
        BY <1>0, <1>5, <2>1 DEF OrderFound
  <2>3. \A m \in 1 .. n - 1 : m \in DOMAIN batch /\ m < n
        BY <1>0
  <2>4. q \in f[Len(batch)].referenced => q \in ParentsOf(q)
        BY <1>5, <2>1 DEF OrderFound
  <2> QED
      BY <2>2, <2>3, <2>4
<1>6. ValidateCommitOrder(batch).newCommits = f[Len(batch)].newCommits
      BY ValidateChecks DEF f
<1> QED
    BY <1>5, <1>6 DEF ParentsBefore

-----------------------------------------------------------------------------
(* add.                                                                    *)

NothingAdded(rows, memory) ==
    [rows |-> rows, seenRefs |-> memory.seenRefs, headRef |-> memory.headRef,
     acks |-> {}, refErrors |-> {}, nextIndex |-> 0]

(* What has been added after n commits, for all n up to the last.          *)
IsAdding(f, rows, memory, commits, id, last) ==
    f = [n \in 0 .. last |->
            IF n = 0 THEN NothingAdded(rows, memory) ELSE AddOne(f[n - 1], commits[n], id)]

Adding(rows, memory, commits, id) ==
    CHOOSE f : IsAdding(f, rows, memory, commits, id, Len(commits))

LEMMA AddingExists ==
    ASSUME NEW rows, NEW memory, NEW commits, IsQueue(commits), NEW id
    PROVE  IsAdding(Adding(rows, memory, commits, id), rows, memory, commits, id, Len(commits))
<1> DEFINE Is(f, n) == IsAdding(f, rows, memory, commits, id, n)
           Defined == {n \in Nat : \E f : Is(f, n)}
           start == NothingAdded(rows, memory)
<1>1. 0 \in Defined
  <2> DEFINE f == [n \in 0 .. 0 |-> start]
  <2>1. Is(f, 0)
        BY DEF IsAdding
  <2> QED
      BY <2>1
<1>2. ASSUME NEW n \in Nat, n \in Defined
      PROVE  n + 1 \in Defined
  <2>1. PICK f : Is(f, n)
        BY <1>2
  <2> DEFINE g == [i \in 0 .. n + 1 |->
                      IF i = n + 1 THEN AddOne(f[n], commits[n + 1], id) ELSE f[i]]
  <2>2. \A i \in 0 .. n : f[i] = IF i = 0 THEN start ELSE AddOne(f[i - 1], commits[i], id)
        BY <2>1 DEF IsAdding
  <2>3. ASSUME NEW i \in 0 .. n + 1
        PROVE  g[i] = IF i = 0 THEN start ELSE AddOne(g[i - 1], commits[i], id)
    <3>1. CASE i = n + 1
      <4>1. i # 0 /\ g[i - 1] = f[n]
            BY <3>1
      <4> QED
          BY <3>1, <4>1
    <3>2. CASE i # n + 1
      <4>1. i \in 0 .. n /\ (i # 0 => i - 1 \in 0 .. n + 1 /\ i - 1 # n + 1)
            BY <3>2
      <4>2. g[i] = f[i] /\ (i # 0 => g[i - 1] = f[i - 1])
            BY <4>1, <3>2
      <4> QED
          BY <4>1, <4>2, <2>2
    <3> QED
        BY <3>1, <3>2
  <2>4. Is(g, n + 1)
    <3>1. g = [i \in 0 .. n + 1 |-> g[i]]
          OBVIOUS
    <3> HIDE DEF g
    <3> QED
        BY <3>1, <2>3 DEF IsAdding
  <2> QED
      BY <2>4
<1>3. Len(commits) \in Defined
  <2> HIDE DEF Defined
  <2> QED
      BY <1>1, <1>2, InductionOnSet, QueueDomain
<1> QED
    BY <1>3 DEF Adding

LEMMA AddCommitsAdds ==
    ASSUME NEW rows, NEW memory, NEW batch, NEW id
    PROVE  LET valid == ValidateCommitOrder(batch)
               st == Adding(rows, memory, valid.newCommits, id)[Len(valid.newCommits)]
           IN  LiveDocAddCommits(rows, memory, batch, id) =
                   [rows |-> st.rows,
                    memory |-> [seenRefs |-> st.seenRefs, headRef |-> st.headRef],
                    acks |-> st.acks,
                    refErrors |-> st.refErrors \cup valid.invalidRefs,
                    broadcast |-> Among(batch, {n \in DOMAIN batch : batch[n] \in st.acks})]
BY DEF LiveDocAddCommits, Adding, IsAdding, NothingAdded

(* The rows that come after the first n of them.                           *)
Later(rows, n) == n + 1 .. Len(rows)

NewRefs(rows, n) == {rows[m].ref : m \in Later(rows, n)}

(* New rows: under one remoteSyncId, numbered, each of a commit of the     *)
(* message that is acknowledged, and none before its parents.              *)
RowOK(rows, n, m, seen, refs, acks, id) ==
    /\ rows[m] = [ref |-> rows[m].ref, remoteSyncId |-> id,
                  remoteSyncIndex |-> m - n - 1, main |-> rows[m].main]
    /\ rows[m].main \in BOOLEAN
    /\ rows[m].ref \in refs /\ rows[m].ref \in acks
    /\ ParentsOf(rows[m].ref) \subseteq
           seen \cup {rows[k].ref : k \in {x \in Later(rows, n) : x < m}}

(* The table after some commits of a message have been added.              *)
TableOK(old, seen, new, refs, acks, id) ==
    /\ IsQueue(new)
    /\ Len(old) <= Len(new)
    /\ \A m \in 1 .. Len(old) : new[m] = old[m]
    /\ \A m \in Later(new, Len(old)) : RowOK(new, Len(old), m, seen, refs, acks, id)

AddedOK(rows, memory, refs, id, st) ==
    /\ st \in [rows : {st.rows}, seenRefs : {st.seenRefs}, headRef : {st.headRef},
               acks : {st.acks}, refErrors : {st.refErrors}, nextIndex : {st.nextIndex}]
    /\ TableOK(rows, memory.seenRefs, st.rows, refs, st.acks, id)
    /\ st.nextIndex = Len(st.rows) - Len(rows)
    /\ st.seenRefs = memory.seenRefs \cup NewRefs(st.rows, Len(rows))
    /\ st.acks \subseteq st.seenRefs \cap refs
    /\ \A x \in st.acks : ParentsOf(x) \subseteq st.seenRefs
    /\ st.headRef \in refs \cup {memory.headRef}

IsRow(row, old, new, r, id) ==
    /\ row = [ref |-> r, remoteSyncId |-> id,
              remoteSyncIndex |-> Len(new) - Len(old), main |-> row.main]
    /\ row.main \in BOOLEAN

RowAdded(old, seen, new, more, refs, acks, id, r) ==
    /\ TableOK(old, seen, more, refs, acks \cup {r}, id)
    /\ NewRefs(more, Len(old)) = NewRefs(new, Len(old)) \cup {r}
    /\ Len(more) = Len(new) + 1

(* Another row.                                                            *)
LEMMA AddRow ==
    ASSUME NEW old, NEW seen, NEW new, NEW refs, NEW acks, NEW id,
           NEW r, NEW row, NEW more,
           IsQueue(old), TableOK(old, seen, new, refs, acks, id), r \in refs,
           ParentsOf(r) \subseteq seen \cup NewRefs(new, Len(old)),
           IsRow(row, old, new, r, id), more = Append(new, row)
    PROVE  RowAdded(old, seen, new, more, refs, acks, id, r)
<1> DEFINE n == Len(old)
<1>0. n \in Nat /\ Len(new) \in Nat /\ n <= Len(new) /\ IsQueue(new)
      BY QueueDomain DEF TableOK
<1>1. row = [ref |-> row.ref, remoteSyncId |-> id,
             remoteSyncIndex |-> Len(new) + 1 - n - 1, main |-> row.main]
      /\ row.ref = r /\ row.main \in BOOLEAN
      BY <1>0 DEF IsRow
<1>2. /\ IsQueue(more) /\ Len(more) = Len(new) + 1
      /\ \A m \in 1 .. Len(new) : more[m] = new[m]
      /\ more[Len(new) + 1] = row
      BY <1>0, QueueAppend
<1> HIDE DEF n
<1>a. ParentsOf(r) \subseteq seen \cup NewRefs(new, n)
      BY DEF n
<1>3. \A m \in Later(new, n) : m \in 1 .. Len(new) /\ m \in Later(more, n) /\ more[m] = new[m]
      BY <1>0, <1>2 DEF Later
<1>4. \A m \in Later(more, n) : m \in Later(new, n) \/ m = Len(new) + 1
      BY <1>0, <1>2 DEF Later
<1>5. Len(new) + 1 \in Later(more, n)
      BY <1>0, <1>2 DEF Later
<1>6. NewRefs(more, n) = NewRefs(new, n) \cup {r}
      BY <1>1, <1>2, <1>3, <1>4, <1>5 DEF NewRefs
<1>7. ASSUME NEW m \in Later(more, n)
      PROVE  RowOK(more, n, m, seen, refs, acks \cup {r}, id)
  <2>1. CASE m \in Later(new, n)
    <3>1. RowOK(new, n, m, seen, refs, acks, id) /\ more[m] = new[m]
          BY <2>1, <1>3 DEF TableOK, n
    <3>2. {new[k].ref : k \in {x \in Later(new, n) : x < m}} \subseteq
              {more[k].ref : k \in {x \in Later(more, n) : x < m}}
          BY <1>3
    <3>3. ParentsOf(more[m].ref) \subseteq
              seen \cup {more[k].ref : k \in {x \in Later(more, n) : x < m}}
          BY <3>1, <3>2 DEF RowOK
    <3> QED
        BY <3>1, <3>3 DEF RowOK
  <2>2. CASE m = Len(new) + 1
    <3>1. \A k \in Later(new, n) : k \in {x \in Later(more, n) : x < m} /\ more[k] = new[k]
      <4>1. \A k \in Later(new, n) : k < m
            BY <2>2, <1>0 DEF Later
      <4> QED
          BY <4>1, <1>3
    <3>2. NewRefs(new, n) \subseteq {more[k].ref : k \in {x \in Later(more, n) : x < m}}
          BY <3>1 DEF NewRefs
    <3>3. ParentsOf(r) \subseteq seen \cup {more[k].ref : k \in {x \in Later(more, n) : x < m}}
          BY <3>2, <1>a
    <3>4. more[m] = row
          BY <2>2, <1>2
    <3>5. more[m] = [ref |-> more[m].ref, remoteSyncId |-> id,
                     remoteSyncIndex |-> m - n - 1, main |-> more[m].main]
      <4>1. Len(new) + 1 - n - 1 = m - n - 1
            BY <2>2, <1>0
      <4> QED
          BY <3>4, <4>1, <1>1
    <3> QED
        BY <3>3, <3>4, <3>5, <1>1 DEF RowOK
  <2> QED
      BY <2>1, <2>2, <1>4
<1>8. Len(old) <= Len(more) /\ \A m \in 1 .. Len(old) : more[m] = old[m]
  <2>1. \A m \in 1 .. n : m \in 1 .. Len(new) /\ new[m] = old[m]
        BY <1>0 DEF TableOK, n
  <2> QED
      BY <2>1, <1>0, <1>2 DEF n
<1>9. TableOK(old, seen, more, refs, acks \cup {r}, id)
      BY <1>2, <1>7, <1>8 DEF TableOK, n
<1> QED
    BY <1>2, <1>6, <1>9 DEF n, RowAdded

LEMMA IsMainIsBoolean ==
    ASSUME NEW headRef, NEW r
    PROVE  IsMain(headRef, r) \in BOOLEAN
<1>1. CASE ParentsOf(r) = {}
  <2>1. IsMain(headRef, r) = (headRef = NoRef)
        BY <1>1 DEF IsMain
  <2> QED
      BY <2>1
<1>2. CASE ParentsOf(r) # {}
  <2>1. IsMain(headRef, r) = (headRef \in ParentsOf(r))
        BY <1>2 DEF IsMain
  <2> QED
      BY <2>1
<1> QED
    BY <1>1, <1>2

LEMMA AddOneAdds ==
    ASSUME NEW rows, IsQueue(rows), NEW memory, NEW refs, NEW id, NEW st,
           AddedOK(rows, memory, refs, id, st), NEW r \in refs
    PROVE  AddedOK(rows, memory, refs, id, AddOne(st, r, id))
<1> DEFINE main == IsMain(st.headRef, r)
           head == IF main THEN r ELSE st.headRef
           row == [ref |-> r, remoteSyncId |-> id, remoteSyncIndex |-> st.nextIndex,
                   main |-> main]
           more == Append(st.rows, row)
           new == [rows |-> more, seenRefs |-> st.seenRefs \cup {r}, headRef |-> head,
                   acks |-> st.acks \cup {r}, refErrors |-> st.refErrors,
                   nextIndex |-> st.nextIndex + 1]
<1>0. main \in BOOLEAN
      BY IsMainIsBoolean
<1>2. head \in refs \cup {memory.headRef}
  <2>1. head = r \/ head = st.headRef
        OBVIOUS
  <2> HIDE DEF head
  <2> QED
      BY <2>1 DEF AddedOK
<1>3. \/ AddOne(st, r, id) = [st EXCEPT !.refErrors = @ \cup {r}]
      \/ /\ ParentsOf(r) \cup {r} \subseteq st.seenRefs
         /\ AddOne(st, r, id) = [st EXCEPT !.acks = @ \cup {r}]
      \/ AddOne(st, r, id) = [st EXCEPT !.headRef = head, !.refErrors = @ \cup {r}]
      \/ ParentsOf(r) \subseteq st.seenRefs /\ AddOne(st, r, id) = new
  <2>1. CASE ~(ParentsOf(r) \subseteq st.seenRefs)
        BY <2>1 DEF AddOne
  <2>2. CASE ParentsOf(r) \subseteq st.seenRefs /\ r \in st.seenRefs
        BY <2>2 DEF AddOne
  <2>3. CASE ParentsOf(r) \subseteq st.seenRefs /\ r \notin st.seenRefs /\ r \in RefsOf(st.rows)
        BY <2>3 DEF AddOne
  <2>4. CASE ParentsOf(r) \subseteq st.seenRefs /\ r \notin st.seenRefs /\ r \notin RefsOf(st.rows)
        BY <2>4 DEF AddOne
  <2> QED
      BY <2>1, <2>2, <2>3, <2>4
<1> HIDE DEF head, main, row, more, new
<1>4. ASSUME NEW x
      PROVE  AddedOK(rows, memory, refs, id, [st EXCEPT !.refErrors = x])
      BY DEF AddedOK
<1>5. ASSUME ParentsOf(r) \cup {r} \subseteq st.seenRefs
      PROVE  AddedOK(rows, memory, refs, id, [st EXCEPT !.acks = @ \cup {r}])
  <2>1. TableOK(rows, memory.seenRefs, st.rows, refs, st.acks \cup {r}, id)
        BY DEF AddedOK, TableOK, RowOK
  <2>2. /\ st.acks \cup {r} \subseteq st.seenRefs \cap refs
        /\ \A x \in st.acks \cup {r} : ParentsOf(x) \subseteq st.seenRefs
        BY <1>5 DEF AddedOK
  <2> DEFINE acks == st.acks \cup {r}
  <2> HIDE DEF acks
  <2>4. AddedOK(rows, memory, refs, id, [st EXCEPT !.acks = acks])
        BY <2>1, <2>2 DEF AddedOK, acks
  <2> QED
      BY <2>4 DEF acks
<1>6. ASSUME NEW x
      PROVE  AddedOK(rows, memory, refs, id, [st EXCEPT !.headRef = head, !.refErrors = x])
      BY <1>2 DEF AddedOK
<1>7. ASSUME ParentsOf(r) \subseteq st.seenRefs
      PROVE  AddedOK(rows, memory, refs, id, new)
  <2>1. TableOK(rows, memory.seenRefs, st.rows, refs, st.acks, id)
        BY DEF AddedOK
  <2>2. st.seenRefs = memory.seenRefs \cup NewRefs(st.rows, Len(rows))
        BY DEF AddedOK
  <2>3. Len(rows) \in Nat /\ Len(st.rows) \in Nat
        BY <2>1, QueueDomain DEF TableOK
  <2>4. IsRow(row, rows, st.rows, r, id)
        BY <1>0 DEF AddedOK, row, IsRow
  <2>5. /\ TableOK(rows, memory.seenRefs, more, refs, st.acks \cup {r}, id)
        /\ NewRefs(more, Len(rows)) = NewRefs(st.rows, Len(rows)) \cup {r}
        /\ Len(more) = Len(st.rows) + 1
    <3>1. ParentsOf(r) \subseteq memory.seenRefs \cup NewRefs(st.rows, Len(rows))
          BY <1>7, <2>2
    <3>2. more = Append(st.rows, row)
          BY DEF more
    <3>3. RowAdded(rows, memory.seenRefs, st.rows, more, refs, st.acks, id, r)
          BY <2>1, <2>4, <3>1, <3>2, AddRow
    <3> QED
        BY <3>3 DEF RowAdded
  <2>7. st.nextIndex + 1 = Len(more) - Len(rows)
        BY <2>3, <2>5 DEF AddedOK
  <2>8. st.seenRefs \cup {r} = memory.seenRefs \cup NewRefs(more, Len(rows))
        BY <2>2, <2>5
  <2>9. /\ st.acks \cup {r} \subseteq (st.seenRefs \cup {r}) \cap refs
        /\ \A x \in st.acks \cup {r} : ParentsOf(x) \subseteq st.seenRefs \cup {r}
        BY <1>7 DEF AddedOK
  <2> QED
      BY <1>2, <2>5, <2>7, <2>8, <2>9 DEF AddedOK, new
<1> QED
    BY <1>3, <1>4, <1>5, <1>6, <1>7

(* What adding the commits of a message does.                              *)
AddsOK(rows, memory, batch, id, added) ==
    /\ TableOK(rows, memory.seenRefs, added.rows, Elements(batch), added.acks, id)
    /\ added.memory = [seenRefs |-> memory.seenRefs \cup NewRefs(added.rows, Len(rows)),
                       headRef |-> added.memory.headRef]
    /\ added.memory.headRef \in Elements(batch) \cup {memory.headRef}
    /\ added.acks \subseteq added.memory.seenRefs
    /\ added.acks \subseteq Elements(ValidateCommitOrder(batch).newCommits)
    /\ \A r \in added.acks : ParentsOf(r) \subseteq added.memory.seenRefs
    /\ added.broadcast = Among(batch, {n \in DOMAIN batch : batch[n] \in added.acks})

LEMMA AddsCommits ==
    ASSUME NEW rows, IsQueue(rows), NEW memory, NEW batch, IsQueue(batch), NEW id
    PROVE  AddsOK(rows, memory, batch, id, LiveDocAddCommits(rows, memory, batch, id))
<1> DEFINE commits == ValidateCommitOrder(batch).newCommits
           f == Adding(rows, memory, commits, id)
           OK(st) == AddedOK(rows, memory, Elements(commits), id, st)
           Good == {n \in Nat : n <= Len(commits) => OK(f[n])}
<1> HIDE DEF commits
<1>0. /\ IsQueue(commits) /\ Elements(commits) \subseteq Elements(batch)
      /\ Len(commits) \in Nat /\ DOMAIN commits = 1 .. Len(commits)
      BY ValidCommits, QueueDomain DEF commits
<1>1. \A n \in 0 .. Len(commits) :
          f[n] = IF n = 0 THEN NothingAdded(rows, memory) ELSE AddOne(f[n - 1], commits[n], id)
  <2>1. IsAdding(f, rows, memory, commits, id, Len(commits))
        BY <1>0, AddingExists
  <2> HIDE DEF f
  <2> QED
      BY <2>1 DEF IsAdding
<1> HIDE DEF f
<1>2. 0 \in Good
  <2>1. f[0] = NothingAdded(rows, memory)
        BY <1>0, <1>1
  <2>2. Len(rows) \in Nat /\ Later(rows, Len(rows)) = {} /\ NewRefs(rows, Len(rows)) = {}
    <3>1. Len(rows) \in Nat
          BY QueueDomain
    <3> QED
        BY <3>1 DEF Later, NewRefs
  <2>3. TableOK(rows, memory.seenRefs, rows, Elements(commits), {}, id)
        BY <2>2 DEF TableOK
  <2>4. OK(NothingAdded(rows, memory))
        BY <2>2, <2>3 DEF NothingAdded, AddedOK
  <2> HIDE DEF OK
  <2> QED
      BY <2>1, <2>4
<1>3. ASSUME NEW n \in Nat, n \in Good
      PROVE  n + 1 \in Good
  <2>1. SUFFICES ASSUME n + 1 <= Len(commits) PROVE OK(f[n + 1])
        OBVIOUS
  <2>2. OK(f[n]) /\ n + 1 \in 1 .. Len(commits)
        BY <1>0, <1>3, <2>1
  <2>3. f[n + 1] = AddOne(f[n], commits[n + 1], id)
        BY <1>0, <1>1, <2>2
  <2>4. commits[n + 1] \in Elements(commits)
        BY <1>0, <2>2 DEF Elements
  <2> QED
      BY <2>2, <2>3, <2>4, AddOneAdds
<1>4. OK(f[Len(commits)])
  <2> HIDE DEF OK
  <2>1. Good = {n \in Nat : n <= Len(commits) => OK(f[n])}
        OBVIOUS
  <2> HIDE DEF Good
  <2>2. Nat \subseteq Good
        BY <1>2, <1>3, InductionOnSet
  <2> QED
      BY <1>0, <2>1, <2>2
<1> DEFINE st == f[Len(commits)]
           added == LiveDocAddCommits(rows, memory, batch, id)
<1>5. /\ added.rows = st.rows
      /\ added.memory = [seenRefs |-> st.seenRefs, headRef |-> st.headRef]
      /\ added.acks = st.acks
      /\ added.broadcast = Among(batch, {n \in DOMAIN batch : batch[n] \in st.acks})
      BY AddCommitsAdds DEF f, commits
<1> HIDE DEF st, added
<1>6. AddedOK(rows, memory, Elements(commits), id, st)
      BY <1>4 DEF st
<1>7. AddsOK(rows, memory, batch, id, added)
  <2>1. added.memory.headRef = st.headRef /\ added.memory.seenRefs = st.seenRefs
        BY <1>5
  <2>2. TableOK(rows, memory.seenRefs, st.rows, Elements(batch), st.acks, id)
        BY <1>0, <1>6 DEF AddedOK, TableOK, RowOK
  <2>3. /\ st.headRef \in Elements(batch) \cup {memory.headRef}
        /\ st.seenRefs = memory.seenRefs \cup NewRefs(st.rows, Len(rows))
        /\ st.acks \subseteq st.seenRefs /\ st.acks \subseteq Elements(commits)
        /\ \A r \in st.acks : ParentsOf(r) \subseteq st.seenRefs
        BY <1>0, <1>6 DEF AddedOK
  <2> QED
      BY <1>5, <2>1, <2>2, <2>3 DEF AddsOK, commits
<1> QED
    BY <1>7 DEF added

-----------------------------------------------------------------------------
(* getCommitsEvent.                                                        *)

Selected(rows, cursor) == {n \in DOMAIN rows : After(rows[n], cursor)}

(* The rows after the cursor, each once, in the order of the query.        *)
ServesOK(rows, cursor, event) ==
    /\ IsQueue(event)
    /\ Elements(event) = {rows[n].ref : n \in Selected(rows, cursor)}
    /\ \E at \in [DOMAIN event -> Selected(rows, cursor)] :
          /\ \A i \in DOMAIN event : event[i] = rows[at[i]].ref
          /\ \A n \in Selected(rows, cursor) : \E i \in DOMAIN event : at[i] = n
          /\ \A i, j \in DOMAIN event : i < j => ServedBefore(rows, at[i], at[j])

LEMMA ServesRows ==
    ASSUME NEW rows, IsQueue(rows), NEW cursor,
           \A n \in DOMAIN rows : rows[n].remoteSyncId \in Nat /\ rows[n].remoteSyncIndex \in Nat
    PROVE  ServesOK(rows, cursor, GetCommitsEvent(rows, cursor))
<1> DEFINE S == Selected(rows, cursor)
           R == {p \in S \X S : ServedBefore(rows, p[1], p[2])}
           card == Cardinality(S)
           q == Sorted(S, LAMBDA m, n : ServedBefore(rows, m, n))
           event == [n \in DOMAIN q |-> rows[q[n]].ref]
<1>1. Len(rows) \in Nat /\ DOMAIN rows = 1 .. Len(rows)
      BY QueueDomain
<1>2. S \subseteq Nat /\ IsFiniteSet(S)
  <2>1. S \subseteq 1 .. Len(rows)
        BY <1>1 DEF Selected
  <2>2. IsFiniteSet(1 .. Len(rows))
        BY <1>1, FS_Interval
  <2> HIDE DEF S
  <2>3. IsFiniteSet(S)
        BY <2>1, <2>2, FS_Subset
  <2> QED
      BY <2>1, <2>3
<1>3. StrictOrder(R, S)
  <2>1. \A n \in S : n \in Nat /\ rows[n].remoteSyncId \in Nat /\ rows[n].remoteSyncIndex \in Nat
        BY <1>2 DEF Selected
  <2> HIDE DEF S
  <2>2. \A x, y \in S : x = y \/ <<x, y>> \in R \/ <<y, x>> \in R
        BY <2>1 DEF ServedBefore
  <2>3. \A x \in S : <<x, x>> \notin R
        BY <2>1 DEF ServedBefore
  <2>4. \A x, y, z \in S : <<x, y>> \in R /\ <<y, z>> \in R => <<x, z>> \in R
        BY <2>1 DEF ServedBefore
  <2> QED
      BY <2>2, <2>3, <2>4 DEF StrictOrder
<1>4. \E p \in [1 .. card -> S] :
          \A i, j \in 1 .. card : i < j => p[i] # p[j] /\ ServedBefore(rows, p[i], p[j])
  <2>1. PICK p \in [1 .. card -> S] :
            \A i, j \in 1 .. card : i < j => p[i] # p[j] /\ <<p[i], p[j]>> \in R
    <3> HIDE DEF R, S
    <3> QED
        BY <1>2, <1>3, Sorting
  <2>2. \A i, j \in 1 .. card : i < j => ServedBefore(rows, p[i], p[j])
        BY <2>1
  <2> QED
      BY <2>1, <2>2
<1>5. /\ q \in [1 .. card -> S]
      /\ \A i, j \in 1 .. card : i < j => q[i] # q[j] /\ ServedBefore(rows, q[i], q[j])
  <2> HIDE DEF S
  <2>1. q = CHOOSE p \in [1 .. card -> S] : \A i, j \in 1 .. card :
                i < j => p[i] # p[j] /\ ServedBefore(rows, p[i], p[j])
        BY DEF Sorted
  <2> HIDE DEF q, card
  <2> QED
      BY <1>4, <2>1
<1>6. GetCommitsEvent(rows, cursor) = event
      BY DEF GetCommitsEvent, Selected
<1> HIDE DEF q, S, R
<1>7. /\ card \in Nat /\ DOMAIN q = 1 .. card /\ Elements(q) = S
      /\ DOMAIN event = 1 .. card /\ IsQueue(event)
  <2>1. card \in Nat
        BY <1>2, FS_CardinalityType
  <2>2. Elements(q) = S
        BY <1>2, <1>5, ListsAll
  <2>3. DOMAIN q = 1 .. card
        BY <1>5
  <2>4. DOMAIN event = 1 .. card /\ event = [i \in 1 .. card |-> event[i]]
        BY <2>3
  <2> HIDE DEF event
  <2> QED
      BY <2>1, <2>2, <2>3, <2>4, ListedQueue
<1>8. \A i \in 1 .. card : q[i] \in S /\ event[i] = rows[q[i]].ref
      BY <1>5
<1>9. \A n \in S : \E i \in 1 .. card : q[i] = n
      BY <1>7 DEF Elements
<1> HIDE DEF event, card
<1>10. Elements(event) = {rows[n].ref : n \in S}
      BY <1>7, <1>8, <1>9 DEF Elements
<1>11. ServesOK(rows, cursor, event)
  <2>1. q \in [DOMAIN event -> S]
        BY <1>5, <1>7
  <2> QED
      BY <1>5, <1>7, <1>8, <1>9, <1>10, <2>1 DEF ServesOK, S
<1> QED
    BY <1>6, <1>11

-----------------------------------------------------------------------------
(* A message whose commits the server accepts.                             *)

(* Each commit that has not been seen comes after its parents, if they     *)
(* have not been seen.                                                     *)
ParentsFirst(refs, seen) ==
    \A i \in DOMAIN refs : refs[i] \notin seen =>
        \A p \in ParentsOf(refs[i]) : p \in seen \/ \E j \in 1 .. i - 1 : refs[j] = p

NoParentLater(refs, seen) ==
    \A i \in DOMAIN refs : refs[i] \notin seen =>
        \A j \in 1 .. i - 1 : refs[i] \notin ParentsOf(refs[j])

LEMMA ParentsFirstAppend ==
    ASSUME NEW refs, IsQueue(refs), NEW seen, ParentsFirst(refs, seen), NEW r,
           r \notin seen => ParentsOf(r) \subseteq seen \cup Elements(refs)
    PROVE  ParentsFirst(Append(refs, r), seen)
<1> DEFINE more == Append(refs, r)
<1>1. /\ IsQueue(more) /\ Len(more) = Len(refs) + 1 /\ more[Len(refs) + 1] = r
      /\ \A i \in 1 .. Len(refs) : more[i] = refs[i]
      /\ Len(refs) \in Nat /\ DOMAIN refs = 1 .. Len(refs)
      BY QueueAppend, QueueDomain
<1> HIDE DEF more
<1>2. DOMAIN more = 1 .. Len(refs) + 1
      BY <1>1, QueueDomain
<1>3. ASSUME NEW i \in DOMAIN more, more[i] \notin seen, NEW p \in ParentsOf(more[i]), p \notin seen
      PROVE  \E j \in 1 .. i - 1 : more[j] = p
  <2>1. CASE i = Len(refs) + 1
    <3>1. p \in Elements(refs)
          BY <1>1, <1>3, <2>1
    <3>2. PICK j \in 1 .. Len(refs) : refs[j] = p
          BY <1>1, <3>1 DEF Elements
    <3> QED
        BY <1>1, <2>1, <3>2
  <2>2. CASE i # Len(refs) + 1
    <3>1. i \in DOMAIN refs /\ more[i] = refs[i]
          BY <1>1, <1>2, <2>2
    <3>2. PICK j \in 1 .. i - 1 : refs[j] = p
          BY <1>3, <3>1 DEF ParentsFirst
    <3>3. j \in 1 .. Len(refs)
          BY <1>1, <3>1, <3>2
    <3> QED
        BY <1>1, <3>2, <3>3
  <2> QED
      BY <2>1, <2>2
<1>4. ParentsFirst(more, seen)
      BY <1>3 DEF ParentsFirst
<1> QED
    BY <1>4 DEF more

(* What is left of the first n commits of the message.                     *)
LeftOver(found, refs, n, seen) ==
    /\ found \in [newCommits : {found.newCommits}, invalidRefs : {found.invalidRefs},
                  referenced : {found.referenced}]
    /\ IsQueue(found.newCommits)
    /\ Elements(found.newCommits) \subseteq {refs[i] : i \in 1 .. n}
    /\ found.referenced \subseteq UNION {ParentsOf(refs[i]) : i \in 1 .. n}
    /\ \A i \in 1 .. n : refs[i] \in seen \cup Elements(found.newCommits)
    /\ ParentsFirst(found.newCommits, seen)

LEMMA CheckOneLeaves ==
    ASSUME NEW refs, IsQueue(refs), NEW seen, ParentsFirst(refs, seen), NoParentLater(refs, seen),
           NEW n \in Nat, n + 1 \in DOMAIN refs, NEW found, LeftOver(found, refs, n, seen)
    PROVE  LeftOver(CheckOne(found, refs[n + 1]), refs, n + 1, seen)
<1> DEFINE r == refs[n + 1]
           commits == found.newCommits
           more == Append(commits, r)
           referenced == found.referenced \cup (ParentsOf(r) \ ToSet(commits))
<1>1. 1 .. n + 1 = 1 .. n \cup {n + 1} /\ (n + 1) - 1 = n
      OBVIOUS
<1>2. CASE r \in found.referenced
  <2>1. PICK j \in 1 .. n : r \in ParentsOf(refs[j])
        BY <1>2 DEF LeftOver
  <2>2. r \in seen
        BY <1>1, <2>1 DEF NoParentLater
  <2>3. CheckOne(found, r) = [found EXCEPT !.invalidRefs = @ \cup {r}]
        BY <1>2 DEF CheckOne
  <2> DEFINE new == CheckOne(found, r)
  <2>4. /\ new \in [newCommits : {new.newCommits}, invalidRefs : {new.invalidRefs},
                    referenced : {new.referenced}]
        /\ new.newCommits = commits /\ new.referenced = found.referenced
        BY <2>3 DEF LeftOver
  <2> HIDE DEF new, r
  <2>5. \A i \in 1 .. n + 1 : refs[i] \in seen \cup Elements(commits)
        BY <1>1, <2>2 DEF LeftOver, r
  <2>6. LeftOver(new, refs, n + 1, seen)
        BY <1>1, <2>4, <2>5 DEF LeftOver
  <2> QED
      BY <2>6 DEF new, r
<1>3. CASE r \notin found.referenced
  <2>1. CheckOne(found, r) = [found EXCEPT !.newCommits = more, !.referenced = referenced]
        BY <1>3 DEF CheckOne
  <2> DEFINE new == CheckOne(found, r)
  <2>2. /\ new \in [newCommits : {new.newCommits}, invalidRefs : {new.invalidRefs},
                    referenced : {new.referenced}]
        /\ new.newCommits = more /\ new.referenced = referenced
        BY <2>1 DEF LeftOver
  <2>3. IsQueue(more) /\ Elements(more) = Elements(commits) \cup {r}
        BY QueueAppend DEF LeftOver
  <2>4. ASSUME r \notin seen, NEW p \in ParentsOf(r)
        PROVE  p \in seen \cup Elements(commits)
    <3>1. p \in seen \/ \E j \in 1 .. n : refs[j] = p
          BY <1>1, <2>4 DEF ParentsFirst
    <3> QED
        BY <3>1 DEF LeftOver
  <2> HIDE DEF new
  <2>5. ParentsFirst(more, seen)
    <3>1. IsQueue(commits) /\ ParentsFirst(commits, seen)
          BY DEF LeftOver
    <3> HIDE DEF commits, r
    <3> QED
        BY <2>4, <3>1, ParentsFirstAppend
  <2>6. \A i \in 1 .. n + 1 : refs[i] \in seen \cup Elements(more)
        BY <1>1, <2>3 DEF LeftOver
  <2>7. referenced \subseteq UNION {ParentsOf(refs[i]) : i \in 1 .. n + 1}
        BY <1>1 DEF LeftOver
  <2>8. Elements(more) \subseteq {refs[i] : i \in 1 .. n + 1}
        BY <1>1, <2>3 DEF LeftOver
  <2> HIDE DEF more, referenced
  <2>9. LeftOver(new, refs, n + 1, seen)
        BY <2>2, <2>3, <2>5, <2>6, <2>7, <2>8 DEF LeftOver
  <2> QED
      BY <2>9 DEF new
<1> QED
    BY <1>2, <1>3

LEMMA ValidateLeaves ==
    ASSUME NEW refs, IsQueue(refs), NEW seen, ParentsFirst(refs, seen), NoParentLater(refs, seen),
           NEW commits, commits = ValidateCommitOrder(refs).newCommits
    PROVE  /\ IsQueue(commits) /\ ParentsFirst(commits, seen)
           /\ Elements(refs) \subseteq seen \cup Elements(commits)
<1> DEFINE f == Checking(refs)
           Good == {n \in Nat : n <= Len(refs) => LeftOver(f[n], refs, n, seen)}
<1>0. Len(refs) \in Nat /\ DOMAIN refs = 1 .. Len(refs)
      BY QueueDomain
<1>1. \A n \in 0 .. Len(refs) :
          f[n] = IF n = 0 THEN NothingChecked ELSE CheckOne(f[n - 1], refs[n])
      BY CheckingExists DEF IsChecking
<1> HIDE DEF f
<1>2. 0 \in Good
  <2>1. f[0] = NothingChecked
        BY <1>0, <1>1
  <2>2. LeftOver(NothingChecked, refs, 0, seen)
        BY EmptyQueue DEF NothingChecked, LeftOver, ParentsFirst
  <2> QED
      BY <2>1, <2>2
<1>3. ASSUME NEW n \in Nat, n \in Good
      PROVE  n + 1 \in Good
  <2>1. SUFFICES ASSUME n + 1 <= Len(refs) PROVE LeftOver(f[n + 1], refs, n + 1, seen)
        OBVIOUS
  <2>2. LeftOver(f[n], refs, n, seen) /\ n + 1 \in DOMAIN refs
        BY <1>0, <1>3, <2>1
  <2>3. f[n + 1] = CheckOne(f[n], refs[n + 1])
        BY <1>0, <1>1, <2>2
  <2> QED
      BY <2>2, <2>3, CheckOneLeaves
<1>4. LeftOver(f[Len(refs)], refs, Len(refs), seen)
  <2>1. Good = {n \in Nat : n <= Len(refs) => LeftOver(f[n], refs, n, seen)}
        OBVIOUS
  <2> HIDE DEF Good
  <2>2. Nat \subseteq Good
        BY <1>2, <1>3, InductionOnSet
  <2> QED
      BY <1>0, <2>1, <2>2
<1>5. commits = f[Len(refs)].newCommits
      BY ValidateChecks DEF f
<1> QED
    BY <1>0, <1>4, <1>5 DEF LeftOver, Elements

(* The store after the first n commits: it has them all.                   *)
HasFirst(rows, memory, commits, id, st, n) ==
    /\ AddedOK(rows, memory, Elements(commits), id, st)
    /\ st.seenRefs = RefsOf(st.rows) /\ IsQueue(st.rows)
    /\ memory.seenRefs \subseteq st.seenRefs
    /\ \A i \in 1 .. n : commits[i] \in st.seenRefs

LEMMA AddOneAccepts ==
    ASSUME NEW rows, IsQueue(rows), NEW memory, NEW commits, IsQueue(commits), NEW id,
           \A r \in memory.seenRefs : ParentsOf(r) \subseteq memory.seenRefs,
           ParentsFirst(commits, memory.seenRefs),
           NEW n \in Nat, n + 1 \in DOMAIN commits, NEW st,
           HasFirst(rows, memory, commits, id, st, n)
    PROVE  HasFirst(rows, memory, commits, id, AddOne(st, commits[n + 1], id), n + 1)
<1> DEFINE r == commits[n + 1]
           seen == memory.seenRefs
           new == AddOne(st, r, id)
           main == IsMain(st.headRef, r)
           row == [ref |-> r, remoteSyncId |-> id, remoteSyncIndex |-> st.nextIndex, main |-> main]
<1>1. 1 .. n + 1 = 1 .. n \cup {n + 1} /\ (n + 1) - 1 = n /\ r \in Elements(commits)
      BY DEF Elements
<1>2. AddedOK(rows, memory, Elements(commits), id, new)
      BY <1>1, AddOneAdds DEF HasFirst
<1>3. ParentsOf(r) \subseteq st.seenRefs
  <2>1. CASE r \in seen
        BY <2>1 DEF HasFirst
  <2>2. CASE r \notin seen
    <3>1. \A p \in ParentsOf(r) : p \in seen \/ \E j \in 1 .. n : commits[j] = p
          BY <1>1, <2>2 DEF ParentsFirst
    <3> QED
        BY <3>1 DEF HasFirst
  <2> QED
      BY <2>1, <2>2
<1>4. CASE r \in st.seenRefs
  <2>1. new = [st EXCEPT !.acks = @ \cup {r}]
        BY <1>3, <1>4 DEF AddOne
  <2>2. new.seenRefs = st.seenRefs /\ new.rows = st.rows
        BY <2>1 DEF HasFirst, AddedOK
  <2> HIDE DEF new, seen
  <2>3. \A i \in 1 .. n + 1 : commits[i] \in new.seenRefs
        BY <1>1, <1>4, <2>2 DEF HasFirst
  <2>4. HasFirst(rows, memory, commits, id, new, n + 1)
        BY <1>2, <2>2, <2>3 DEF HasFirst
  <2> QED
      BY <2>4 DEF new
<1>5. CASE r \notin st.seenRefs
  <2>1. r \notin RefsOf(st.rows)
        BY <1>5 DEF HasFirst
  <2>2. new.rows = Append(st.rows, row) /\ new.seenRefs = st.seenRefs \cup {r}
        BY <1>3, <1>5, <2>1 DEF AddOne
  <2>3. row.ref = r
        OBVIOUS
  <2> HIDE DEF row
  <2>4. /\ IsQueue(new.rows)
        /\ Elements(new.rows) = Elements(st.rows) \cup {row}
        BY <2>2, QueueAppend DEF HasFirst
  <2>5. \A q : RefsOf(q) = {x.ref : x \in Elements(q)}
        BY DEF RefsOf, Elements
  <2>6. RefsOf(new.rows) = RefsOf(st.rows) \cup {r}
        BY <2>3, <2>4, <2>5
  <2> HIDE DEF new, seen
  <2>7. \A i \in 1 .. n + 1 : commits[i] \in new.seenRefs
        BY <1>1, <2>2 DEF HasFirst
  <2>8. HasFirst(rows, memory, commits, id, new, n + 1)
        BY <1>2, <2>2, <2>4, <2>6, <2>7 DEF HasFirst
  <2> QED
      BY <2>8 DEF new
<1> QED
    BY <1>4, <1>5

(* The whole message: all its commits are in the table afterwards.         *)
LEMMA MessageAccepted ==
    ASSUME NEW rows, IsQueue(rows), NEW memory, memory.seenRefs = RefsOf(rows),
           \A r \in memory.seenRefs : ParentsOf(r) \subseteq memory.seenRefs,
           NEW refs, IsQueue(refs), ParentsFirst(refs, memory.seenRefs),
           NoParentLater(refs, memory.seenRefs), NEW id
    PROVE  Elements(refs) \subseteq RefsOf(LiveDocAddCommits(rows, memory, refs, id).rows)
<1> DEFINE commits == ValidateCommitOrder(refs).newCommits
           f == Adding(rows, memory, commits, id)
           OK(st, n) == HasFirst(rows, memory, commits, id, st, n)
           Good == {n \in Nat : n <= Len(commits) => OK(f[n], n)}
<1>0. /\ IsQueue(commits) /\ ParentsFirst(commits, memory.seenRefs)
      /\ Elements(refs) \subseteq memory.seenRefs \cup Elements(commits)
      BY ValidateLeaves
<1> HIDE DEF commits
<1>1. /\ \A n \in 0 .. Len(commits) :
             f[n] = IF n = 0 THEN NothingAdded(rows, memory) ELSE AddOne(f[n - 1], commits[n], id)
      /\ Len(commits) \in Nat /\ DOMAIN commits = 1 .. Len(commits)
  <2>1. IsAdding(f, rows, memory, commits, id, Len(commits))
        BY <1>0, AddingExists
  <2> HIDE DEF f
  <2> QED
      BY <1>0, <2>1, QueueDomain DEF IsAdding
<1> HIDE DEF f
<1>2. 0 \in Good
  <2>1. f[0] = NothingAdded(rows, memory)
        BY <1>1
  <2>2. Len(rows) \in Nat /\ Later(rows, Len(rows)) = {} /\ NewRefs(rows, Len(rows)) = {}
    <3>1. Len(rows) \in Nat
          BY QueueDomain
    <3> QED
        BY <3>1 DEF Later, NewRefs
  <2>3. TableOK(rows, memory.seenRefs, rows, Elements(commits), {}, id)
        BY <2>2 DEF TableOK
  <2>4. AddedOK(rows, memory, Elements(commits), id, NothingAdded(rows, memory))
        BY <2>2, <2>3 DEF NothingAdded, AddedOK
  <2>5. OK(NothingAdded(rows, memory), 0)
        BY <2>4 DEF HasFirst, NothingAdded
  <2> HIDE DEF OK
  <2> QED
      BY <2>1, <2>5
<1>3. ASSUME NEW n \in Nat, n \in Good
      PROVE  n + 1 \in Good
  <2>1. SUFFICES ASSUME n + 1 <= Len(commits) PROVE OK(f[n + 1], n + 1)
        OBVIOUS
  <2>2. OK(f[n], n) /\ n + 1 \in DOMAIN commits
        BY <1>1, <1>3, <2>1
  <2>3. f[n + 1] = AddOne(f[n], commits[n + 1], id)
        BY <1>1, <2>2
  <2> QED
      BY <1>0, <2>2, <2>3, AddOneAccepts
<1>4. OK(f[Len(commits)], Len(commits))
  <2> HIDE DEF OK
  <2>1. Good = {n \in Nat : n <= Len(commits) => OK(f[n], n)}
        OBVIOUS
  <2> HIDE DEF Good
  <2>2. Nat \subseteq Good
        BY <1>2, <1>3, InductionOnSet
  <2> QED
      BY <1>1, <2>1, <2>2
<1> DEFINE st == f[Len(commits)]
<1>5. LiveDocAddCommits(rows, memory, refs, id).rows = st.rows
      BY AddCommitsAdds DEF f, commits
<1> HIDE DEF st
<1>6. /\ memory.seenRefs \subseteq RefsOf(st.rows)
      /\ \A i \in 1 .. Len(commits) : commits[i] \in RefsOf(st.rows)
      BY <1>4 DEF HasFirst, st
<1> QED
    BY <1>0, <1>1, <1>5, <1>6 DEF Elements
=============================================================================
