------------------------------ MODULE ListLemmas ------------------------------
(***************************************************************************)
(* What the proofs of the other modules need of natural numbers and of     *)
(* sequences: induction over a set of numbers (in a form without an        *)
(* operator parameter), sequences of any elements, and the operators of    *)
(* module Selection.                                                       *)
(***************************************************************************)
EXTENDS Selection, Functions, FiniteSetTheorems, WellFoundedInduction, TLAPS

-----------------------------------------------------------------------------
(* Induction.                                                              *)

Less == {p \in Nat \X Nat : p[1] < p[2]}

LEMMA LessIsWellFounded == IsWellFoundedOn(Less, Nat)
<1>1. Less = OpToRel(<, Nat)
      BY DEF Less, OpToRel
<1> QED
    BY <1>1, NatLessThanWellFounded

LEMMA Least ==
    ASSUME NEW T, T \subseteq Nat, T # {}
    PROVE  \E m \in T : \A n \in T : m <= n
<1>2. PICK m \in T : \A n \in T : ~(<<n, m>> \in Less)
      BY LessIsWellFounded, WFMin
<1>3. ASSUME NEW n \in T PROVE m <= n
  <2>1. ~(<<n, m>> \in Less) /\ m \in Nat /\ n \in Nat
        BY <1>2
  <2>2. ~(n < m)
        BY <2>1 DEF Less
  <2> QED
      BY <2>1, <2>2
<1> QED
    BY <1>3

LEMMA InductionOnSet ==
    ASSUME NEW S, 0 \in S, \A n \in Nat : n \in S => n + 1 \in S
    PROVE  Nat \subseteq S
<1> DEFINE T == Nat \ S
<1>1. SUFFICES ASSUME T # {} PROVE FALSE
      OBVIOUS
<1>2. T \subseteq Nat
      OBVIOUS
<1> HIDE DEF T
<1>3. PICK m \in T : \A n \in T : m <= n
      BY <1>1, <1>2, Least
<1>4. m \in Nat /\ m \notin S
      BY DEF T
<1>5. m # 0 /\ m - 1 \in Nat
      BY <1>4
<1>6. m - 1 \notin T
      BY <1>3, <1>4
<1>7. m - 1 \in S
      BY <1>5, <1>6 DEF T
<1> QED
    BY <1>4, <1>5, <1>7

-----------------------------------------------------------------------------
(* Sequences.                                                              *)

IsQueue(q) == \E S : q \in Seq(S)

Elements(q) == {q[n] : n \in DOMAIN q}

LEMMA QueueDomain ==
    ASSUME NEW q, IsQueue(q)
    PROVE  /\ Len(q) \in Nat /\ DOMAIN q = 1 .. Len(q)
           /\ q = <<>> <=> Len(q) = 0
           /\ q \in Seq(Elements(q))
<1>1. PICK S : q \in Seq(S)
      BY DEF IsQueue
<1>2. Len(q) \in Nat /\ DOMAIN q = 1 .. Len(q) /\ (q = <<>> <=> Len(q) = 0)
      BY <1>1
<1>3. \A n \in 1 .. Len(q) : q[n] \in Elements(q)
      BY <1>2 DEF Elements
<1>4. q = [n \in 1 .. Len(q) |-> q[n]]
      BY <1>1
<1>5. q \in Seq(Elements(q))
      BY <1>2, <1>3, <1>4
<1> QED
    BY <1>2, <1>5

LEMMA EmptyQueue == IsQueue(<<>>) /\ Elements(<<>>) = {}
<1>1. <<>> \in Seq({})
      OBVIOUS
<1> QED
    BY <1>1 DEF IsQueue, Elements

(* A function on 1 .. n is a sequence.                                     *)
LEMMA ListedQueue ==
    ASSUME NEW n \in Nat, NEW f, f = [i \in 1 .. n |-> f[i]]
    PROVE  IsQueue(f) /\ Len(f) = n
<1> DEFINE S == {f[i] : i \in 1 .. n}
<1>1. \A i \in 1 .. n : f[i] \in S
      OBVIOUS
<1> HIDE DEF S
<1>2. f \in Seq(S)
      BY <1>1
<1>3. Len(f) = n
      OBVIOUS
<1> QED
    BY <1>2, <1>3 DEF IsQueue

LEMMA QueueAppend ==
    ASSUME NEW q, IsQueue(q), NEW x
    PROVE  /\ IsQueue(Append(q, x))
           /\ Len(Append(q, x)) = Len(q) + 1
           /\ \A n \in 1 .. Len(q) : Append(q, x)[n] = q[n]
           /\ Append(q, x)[Len(q) + 1] = x
           /\ Elements(Append(q, x)) = Elements(q) \cup {x}
<1> DEFINE T == Elements(q) \cup {x}
           new == Append(q, x)
<1>1. Len(q) \in Nat /\ DOMAIN q = 1 .. Len(q) /\ q \in Seq(Elements(q))
      BY QueueDomain
<1>2. q \in Seq(T) /\ x \in T
      BY <1>1
<1>3. /\ new \in Seq(T) /\ Len(new) = Len(q) + 1 /\ DOMAIN new = 1 .. Len(q) + 1
      /\ \A n \in 1 .. Len(q) : new[n] = q[n]
      /\ new[Len(q) + 1] = x
  <2> HIDE DEF T
  <2> QED
      BY <1>1, <1>2
<1> HIDE DEF new
<1>4. Elements(new) = Elements(q) \cup {x}
  <2>1. ASSUME NEW n \in DOMAIN new PROVE new[n] \in Elements(q) \cup {x}
        BY <1>1, <1>3 DEF Elements
  <2>2. ASSUME NEW n \in DOMAIN q PROVE q[n] \in Elements(new)
        BY <1>1, <1>3 DEF Elements
  <2>3. x \in Elements(new)
        BY <1>1, <1>3 DEF Elements
  <2> QED
      BY <2>1, <2>2, <2>3 DEF Elements
<1> QED
    BY <1>3, <1>4 DEF IsQueue, new

LEMMA QueueTail ==
    ASSUME NEW q, IsQueue(q), q # <<>>
    PROVE  /\ IsQueue(Tail(q))
           /\ Len(Tail(q)) = Len(q) - 1
           /\ \A n \in 1 .. Len(q) - 1 : Tail(q)[n] = q[n + 1]
           /\ Head(q) = q[1]
           /\ Elements(q) = Elements(Tail(q)) \cup {Head(q)}
<1>1. Len(q) \in Nat /\ DOMAIN q = 1 .. Len(q) /\ q \in Seq(Elements(q)) /\ Len(q) # 0
      BY QueueDomain
<1> DEFINE new == Tail(q)
<1>2. /\ new \in Seq(Elements(q)) /\ Len(new) = Len(q) - 1 /\ DOMAIN new = 1 .. Len(q) - 1
      /\ \A n \in 1 .. Len(q) - 1 : new[n] = q[n + 1]
      /\ Head(q) = q[1]
      BY <1>1
<1> HIDE DEF new
<1>3. Elements(q) = Elements(new) \cup {Head(q)}
  <2>1. ASSUME NEW n \in DOMAIN q PROVE q[n] \in Elements(new) \cup {Head(q)}
    <3>1. CASE n = 1
          BY <3>1, <1>2
    <3>2. CASE n # 1
      <4>1. n - 1 \in DOMAIN new /\ new[n - 1] = q[n]
            BY <3>2, <1>1, <1>2
      <4> QED
          BY <4>1 DEF Elements
    <3> QED
        BY <3>1, <3>2
  <2>2. ASSUME NEW n \in DOMAIN new PROVE new[n] \in Elements(q)
        BY <1>1, <1>2 DEF Elements
  <2>3. Head(q) \in Elements(q)
        BY <1>1, <1>2 DEF Elements
  <2> QED
      BY <2>1, <2>2, <2>3 DEF Elements
<1> QED
    BY <1>2, <1>3 DEF IsQueue, new

LEMMA QueueConcat ==
    ASSUME NEW q, IsQueue(q), NEW r, IsQueue(r)
    PROVE  /\ IsQueue(q \o r)
           /\ Len(q \o r) = Len(q) + Len(r)
           /\ \A n \in 1 .. Len(q) : (q \o r)[n] = q[n]
           /\ \A n \in 1 .. Len(r) : (q \o r)[Len(q) + n] = r[n]
           /\ Elements(q \o r) = Elements(q) \cup Elements(r)
<1> DEFINE T == Elements(q) \cup Elements(r)
           new == q \o r
<1>1. /\ Len(q) \in Nat /\ DOMAIN q = 1 .. Len(q) /\ q \in Seq(Elements(q))
      /\ Len(r) \in Nat /\ DOMAIN r = 1 .. Len(r) /\ r \in Seq(Elements(r))
      BY QueueDomain
<1>2. q \in Seq(T) /\ r \in Seq(T)
      BY <1>1
<1>3. /\ new \in Seq(T) /\ Len(new) = Len(q) + Len(r) /\ DOMAIN new = 1 .. Len(q) + Len(r)
      /\ \A n \in 1 .. Len(q) : new[n] = q[n]
      /\ \A n \in 1 .. Len(r) : new[Len(q) + n] = r[n]
  <2> HIDE DEF T
  <2> QED
      BY <1>1, <1>2
<1> HIDE DEF new
<1>4. Elements(new) = Elements(q) \cup Elements(r)
  <2>1. ASSUME NEW n \in DOMAIN new PROVE new[n] \in Elements(q) \cup Elements(r)
    <3>1. CASE n <= Len(q)
          BY <3>1, <1>1, <1>3 DEF Elements
    <3>2. CASE n > Len(q)
      <4>1. n - Len(q) \in DOMAIN r /\ new[n] = r[n - Len(q)]
        <5>1. n - Len(q) \in 1 .. Len(r)
              BY <3>2, <1>1, <1>3
        <5>2. new[Len(q) + (n - Len(q))] = r[n - Len(q)]
              BY <5>1, <1>3
        <5> QED
            BY <5>1, <5>2, <1>1, <1>3
      <4> QED
          BY <4>1 DEF Elements
    <3> QED
        BY <3>1, <3>2, <1>1, <1>3
  <2>2. ASSUME NEW n \in DOMAIN q PROVE q[n] \in Elements(new)
        BY <1>1, <1>3 DEF Elements
  <2>3. ASSUME NEW n \in DOMAIN r PROVE r[n] \in Elements(new)
    <3>1. Len(q) + n \in DOMAIN new /\ new[Len(q) + n] = r[n]
          BY <1>1, <1>3
    <3> QED
        BY <3>1 DEF Elements
  <2> QED
      BY <2>1, <2>2, <2>3 DEF Elements
<1> QED
    BY <1>3, <1>4 DEF IsQueue, new

LEMMA FiniteElements ==
    ASSUME NEW q, IsQueue(q)
    PROVE  IsFiniteSet(Elements(q))
<1>1. Len(q) \in Nat /\ DOMAIN q = 1 .. Len(q) /\ q \in Seq(Elements(q))
      BY QueueDomain
<1>2. IsFiniteSet(1 .. Len(q))
      BY <1>1, FS_Interval
<1>3. q \in [1 .. Len(q) -> Elements(q)]
      BY <1>1
<1>4. \A x \in Elements(q) : \E n \in 1 .. Len(q) : q[n] = x
      BY <1>1 DEF Elements
<1>5. q \in Surjection(1 .. Len(q), Elements(q))
      BY <1>3, <1>4 DEF Surjection
<1> QED
    BY <1>2, <1>5, FS_Surjection

-----------------------------------------------------------------------------
(* Selection.                                                              *)

StrictOrder(R, S) ==
    /\ \A x, y \in S : x = y \/ <<x, y>> \in R \/ <<y, x>> \in R
    /\ \A x \in S : <<x, x>> \notin R
    /\ \A x, y, z \in S : <<x, y>> \in R /\ <<y, z>> \in R => <<x, z>> \in R

(* How many elements come before x, or are x.                              *)
UpTo(R, S, x) == {y \in S : y = x \/ <<y, x>> \in R}

(* In a strict order of a finite set each place is taken, once.            *)
LEMMA Places ==
    ASSUME NEW S, IsFiniteSet(S), NEW R, StrictOrder(R, S)
    PROVE  /\ Cardinality(S) \in Nat
           /\ \A x \in S : Cardinality(UpTo(R, S, x)) \in 1 .. Cardinality(S)
           /\ \A x, y \in S : <<x, y>> \in R =>
                  Cardinality(UpTo(R, S, x)) < Cardinality(UpTo(R, S, y))
           /\ \A i \in 1 .. Cardinality(S) : \E x \in S : Cardinality(UpTo(R, S, x)) = i
<1> DEFINE card == Cardinality(S)
           place(x) == Cardinality(UpTo(R, S, x))
<1>1. card \in Nat
      BY FS_CardinalityType
<1>2. ASSUME NEW x \in S
      PROVE  IsFiniteSet(UpTo(R, S, x)) /\ place(x) \in 1 .. card
  <2>1. UpTo(R, S, x) \subseteq S
        BY DEF UpTo
  <2>2. IsFiniteSet(UpTo(R, S, x)) /\ place(x) \in Nat /\ place(x) <= card
        BY <2>1, FS_Subset, FS_CardinalityType
  <2>3. x \in UpTo(R, S, x)
        BY DEF UpTo
  <2>4. place(x) # 0
        BY <2>2, <2>3, FS_EmptySet
  <2> QED
      BY <1>1, <2>2, <2>4
<1>3. ASSUME NEW x \in S, NEW y \in S, <<x, y>> \in R
      PROVE  place(x) < place(y)
  <2>1. UpTo(R, S, x) \subseteq UpTo(R, S, y)
        BY <1>3 DEF UpTo, StrictOrder
  <2>2. y \in UpTo(R, S, y) /\ y \notin UpTo(R, S, x)
        BY <1>3 DEF UpTo, StrictOrder
  <2>3. place(x) <= place(y) /\ place(x) # place(y)
        BY <2>1, <2>2, <1>2, FS_Subset
  <2> QED
      BY <2>3, <1>1, <1>2
<1>4. \A i \in 1 .. card : \E x \in S : place(x) = i
  <2> DEFINE f == [x \in S |-> place(x)]
  <2>1. f \in [S -> 1 .. card]
        BY <1>2
  <2>2. \A x, y \in S : f[x] = f[y] => x = y
    <3>1. ASSUME NEW x \in S, NEW y \in S, x # y
          PROVE  place(x) # place(y)
      <4>1. <<x, y>> \in R \/ <<y, x>> \in R
            BY <3>1 DEF StrictOrder
      <4>2. place(x) < place(y) \/ place(y) < place(x)
            BY <4>1, <1>3
      <4> QED
          BY <4>2, <1>2, <1>1
    <3> HIDE DEF place
    <3> QED
        BY <3>1
  <2> HIDE DEF f
  <2>3. f \in Injection(S, 1 .. card)
        BY <2>1, <2>2 DEF Injection, IsInjective
  <2>4. IsFiniteSet(1 .. card) /\ Cardinality(1 .. card) = card
        BY <1>1, FS_Interval
  <2>5. f \in Surjection(S, 1 .. card)
        BY <2>3, <2>4, FS_Injection
  <2>6. \A i \in 1 .. card : \E x \in S : f[x] = i
        BY <2>5 DEF Surjection
  <2> QED
      BY <2>6 DEF f
<1> HIDE DEF place
<1>5. /\ card \in Nat
      /\ \A x \in S : place(x) \in 1 .. card
      /\ \A x, y \in S : <<x, y>> \in R => place(x) < place(y)
      /\ \A i \in 1 .. card : \E x \in S : place(x) = i
      BY <1>1, <1>2, <1>3, <1>4
<1> QED
    BY <1>5 DEF place

(* A finite set of numbers has a greatest one.                             *)
LEMMA Greatest ==
    ASSUME NEW S, S \subseteq Nat, IsFiniteSet(S), S # {}
    PROVE  \E x \in S : \A y \in S : y <= x
<1> DEFINE less == {p \in S \X S : p[1] < p[2]}
<1>1. StrictOrder(less, S)
      BY DEF StrictOrder
<1>2. PICK R : StrictOrder(R, S) /\ R = less
      BY <1>1
<1> HIDE DEF less
<1>3. /\ Cardinality(S) \in Nat
      /\ \A x \in S : Cardinality(UpTo(R, S, x)) \in 1 .. Cardinality(S)
      /\ \A x, y \in S : <<x, y>> \in R =>
             Cardinality(UpTo(R, S, x)) < Cardinality(UpTo(R, S, y))
      /\ \A i \in 1 .. Cardinality(S) : \E x \in S : Cardinality(UpTo(R, S, x)) = i
  <2>1. Cardinality(S) \in Nat
        BY <1>2, Places
  <2>2. \A x \in S : Cardinality(UpTo(R, S, x)) \in 1 .. Cardinality(S)
        BY <1>2, Places
  <2>3. \A x, y \in S : <<x, y>> \in R =>
             Cardinality(UpTo(R, S, x)) < Cardinality(UpTo(R, S, y))
        BY <1>2, Places
  <2>4. \A i \in 1 .. Cardinality(S) : \E x \in S : Cardinality(UpTo(R, S, x)) = i
        BY <1>2, Places
  <2> QED
      BY <2>1, <2>2, <2>3, <2>4
<1>4. Cardinality(S) # 0
      BY FS_EmptySet
<1>5. PICK x \in S : Cardinality(UpTo(R, S, x)) = Cardinality(S)
      BY <1>3, <1>4
<1>6. ASSUME NEW y \in S PROVE y <= x
  <2>1. Cardinality(UpTo(R, S, y)) <= Cardinality(S) /\ Cardinality(UpTo(R, S, y)) \in Nat
        BY <1>3
  <2>2. <<x, y>> \notin R
        BY <1>3, <1>5, <2>1
  <2> QED
      BY <1>2, <2>2 DEF less
<1> QED
    BY <1>6

(* A finite set can be listed in any strict order.                         *)
LEMMA Sorting ==
    ASSUME NEW S, IsFiniteSet(S), NEW R, StrictOrder(R, S)
    PROVE  \E q \in [1 .. Cardinality(S) -> S] :
              \A i, j \in 1 .. Cardinality(S) : i < j => q[i] # q[j] /\ <<q[i], q[j]>> \in R
<1> DEFINE card == Cardinality(S)
           place(x) == Cardinality(UpTo(R, S, x))
<1> HIDE DEF card, place
<1>1. /\ card \in Nat
      /\ \A x \in S : place(x) \in 1 .. card
      /\ \A x, y \in S : <<x, y>> \in R => place(x) < place(y)
      /\ \A i \in 1 .. card : \E x \in S : place(x) = i
      BY Places DEF card, place
<1> DEFINE q == [i \in 1 .. card |-> CHOOSE x \in S : place(x) = i]
<1>2. \A i \in 1 .. card : q[i] \in S /\ place(q[i]) = i
      BY <1>1
<1>3. q \in [1 .. card -> S]
      BY <1>2
<1> HIDE DEF q
<1>4. ASSUME NEW i \in 1 .. card, NEW j \in 1 .. card, i < j
      PROVE  q[i] # q[j] /\ <<q[i], q[j]>> \in R
  <2>1. q[i] # q[j]
        BY <1>2, <1>4
  <2>2. <<q[i], q[j]>> \in R \/ <<q[j], q[i]>> \in R
        BY <2>1, <1>2 DEF StrictOrder
  <2>3. <<q[j], q[i]>> \in R => j < i
        BY <1>1, <1>2
  <2> QED
      BY <2>1, <2>2, <2>3, <1>4
<1> QED
    BY <1>3, <1>4 DEF card

(* A finite set can be listed by a key, equal keys in any order.           *)
LEMMA SortingByKey ==
    ASSUME NEW S, IsFiniteSet(S), NEW key \in [S -> Nat]
    PROVE  \E q \in [1 .. Cardinality(S) -> S] :
              \A i, j \in 1 .. Cardinality(S) : i < j => q[i] # q[j] /\ key[q[i]] <= key[q[j]]
<1> DEFINE card == Cardinality(S)
<1>1. card \in Nat /\ ExistsBijection(1 .. card, S)
      BY FS_CardinalityType
<1>2. PICK b \in Bijection(1 .. card, S) : TRUE
      BY <1>1 DEF ExistsBijection
<1>3. /\ b \in [1 .. card -> S]
      /\ \A x \in S : \E i \in 1 .. card : b[i] = x
      BY <1>2 DEF Bijection, Surjection
<1> DEFINE at == [x \in S |-> CHOOSE i \in 1 .. card : b[i] = x]
<1>4. \A x \in S : at[x] \in 1 .. card /\ b[at[x]] = x
      BY <1>3
<1> HIDE DEF at, card
<1> DEFINE R == {p \in S \X S : \/ key[p[1]] < key[p[2]]
                                \/ key[p[1]] = key[p[2]] /\ at[p[1]] < at[p[2]]}
<1>5. \A x \in S : key[x] \in Nat /\ at[x] \in Nat
      BY <1>1, <1>4
<1>6. \A x, y \in S : at[x] = at[y] => x = y
      BY <1>4
<1>7. StrictOrder(R, S)
  <2>1. \A x, y \in S : x = y \/ <<x, y>> \in R \/ <<y, x>> \in R
        BY <1>5, <1>6
  <2>2. \A x \in S : <<x, x>> \notin R
        BY <1>5
  <2>3. \A x, y, z \in S : <<x, y>> \in R /\ <<y, z>> \in R => <<x, z>> \in R
        BY <1>5
  <2> QED
      BY <2>1, <2>2, <2>3 DEF StrictOrder
<1>8. PICK q \in [1 .. card -> S] :
          \A i, j \in 1 .. card : i < j => q[i] # q[j] /\ <<q[i], q[j]>> \in R
  <2> HIDE DEF R
  <2> QED
      BY <1>7, Sorting DEF card
<1>9. ASSUME NEW i \in 1 .. card, NEW j \in 1 .. card, i < j
      PROVE  q[i] # q[j] /\ key[q[i]] <= key[q[j]]
  <2>1. q[i] # q[j] /\ <<q[i], q[j]>> \in R
        BY <1>8, <1>9
  <2> QED
      BY <2>1, <1>5
<1> QED
    BY <1>8, <1>9 DEF card
(* A list of as many different elements of a finite set has them all.      *)
LEMMA ListsAll ==
    ASSUME NEW S, IsFiniteSet(S), NEW q \in [1 .. Cardinality(S) -> S],
           \A i, j \in 1 .. Cardinality(S) : i < j => q[i] # q[j]
    PROVE  IsQueue(q) /\ Len(q) = Cardinality(S) /\ Elements(q) = S
<1> DEFINE card == Cardinality(S)
<1>1. card \in Nat
      BY FS_CardinalityType
<1>2. q \in [1 .. card -> S] /\ \A i, j \in 1 .. card : q[i] = q[j] => i = j
  <2>1. ASSUME NEW i \in 1 .. card, NEW j \in 1 .. card, i # j
        PROVE  q[i] # q[j]
    <3>1. i < j \/ j < i
          BY <2>1, <1>1
    <3> QED
        BY <3>1
  <2> QED
      BY <2>1
<1> HIDE DEF card
<1>3. q \in Injection(1 .. card, S)
      BY <1>2 DEF Injection, IsInjective
<1>4. IsFiniteSet(1 .. card) /\ Cardinality(1 .. card) = card
      BY <1>1, FS_Interval
<1>5. q \in Surjection(1 .. card, S)
      BY <1>3, <1>4, FS_Injection DEF card
<1>6. \A x \in S : \E i \in 1 .. card : q[i] = x
      BY <1>5 DEF Surjection
<1>7. Elements(q) = S
  <2>1. DOMAIN q = 1 .. card /\ \A i \in 1 .. card : q[i] \in S
        BY <1>2
  <2> QED
      BY <2>1, <1>6 DEF Elements
<1>8. q = [i \in 1 .. card |-> q[i]]
      BY <1>2
<1> QED
    BY <1>1, <1>7, <1>8, ListedQueue DEF card

(* What stays of a sequence, and in which order.                           *)
LEMMA AmongQueue ==
    ASSUME NEW q, IsQueue(q), NEW kept, kept \subseteq DOMAIN q
    PROVE  /\ IsQueue(Among(q, kept))
           /\ Cardinality(kept) \in Nat /\ Len(Among(q, kept)) = Cardinality(kept)
           /\ \A i \in 1 .. Cardinality(kept) :
                 Nth(kept, i) \in kept /\ Among(q, kept)[i] = q[Nth(kept, i)]
           /\ \A m \in kept : \E i \in 1 .. Cardinality(kept) : Nth(kept, i) = m
           /\ \A i, j \in 1 .. Cardinality(kept) : i < j => Nth(kept, i) < Nth(kept, j)
           /\ Elements(Among(q, kept)) = {q[m] : m \in kept}
<1> DEFINE R == {p \in kept \X kept : p[1] < p[2]}
           card == Cardinality(kept)
           place(m) == Cardinality({x \in kept : x <= m})
           new == Among(q, kept)
<1>1. IsFiniteSet(kept) /\ kept \subseteq Nat
  <2>1. Len(q) \in Nat /\ DOMAIN q = 1 .. Len(q)
        BY QueueDomain
  <2>2. IsFiniteSet(1 .. Len(q)) /\ kept \subseteq 1 .. Len(q)
        BY <2>1, FS_Interval
  <2>3. IsFiniteSet(kept)
        BY <2>2, FS_Subset
  <2> QED
      BY <2>1, <2>2, <2>3
<1>2. StrictOrder(R, kept)
      BY <1>1 DEF StrictOrder
<1>3. \A m \in kept : UpTo(R, kept, m) = {x \in kept : x <= m}
      BY <1>1 DEF UpTo
<1>4. /\ card \in Nat
      /\ \A m \in kept : Cardinality(UpTo(R, kept, m)) \in 1 .. card
      /\ \A x, y \in kept : <<x, y>> \in R =>
             Cardinality(UpTo(R, kept, x)) < Cardinality(UpTo(R, kept, y))
      /\ \A i \in 1 .. card : \E m \in kept : Cardinality(UpTo(R, kept, m)) = i
  <2> HIDE DEF R
  <2> QED
      BY <1>1, <1>2, Places
<1>5. /\ \A m \in kept : place(m) \in 1 .. card
      /\ \A x, y \in kept : x < y => place(x) < place(y)
      /\ \A i \in 1 .. card : \E m \in kept : place(m) = i
      BY <1>1, <1>3, <1>4
<1> HIDE DEF place
<1>6. \A i \in 1 .. card : Nth(kept, i) \in kept /\ place(Nth(kept, i)) = i
      BY <1>5 DEF Nth, place
<1>7. \A x, y \in kept : place(x) = place(y) => x = y
  <2>1. ASSUME NEW x \in kept, NEW y \in kept, x # y PROVE place(x) # place(y)
    <3>1. x < y \/ y < x
          BY <2>1, <1>1
    <3>2. place(x) \in Nat /\ place(y) \in Nat
          BY <1>5
    <3> QED
        BY <3>1, <3>2, <1>5
  <2> QED
      BY <2>1
<1>8. \A m \in kept : place(m) \in 1 .. card /\ Nth(kept, place(m)) = m
      BY <1>5, <1>6, <1>7
<1>9. ASSUME NEW i \in 1 .. card, NEW j \in 1 .. card, i < j
      PROVE  Nth(kept, i) < Nth(kept, j)
  <2>1. Nth(kept, i) \in Nat /\ Nth(kept, j) \in Nat
        BY <1>1, <1>6
  <2>2. ~(Nth(kept, j) < Nth(kept, i)) /\ Nth(kept, i) # Nth(kept, j)
        BY <1>4, <1>5, <1>6, <1>9
  <2> QED
      BY <2>1, <2>2
<1>10. new = [i \in 1 .. card |-> q[Nth(kept, i)]]
       BY DEF Among
<1> HIDE DEF new, card, R
<1>11. IsQueue(new) /\ Len(new) = card /\ DOMAIN new = 1 .. card
  <2>1. new = [i \in 1 .. card |-> new[i]]
        BY <1>10
  <2> QED
      BY <2>1, <1>4, ListedQueue
<1>12. \A i \in 1 .. card : new[i] = q[Nth(kept, i)]
       BY <1>10
<1>13. Elements(new) = {q[m] : m \in kept}
  <2>1. ASSUME NEW i \in 1 .. card PROVE new[i] \in {q[m] : m \in kept}
        BY <1>6, <1>12
  <2>2. ASSUME NEW m \in kept PROVE q[m] \in Elements(new)
        BY <1>8, <1>11, <1>12 DEF Elements
  <2> QED
      BY <2>1, <2>2, <1>11 DEF Elements
<1>14. \A m \in kept : \E i \in 1 .. card : Nth(kept, i) = m
       BY <1>8
<1> QED
    BY <1>4, <1>6, <1>9, <1>11, <1>12, <1>13, <1>14 DEF new, card
=============================================================================
