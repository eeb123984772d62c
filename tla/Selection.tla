------------------------------ MODULE Selection ------------------------------
(***************************************************************************)
(* filter and sort, in a form that can be reasoned about: the elements of  *)
(* a sequence that stay, in order, and the elements of a set, in order.    *)
(***************************************************************************)
EXTENDS Integers, Sequences, FiniteSets

(* The i-th smallest number of a set.                                      *)
Nth(S, i) == CHOOSE m \in S : Cardinality({x \in S : x <= m}) = i

(* The elements of a sequence at some of its positions.                    *)
Among(q, kept) == [i \in 1 .. Cardinality(kept) |-> q[Nth(kept, i)]]

(* A set as a sequence in which no element comes after one that it must    *)
(* come before.                                                            *)
Sorted(S, MayPrecede(_, _)) ==
    CHOOSE q \in [1 .. Cardinality(S) -> S] :
        \A i, j \in 1 .. Cardinality(S) :
            i < j => q[i] # q[j] /\ MayPrecede(q[i], q[j])
=============================================================================
