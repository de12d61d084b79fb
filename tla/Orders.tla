------------------------------- MODULE Orders -------------------------------
(***************************************************************************)
(* Sets of numbers in order, and the elements of a sequence at a set of    *)
(* places.                                                                 *)
(***************************************************************************)
EXTENDS Integers, FiniteSets

\* f goes through the numbers of S from the smallest to the largest.
Lists(f, S) ==
    /\ \A m, n \in DOMAIN f : m < n => f[m] < f[n]
    /\ \A i \in S : \E n \in DOMAIN f : f[n] = i

\* The numbers of a finite set S from the smallest to the largest.
InOrder(S) ==
    [n \in 1..Cardinality(S) |-> CHOOSE k \in S : Cardinality({j \in S : j <= k}) = n]

\* What is left of a sequence when all but the elements at S are erased.
Selected(seq, S) == LET place == InOrder(S) IN [n \in DOMAIN place |-> seq[place[n]]]
=============================================================================
