--------------------------- MODULE EventBusProofs ---------------------------
(***************************************************************************)
(* Proofs about EventBus, for any events, functions and bounds.  First the *)
(* elements of a sequence at a set of places, in order, and with them the  *)
(* compaction: what erasing the dead entries of a list leaves.  Then the   *)
(* invariant of the walk by index, and of the entries themselves.  Last    *)
(* the refinement: the bus implements EventDispatch, action by action.     *)
(***************************************************************************)
EXTENDS EventBus, FiniteSetTheorems, SequenceTheorems, WellFoundedInduction, TLAPS

-----------------------------------------------------------------------------
\* Sets of numbers in order, and the elements of a sequence at such places.

(* The rank of a number in a set: it grows with the number, and the n-th   *)
(* number exists for every n up to the size of the set.                    *)
LEMMA Ranks ==
    ASSUME NEW len \in Nat, NEW live \in SUBSET (1..len)
    PROVE  /\ Cardinality(live) \in Nat
           /\ \A n \in 1..Cardinality(live) :
                 \E k \in live : Cardinality({j \in live : j <= k}) = n
           /\ \A k \in live : Cardinality({j \in live : j <= k}) \in 1..Cardinality(live)
           /\ \A k, m \in live : k < m =>
                 Cardinality({j \in live : j <= k}) < Cardinality({j \in live : j <= m})
<1> DEFINE Rank(k) == Cardinality({j \in live : j <= k})
           rank == [k \in live |-> Rank(k)]
           size == Cardinality(live)
<1>1. IsFiniteSet(live) /\ size \in Nat
  <2>1. IsFiniteSet(1..len)
    BY FS_Interval
  <2>2. IsFiniteSet(live)
    BY <2>1, FS_Subset, Zenon
  <2> QED BY <2>2, FS_CardinalityType
<1>2. ASSUME NEW k \in live
      PROVE  /\ IsFiniteSet({j \in live : j <= k})
             /\ Rank(k) \in 1..size
  <2> DEFINE below == {j \in live : j <= k}
  <2>1. below \in SUBSET live /\ k \in below
    OBVIOUS
  <2>2. IsFiniteSet(below) /\ Cardinality(below) <= size /\ Cardinality(below) \in Nat
    BY <1>1, <2>1, FS_Subset, FS_CardinalityType
  <2>3. {k} \in SUBSET below /\ Cardinality({k}) = 1
    BY <2>1, FS_Singleton
  <2>4. 1 <= Cardinality(below)
    BY <2>2, <2>3, FS_Subset
  <2> QED BY <1>1, <2>2, <2>4
<1>3. ASSUME NEW k \in live, NEW m \in live, k < m
      PROVE  Rank(k) < Rank(m)
  <2> DEFINE belowK == {j \in live : j <= k}
             belowM == {j \in live : j <= m}
  <2>a. k \in Int /\ m \in Int /\ \A j \in live : j \in Int
    OBVIOUS
  <2>b. \A j \in live : j <= k => j <= m
    BY <1>3, <2>a
  <2>c. belowK \in SUBSET belowM
    BY <2>b, Zenon
  <2>d. m \in belowM /\ m \notin belowK
    BY <1>3, <2>a
  <2>1. belowK \in SUBSET belowM /\ m \in belowM /\ m \notin belowK
    BY <2>c, <2>d
  <2>2. IsFiniteSet(belowM)
    BY <1>2
  <2>3. /\ Cardinality(belowK) <= Cardinality(belowM)
        /\ Cardinality(belowM) = Cardinality(belowK) => belowM = belowK
    BY <2>1, <2>2, FS_Subset
  <2>4. Rank(k) \in Int /\ Rank(m) \in Int
    BY <1>1, <1>2
  <2> HIDE DEF Rank
  <2>5. Cardinality(belowK) # Cardinality(belowM)
    BY <2>1, <2>3
  <2> QED BY <2>3, <2>4, <2>5 DEF Rank
<1>4. rank \in [live -> 1..size]
  BY <1>2
<1>5. \A k, m \in live : rank[k] = rank[m] => k = m
  <2> SUFFICES ASSUME NEW k \in live, NEW m \in live, k # m PROVE Rank(k) # Rank(m)
    OBVIOUS
  <2>1. k < m \/ m < k
    OBVIOUS
  <2>2. Rank(k) \in Int /\ Rank(m) \in Int
    BY <1>1, <1>2
  <2>3. Rank(k) < Rank(m) \/ Rank(m) < Rank(k)
    BY <1>3, <2>1
  <2> HIDE DEF Rank
  <2> QED BY <2>2, <2>3
<1>6. IsFiniteSet(1..size) /\ Cardinality(1..size) = size
  BY <1>1, FS_Interval
<1> HIDE DEF rank, size
<1>7. rank \in Injection(live, 1..size)
  BY <1>4, <1>5 DEF Injection, IsInjective
<1>8. rank \in Surjection(live, 1..size)
  BY <1>6, <1>7, FS_Injection DEF size
<1>9. \A n \in 1..size : \E k \in live : rank[k] = n
  BY <1>8 DEF Surjection
<1>10. \A k \in live : Rank(k) \in 1..size
  BY <1>2
<1>11. \A k, m \in live : k < m => Rank(k) < Rank(m)
  BY <1>3
<1> QED BY <1>1, <1>9, <1>10, <1>11 DEF rank, size


(* InOrder goes through the set from the smallest number to the largest.   *)
LEMMA InOrderLists ==
    ASSUME NEW len \in Nat, NEW S \in SUBSET (1..len)
    PROVE  \E m \in Nat : InOrder(S) \in [1..m -> S] /\ Lists(InOrder(S), S)
<1> DEFINE Rank(k) == Cardinality({j \in S : j <= k})
           m == Cardinality(S)
           place == [n \in 1..m |-> CHOOSE k \in S : Rank(k) = n]
<1>1. /\ m \in Nat
      /\ \A n \in 1..m : \E k \in S : Rank(k) = n
      /\ \A k \in S : Rank(k) \in 1..m
      /\ \A j, k \in S : j < k => Rank(j) < Rank(k)
  BY Ranks, Zenon
<1>2. place = InOrder(S)
  BY DEF InOrder
<1>3. \A n \in 1..m : place[n] \in S /\ Rank(place[n]) = n
  <2> HIDE DEF m
  <2> QED BY <1>1, Zenon
<1>4. \A k \in S : k \in Int
  OBVIOUS
<1> HIDE DEF m, Rank
<1>5. place \in [1..m -> S]
  BY <1>3
<1> HIDE DEF place
<1>6. ASSUME NEW i \in 1..m, NEW n \in 1..m, i < n PROVE place[i] < place[n]
  <2>1. place[i] \in S /\ place[n] \in S /\ Rank(place[i]) = i /\ Rank(place[n]) = n
    BY <1>3
  <2>a. place[i] \in Int /\ place[n] \in Int
    BY <1>4, <2>1, Zenon
  <2>2. place[i] \in Int /\ place[n] \in Int /\ i \in Int /\ n \in Int
    BY <2>a
  <2>3. ~(place[n] < place[i]) /\ place[n] # place[i]
    BY <1>1, <1>6, <2>1, <2>2
  <2> QED BY <2>2, <2>3
<1>7. ASSUME NEW k \in S PROVE \E n \in 1..m : place[n] = k
  <2>1. Rank(k) \in 1..m /\ place[Rank(k)] \in S /\ Rank(place[Rank(k)]) = Rank(k)
    BY <1>1, <1>3
  <2>2. place[Rank(k)] = k
    <3> DEFINE x == place[Rank(k)]
    <3>a. x \in S /\ Rank(x) = Rank(k)
      BY <2>1
    <3>b. x \in Int /\ k \in Int
      BY <1>4, <3>a, Zenon
    <3>c. \A j \in S : Rank(j) \in Int
      BY <1>1
    <3>1. x \in S /\ Rank(x) = Rank(k) /\ Rank(x) \in Int /\ x \in Int /\ k \in Int
      BY <3>a, <3>b, <3>c
    <3> HIDE DEF x
    <3>2. ~(x < k) /\ ~(k < x)
      BY <1>1, <3>1
    <3>3. x = k
      BY <3>1, <3>2
    <3> QED BY <3>3 DEF x
  <2> QED BY <2>1, <2>2
<1>8. Lists(place, S)
  BY <1>5, <1>6, <1>7 DEF Lists
<1> QED BY <1>1, <1>2, <1>5, <1>8, Zenon

(* A non-empty set of natural numbers has a least one.                     *)
LEMMA LeastExists ==
    ASSUME NEW T, T \subseteq Nat, T # {}
    PROVE  \E x \in T : \A y \in T : x <= y
<1> DEFINE R == OpToRel(<, Nat)
<1>1. IsWellFoundedOn(R, Nat)
  BY NatLessThanWellFounded, Zenon
<1> HIDE DEF R
<1>2. PICK x \in T : \A y \in T : <<y, x>> \notin R
  BY <1>1, WFMin, Zenon
<1>3. \A y \in T : y < x => <<y, x>> \in R
  BY DEF R, OpToRel
<1>4. ASSUME NEW y \in T PROVE x <= y
  <2>1. ~(y < x)
    BY <1>2, <1>3, Zenon
  <2> QED BY <2>1
<1> QED BY <1>4

(* There is only one order: the first difference of two of them would have *)
(* to be a number that one of them misses.                                 *)
LEMMA OneOrder ==
    ASSUME NEW S \in SUBSET Nat, NEW m \in Nat, NEW n \in Nat,
           NEW c \in [1..m -> S], NEW d \in [1..n -> S], Lists(c, S), Lists(d, S)
    PROVE  m = n /\ c = d
<1>0. /\ \A i, j \in 1..m : i < j => c[i] < c[j]
      /\ \A i, j \in 1..n : i < j => d[i] < d[j]
      /\ \A k \in S : \E i \in 1..m : c[i] = k
      /\ \A k \in S : \E i \in 1..n : d[i] = k
      /\ \A i \in 1..m : c[i] \in S /\ c[i] \in Int
      /\ \A i \in 1..n : d[i] \in S /\ d[i] \in Int
  <2>1. DOMAIN c = 1..m /\ DOMAIN d = 1..n
    OBVIOUS
  <2>2. /\ \A i, j \in 1..m : i < j => c[i] < c[j]
        /\ \A k \in S : \E i \in 1..m : c[i] = k
    BY <2>1 DEF Lists
  <2>3. /\ \A i, j \in 1..n : i < j => d[i] < d[j]
        /\ \A k \in S : \E i \in 1..n : d[i] = k
    BY <2>1 DEF Lists
  <2>4. \A k \in S : k \in Int
    OBVIOUS
  <2>5. /\ \A i \in 1..m : c[i] \in S /\ c[i] \in Int
        /\ \A i \in 1..n : d[i] \in S /\ d[i] \in Int
    BY <2>4, Zenon
  <2> QED BY <2>2, <2>3, <2>5
<1>1. ASSUME NEW i \in 1..m, i \in 1..n, \A j \in 1..(i - 1) : c[j] = d[j]
      PROVE  c[i] = d[i]
  <2>1. ASSUME c[i] < d[i] PROVE FALSE
    <3>1. PICK j \in 1..n : d[j] = c[i]
      BY <1>0
    <3>2. d[j] < d[i] /\ i \in Int /\ j \in Int /\ d[i] \in Int /\ d[j] \in Int
      BY <1>0, <1>1, <2>1, <3>1
    <3>a. ~(i < j) /\ i # j
      BY <1>0, <1>1, <3>2
    <3>3. j < i
      BY <3>2, <3>a
    <3>4. j \in 1..(i - 1) /\ j \in 1..m
      BY <3>2, <3>3
    <3>5. c[j] = c[i] /\ c[j] < c[i]
      BY <1>0, <1>1, <3>1, <3>3, <3>4
    <3> QED BY <1>0, <3>5
  <2>2. ASSUME d[i] < c[i] PROVE FALSE
    <3>1. PICK j \in 1..m : c[j] = d[i]
      BY <1>0, <1>1
    <3>2. c[j] < c[i] /\ i \in Int /\ j \in Int /\ c[i] \in Int /\ c[j] \in Int
      BY <1>0, <1>1, <2>2, <3>1
    <3>a. ~(i < j) /\ i # j
      BY <1>0, <1>1, <3>2
    <3>3. j < i
      BY <3>2, <3>a
    <3>4. j \in 1..(i - 1) /\ j \in 1..n
      BY <1>1, <3>2, <3>3
    <3>5. d[j] = d[i] /\ d[j] < d[i]
      BY <1>0, <1>1, <3>1, <3>3, <3>4
    <3> QED BY <1>0, <1>1, <3>5
  <2> QED BY <1>0, <1>1, <2>1, <2>2
<1>2. \A i \in 1..m : i \in 1..n => c[i] = d[i]
  <2> DEFINE B == {i \in 1..m : i \in 1..n /\ c[i] # d[i]}
  <2>1. SUFFICES B = {}
    OBVIOUS
  <2>2. ASSUME NEW b \in B PROVE FALSE
    <3>1. B \subseteq Nat /\ B # {}
      BY <2>2
    <3>2. PICK i \in B : \A j \in B : i <= j
      <4> HIDE DEF B
      <4> QED BY <3>1, LeastExists, Zenon
    <3>3. \A j \in 1..(i - 1) : j \in 1..m /\ j \in 1..n /\ j \notin B
      BY <3>2
    <3>4. \A j \in 1..(i - 1) : c[j] = d[j]
      BY <3>3
    <3>5. i \in 1..m /\ i \in 1..n /\ c[i] # d[i]
      OBVIOUS
    <3> QED BY <1>1, <3>4, <3>5
  <2> QED BY <2>2
<1>3. ~(m < n)
  <2> SUFFICES ASSUME m < n PROVE FALSE
    OBVIOUS
  <2>1. m + 1 \in 1..n /\ \A i \in 1..m : i \in 1..n /\ i < m + 1
    OBVIOUS
  <2>2. PICK i \in 1..m : c[i] = d[m + 1]
    BY <1>0, <2>1
  <2>3. d[i] = d[m + 1] /\ d[i] < d[m + 1] /\ d[i] \in Int
    BY <1>0, <1>2, <2>1, <2>2
  <2> QED BY <2>3
<1>4. ~(n < m)
  <2> SUFFICES ASSUME n < m PROVE FALSE
    OBVIOUS
  <2>1. n + 1 \in 1..m /\ \A i \in 1..n : i \in 1..m /\ i < n + 1
    OBVIOUS
  <2>2. PICK i \in 1..n : d[i] = c[n + 1]
    BY <1>0, <2>1
  <2>3. c[i] = c[n + 1] /\ c[i] < c[n + 1] /\ c[i] \in Int
    BY <1>0, <1>2, <2>1, <2>2
  <2> QED BY <2>3
<1>5. m = n
  BY <1>3, <1>4
<1> QED BY <1>2, <1>5

(* InOrder(S) is the function that lists S.                                *)
LEMMA InOrderIs ==
    ASSUME NEW len \in Nat, NEW S \in SUBSET (1..len), NEW m \in Nat, NEW c \in [1..m -> S],
           Lists(c, S)
    PROVE  InOrder(S) = c
<1>1. PICK n \in Nat : InOrder(S) \in [1..n -> S] /\ Lists(InOrder(S), S)
  BY InOrderLists, Zenon
<1>2. S \in SUBSET Nat
  OBVIOUS
<1> QED BY <1>1, <1>2, OneOrder

(* A selection is a sequence of the selected elements, none for no place.  *)
LEMMA SelectedType ==
    ASSUME NEW len \in Nat, NEW S \in SUBSET (1..len), NEW seq, NEW T, \A k \in S : seq[k] \in T
    PROVE  /\ Selected(seq, S) \in Seq(T)
           /\ Selected(seq, S) = << >> <=> S = {}
           /\ \A n \in 1..Len(Selected(seq, S)) : \E k \in S : Selected(seq, S)[n] = seq[k]
           /\ \A k \in S : \E n \in 1..Len(Selected(seq, S)) : Selected(seq, S)[n] = seq[k]
<1>1. PICK m \in Nat : InOrder(S) \in [1..m -> S] /\ Lists(InOrder(S), S)
  BY InOrderLists
<1> DEFINE c == InOrder(S)
           out == [n \in 1..m |-> seq[c[n]]]
<1>a. c \in [1..m -> S] /\ Lists(c, S)
  BY <1>1
<1>2. Selected(seq, S) = out
  BY <1>a DEF Selected
<1> HIDE DEF c
<1>3. c \in [1..m -> S] /\ \A k \in S : \E n \in 1..m : c[n] = k
  BY <1>a DEF Lists
<1>4. out \in [1..m -> T] /\ \A n \in 1..m : out[n] = seq[c[n]]
  BY <1>3, Zenon
<1> HIDE DEF out
<1>5. out \in Seq(T) /\ Len(out) = m
  BY <1>4
<1>6. \A n \in 1..m : \E k \in S : out[n] = seq[k]
  BY <1>3, <1>4, Zenon
<1>7. \A k \in S : \E n \in 1..m : out[n] = seq[k]
  BY <1>3, <1>4
<1>8. out = << >> <=> m = 0
  BY <1>5
<1>9. m = 0 <=> S = {}
  <2>1. ASSUME m # 0 PROVE c[1] \in S
    BY <1>3, <2>1
  <2>2. m = 0 => 1..m = {}
    OBVIOUS
  <2> QED BY <1>3, <2>1, <2>2, Zenon
<1> QED BY <1>2, <1>5, <1>6, <1>7, <1>8, <1>9

(* A selection depends on the selected elements only.                      *)
LEMMA SelectedSame ==
    ASSUME NEW len \in Nat, NEW S \in SUBSET (1..len), NEW seq, NEW new, \A k \in S : new[k] = seq[k]
    PROVE  Selected(new, S) = Selected(seq, S)
<1>1. PICK m \in Nat : InOrder(S) \in [1..m -> S] /\ Lists(InOrder(S), S)
  BY InOrderLists, Zenon
<1> DEFINE c == InOrder(S)
<1>3. c \in [1..m -> S] /\ Lists(c, S)
  BY <1>1
<1>2. Selected(seq, S) = [n \in 1..m |-> seq[c[n]]] /\ Selected(new, S) = [n \in 1..m |-> new[c[n]]]
  BY <1>3 DEF Selected
<1> HIDE DEF c
<1>4. \A n \in 1..m : new[c[n]] = seq[c[n]]
  BY <1>3, Zenon
<1> QED BY <1>2, <1>4

(* One more place after all others.                                        *)
LEMMA SelectedMore ==
    ASSUME NEW len \in Nat, NEW S \in SUBSET (1..len), NEW seq, NEW T, \A k \in S : seq[k] \in T,
           seq[len + 1] \in T
    PROVE  Selected(seq, S \cup {len + 1}) = Append(Selected(seq, S), seq[len + 1])
<1>1. PICK m \in Nat : InOrder(S) \in [1..m -> S] /\ Lists(InOrder(S), S)
  BY InOrderLists, Zenon
<1> DEFINE c == InOrder(S)
           x == len + 1
           d == [n \in 1..(m + 1) |-> IF n = m + 1 THEN x ELSE c[n]]
           out == [n \in 1..m |-> seq[c[n]]]
           more == [n \in 1..(m + 1) |-> seq[d[n]]]
<1>a. c \in [1..m -> S] /\ Lists(c, S)
  BY <1>1
<1>3. Selected(seq, S) = out
  BY <1>a DEF Selected
<1> HIDE DEF c
<1>2. /\ c \in [1..m -> S]
      /\ \A i, j \in 1..m : i < j => c[i] < c[j]
      /\ \A k \in S : \E n \in 1..m : c[n] = k
  BY <1>a DEF Lists
<1>4. x \in Int /\ \A k \in S : k \in Int /\ k < x
  OBVIOUS
<1>5. /\ \A n \in 1..m : n \in 1..(m + 1) /\ n # m + 1 /\ d[n] = c[n]
      /\ m + 1 \in 1..(m + 1) /\ d[m + 1] = x /\ DOMAIN d = 1..(m + 1)
      /\ \A n \in 1..(m + 1) : n \in 1..m \/ n = m + 1
  OBVIOUS
<1>6. d \in [1..(m + 1) -> S \cup {x}]
  BY <1>2
<1> HIDE DEF d, x
<1>7. Lists(d, S \cup {x})
  <2>1. ASSUME NEW i \in 1..(m + 1), NEW j \in 1..(m + 1), i < j
        PROVE  d[i] < d[j]
    <3>1. i \in 1..m
      BY <2>1
    <3>2. CASE j \in 1..m
      BY <1>2, <1>5, <2>1, <3>1, <3>2
    <3>3. CASE j = m + 1
      <4>1. d[i] = c[i] /\ c[i] \in S /\ d[j] = x
        BY <1>2, <1>5, <3>1, <3>3
      <4> QED BY <1>4, <4>1, Zenon
    <3> QED BY <1>5, <3>2, <3>3
  <2>2. ASSUME NEW k \in S \cup {x} PROVE \E n \in 1..(m + 1) : d[n] = k
    BY <1>2, <1>5
  <2> QED BY <1>5, <2>1, <2>2 DEF Lists
<1>8. Selected(seq, S \cup {x}) = more
  <2>1. len + 1 \in Nat /\ S \cup {x} \in SUBSET (1..(len + 1)) /\ m + 1 \in Nat
    BY DEF x
  <2> DEFINE U == S \cup {x}
             q == m + 1
             l == len + 1
  <2>2. /\ l \in Nat /\ U \in SUBSET (1..l) /\ q \in Nat
        /\ d \in [1..q -> U] /\ Lists(d, U)
    BY <1>6, <1>7, <2>1
  <2> HIDE DEF U, q, l
  <2>3. InOrder(U) = d
    BY <2>2, InOrderIs, Zenon
  <2> QED BY <1>5, <2>3, Zenon DEF U, Selected
<1>9. out \in [1..m -> T] /\ seq[x] \in T
  BY <1>2, Zenon DEF x
<1>10. out \in Seq(T) /\ Len(out) = m
  BY <1>9
<1>11. /\ Append(out, seq[x]) \in [1..(m + 1) -> T]
       /\ \A n \in 1..(m + 1) : Append(out, seq[x])[n] = IF n = m + 1 THEN seq[x] ELSE out[n]
  <2> HIDE DEF out
  <2>1. /\ Append(out, seq[x]) \in Seq(T) /\ Len(Append(out, seq[x])) = m + 1
        /\ \A n \in 1..m : Append(out, seq[x])[n] = out[n]
        /\ Append(out, seq[x])[m + 1] = seq[x]
    BY <1>9, <1>10
  <2> DEFINE app == Append(out, seq[x])
  <2>2. app \in [1..(m + 1) -> T]
    <3>1. app \in Seq(T) /\ Len(app) = m + 1
      BY <2>1
    <3> HIDE DEF app
    <3> QED BY <3>1
  <2> QED BY <1>5, <2>1, <2>2
<1>12. \A n \in 1..(m + 1) : more[n] = IF n = m + 1 THEN seq[x] ELSE out[n]
  BY <1>5
<1>13. Append(out, seq[x]) = more
  <2> DEFINE app == Append(out, seq[x])
  <2>1. app \in [1..(m + 1) -> T] /\ \A n \in 1..(m + 1) : app[n] = more[n]
    BY <1>11, <1>12, Zenon
  <2>2. more = [n \in 1..(m + 1) |-> more[n]]
    OBVIOUS
  <2> HIDE DEF app, more
  <2>3. app = more
    BY <2>1, <2>2
  <2> QED BY <2>3 DEF app
<1> QED BY <1>3, <1>8, <1>13, Zenon DEF x

(* Taking the first selected element away leaves the selection of the      *)
(* other places.                                                           *)
LEMMA SelectedFirst ==
    ASSUME NEW len \in Nat, NEW S \in SUBSET (1..len), NEW seq, NEW x \in S, \A k \in S : x <= k
    PROVE  /\ Head(Selected(seq, S)) = seq[x]
           /\ Tail(Selected(seq, S)) = Selected(seq, S \ {x})
<1>1. PICK m \in Nat : InOrder(S) \in [1..m -> S] /\ Lists(InOrder(S), S)
  BY InOrderLists, Zenon
<1> DEFINE c == InOrder(S)
           out == [n \in 1..m |-> seq[c[n]]]
           d == [n \in 1..(m - 1) |-> c[n + 1]]
           T == {seq[k] : k \in S}
<1>2. c \in [1..m -> S] /\ Lists(c, S)
  BY <1>1
<1>3. Selected(seq, S) = out
  BY <1>2 DEF Selected
<1> HIDE DEF c
<1>4. /\ \A i, j \in 1..m : i < j => c[i] < c[j]
      /\ \A k \in S : \E n \in 1..m : c[n] = k
      /\ \A n \in 1..m : c[n] \in S /\ c[n] \in Int
  <2>1. \A k \in S : k \in Int
    OBVIOUS
  <2>2. \A n \in 1..m : c[n] \in S
    BY <1>2
  <2> QED BY <1>2, <2>1, <2>2, Zenon DEF Lists
<1>5. m # 0 /\ c[1] = x
  <2>1. PICK n \in 1..m : c[n] = x
    BY <1>4
  <2>2. m # 0 /\ 1 \in 1..m
    BY <2>1
  <2>3. ~(1 < n)
    <3> SUFFICES ASSUME 1 < n PROVE FALSE
      OBVIOUS
    <3>1. c[1] < c[n] /\ c[1] \in S
      BY <1>4, <2>2
    <3>2. x <= c[1] /\ c[1] \in Int /\ x \in Int
      BY <1>4, <2>2, <3>1
    <3> QED BY <2>1, <3>1, <3>2
  <2>4. n = 1
    BY <2>3
  <2> QED BY <2>1, <2>2, <2>4
<1>6. m - 1 \in Nat /\ \A n \in 1..(m - 1) : n + 1 \in 1..m /\ d[n] = c[n + 1]
  BY <1>5
<1>7. ASSUME NEW n \in 1..(m - 1) PROVE d[n] \in S \ {x}
  <2>1. 1 < n + 1 /\ 1 \in 1..m /\ n + 1 \in 1..m
    BY <1>5, <1>6
  <2>2. c[1] < c[n + 1] /\ c[1] \in Int /\ c[n + 1] \in S /\ c[n + 1] \in Int
    BY <1>4, <2>1
  <2>3. c[1] # c[n + 1]
    BY <2>2
  <2> QED BY <1>5, <1>6, <2>2, <2>3
<1>8. d \in [1..(m - 1) -> S \ {x}]
  BY <1>7
<1>9. Lists(d, S \ {x})
  <2>1. ASSUME NEW i \in 1..(m - 1), NEW j \in 1..(m - 1), i < j
        PROVE  d[i] < d[j]
    <3>1. i + 1 < j + 1 /\ i + 1 \in 1..m /\ j + 1 \in 1..m
      BY <1>6, <2>1
    <3> QED BY <1>4, <1>6, <3>1
  <2>2. ASSUME NEW k \in S \ {x} PROVE \E n \in 1..(m - 1) : d[n] = k
    <3>1. PICK n \in 1..m : c[n] = k
      BY <1>4
    <3>2. n # 1
      BY <1>5, <3>1
    <3>3. n - 1 \in 1..(m - 1) /\ (n - 1) + 1 = n
      BY <3>2
    <3>4. d[n - 1] = k
      BY <1>6, <3>1, <3>3
    <3> QED BY <3>3, <3>4
  <2>3. DOMAIN d = 1..(m - 1)
    OBVIOUS
  <2> HIDE DEF d
  <2> QED BY <2>1, <2>2, <2>3 DEF Lists
<1>10. InOrder(S \ {x}) = d
  <2> DEFINE U == S \ {x}
             q == m - 1
  <2>1. U \in SUBSET (1..len) /\ q \in Nat /\ d \in [1..q -> U] /\ Lists(d, U)
    BY <1>6, <1>8, <1>9
  <2> HIDE DEF U, q, d
  <2>2. InOrder(U) = d
    BY <2>1, InOrderIs, Zenon
  <2> QED BY <2>2 DEF U
<1>11. Selected(seq, S \ {x}) = [n \in 1..(m - 1) |-> seq[c[n + 1]]]
  <2>1. DOMAIN d = 1..(m - 1)
    OBVIOUS
  <2>2. Selected(seq, S \ {x}) = [n \in 1..(m - 1) |-> seq[d[n]]]
    BY <1>10, <2>1, Zenon DEF Selected
  <2> QED BY <2>2, Zenon
<1>12. out \in [1..m -> T] /\ \A n \in 1..m : out[n] = seq[c[n]]
  <2>1. \A k \in S : seq[k] \in T
    OBVIOUS
  <2> HIDE DEF T
  <2> QED BY <1>4, <2>1
<1> HIDE DEF out, d, T
<1>13. out \in Seq(T) /\ Len(out) = m
  BY <1>12
<1>14. Head(out) = out[1] /\ Tail(out) = [n \in 1..(m - 1) |-> out[n + 1]]
  <2> DEFINE rest == Tail(out)
  <2>1. out # << >> /\ m - 1 \in Nat
    BY <1>5, <1>6, <1>13
  <2>2. Head(out) = out[1]
    BY <1>13, <2>1
  <2>3. rest \in Seq(T) /\ Len(rest) = m - 1 /\ \A n \in 1..(m - 1) : rest[n] = out[n + 1]
    BY <1>13, <2>1
  <2> HIDE DEF rest
  <2>4. rest = [n \in 1..(m - 1) |-> rest[n]]
    BY <2>1, <2>3
  <2>5. rest = [n \in 1..(m - 1) |-> out[n + 1]]
    BY <2>3, <2>4
  <2> QED BY <2>2, <2>5 DEF rest
<1>15. Head(out) = seq[x]
  BY <1>5, <1>12, <1>14
<1>16. \A n \in 1..(m - 1) : out[n + 1] = seq[c[n + 1]]
  BY <1>6, <1>12
<1>17. Tail(out) = Selected(seq, S \ {x})
  BY <1>11, <1>14, <1>16, Zenon
<1> QED BY <1>3, <1>15, <1>17, Zenon

(* EventDispatch has the same InOrder.                                     *)
LEMMA SameInOrder ==
    ASSUME NEW S
    PROVE  Abstract!InOrder(S) = InOrder(S)
BY Zenon DEF Abstract!InOrder, InOrder, Abstract!Cardinality, Cardinality

(* What EventDispatch leaves of a sequence without f.                      *)
LEMMA WithoutIs ==
    ASSUME NEW seq, NEW f
    PROVE  Abstract!Without(seq, f) = Selected(seq, {n \in 1..Len(seq) : seq[n] # f})
BY SameInOrder DEF Abstract!Without, Abstract!Selected, Selected

\* The places in S where seq has something else than f.
Others(seq, S, f) == {k \in S : seq[k] # f}

(* A selection without f is the selection of the places without f.         *)
LEMMA SelectedWithout ==
    ASSUME NEW len \in Nat, NEW S \in SUBSET (1..len), NEW seq, NEW f
    PROVE  Abstract!Without(Selected(seq, S), f) = Selected(seq, Others(seq, S, f))
<1>1. PICK m \in Nat : InOrder(S) \in [1..m -> S] /\ Lists(InOrder(S), S)
  BY InOrderLists, Zenon
<1> DEFINE c == InOrder(S)
           out == [n \in 1..m |-> seq[c[n]]]
           R == {n \in 1..m : out[n] # f}
           U == Others(seq, S, f)
           d == InOrder(R)
           T == {seq[k] : k \in S}
<1>2. c \in [1..m -> S] /\ Lists(c, S)
  BY <1>1
<1>3. Selected(seq, S) = out
  BY <1>2 DEF Selected
<1> HIDE DEF c
<1>4. /\ \A i, j \in 1..m : i < j => c[i] < c[j]
      /\ \A k \in S : \E n \in 1..m : c[n] = k
      /\ \A n \in 1..m : c[n] \in S
  BY <1>2 DEF Lists
<1>5. out \in [1..m -> T] /\ \A n \in 1..m : out[n] = seq[c[n]]
  <2>1. \A k \in S : seq[k] \in T
    OBVIOUS
  <2> HIDE DEF T
  <2> QED BY <1>4, <2>1, Zenon
<1>6. Len(out) = m
  <2> HIDE DEF out
  <2>1. out \in Seq(T)
    BY <1>5
  <2> QED BY <1>5, <2>1
<1> HIDE DEF out, T
<1>7. /\ R \in SUBSET (1..m) /\ \A n \in 1..m : n \in R <=> seq[c[n]] # f
      /\ U \in SUBSET (1..len) /\ \A k \in S : k \in U <=> seq[k] # f
      /\ \A k \in U : k \in S
  BY <1>5, Zenon DEF Others
<1>10. Abstract!Without(out, f) = Selected(out, R)
  BY <1>6, WithoutIs
<1> HIDE DEF R, U
<1>8. \A n \in R : n \in 1..m /\ c[n] \in U
  BY <1>4, <1>7, Zenon
<1>9. \A k \in U : \E n \in R : c[n] = k
  <2> SUFFICES ASSUME NEW k \in U PROVE \E n \in R : c[n] = k
    OBVIOUS
  <2>1. k \in S
    BY <1>7
  <2>2. PICK n \in 1..m : c[n] = k
    BY <1>4, <2>1
  <2>3. n \in R
    BY <1>7, <2>1, <2>2
  <2> QED BY <2>2, <2>3
<1>11. PICK q \in Nat : d \in [1..q -> R] /\ Lists(d, R)
  BY <1>7, InOrderLists, Zenon
<1> DEFINE e == [n \in 1..q |-> c[d[n]]]
<1>12. /\ \A i, j \in 1..q : i < j => d[i] < d[j]
       /\ \A r \in R : \E n \in 1..q : d[n] = r
       /\ \A n \in 1..q : d[n] \in R
  BY <1>11 DEF Lists
<1>13. Selected(out, R) = [n \in 1..q |-> out[d[n]]]
  BY <1>11 DEF Selected
<1> HIDE DEF d
<1>14. e \in [1..q -> U] /\ \A n \in 1..q : e[n] = c[d[n]]
  BY <1>8, <1>12
<1> HIDE DEF e
<1>15. Lists(e, U)
  <2>1. ASSUME NEW i \in 1..q, NEW j \in 1..q, i < j PROVE e[i] < e[j]
    <3>1. d[i] < d[j] /\ d[i] \in 1..m /\ d[j] \in 1..m
      BY <1>8, <1>12, <2>1
    <3>2. c[d[i]] < c[d[j]]
      BY <1>4, <3>1
    <3> QED BY <1>14, <3>2
  <2>2. ASSUME NEW k \in U PROVE \E n \in 1..q : e[n] = k
    <3>1. PICK r \in R : c[r] = k
      BY <1>9
    <3>2. PICK n \in 1..q : d[n] = r
      BY <1>12
    <3> QED BY <1>14, <3>1, <3>2
  <2> QED BY <1>14, <2>1, <2>2 DEF Lists
<1>16. InOrder(U) = e
  BY <1>7, <1>14, <1>15, InOrderIs, Zenon
<1>17. Selected(seq, U) = [n \in 1..q |-> seq[e[n]]]
  BY <1>14, <1>16 DEF Selected
<1>18. \A n \in 1..q : out[d[n]] = seq[e[n]]
  <2> SUFFICES ASSUME NEW n \in 1..q PROVE out[d[n]] = seq[e[n]]
    OBVIOUS
  <2>1. d[n] \in 1..m
    BY <1>8, <1>12
  <2> QED BY <1>5, <1>14, <2>1
<1>19. Selected(out, R) = Selected(seq, U)
  BY <1>13, <1>17, <1>18
<1> QED BY <1>3, <1>10, <1>19 DEF U

-----------------------------------------------------------------------------
\* Compaction.

(* What a compaction leaves are live entries of the list, none of them     *)
(* twice.                                                                  *)
LEMMA Compacted ==
    ASSUME NEW list \in Seq(Handlers)
    PROVE  /\ AliveOnly(list) \in Seq(Handlers)
           /\ \A n \in 1..Len(AliveOnly(list)) : AliveOnly(list)[n].alive
           /\ \E from \in [1..Len(AliveOnly(list)) -> 1..Len(list)] :
                 /\ \A n \in 1..Len(AliveOnly(list)) : AliveOnly(list)[n] = list[from[n]]
                 /\ \A m, n \in 1..Len(AliveOnly(list)) : from[m] = from[n] => m = n
<1> DEFINE live == {k \in 1..Len(list) : list[k].alive}
           from == InOrder(live)
           out == AliveOnly(list)
<1>1. /\ Len(list) \in Nat /\ live \in SUBSET (1..Len(list))
      /\ \A k \in live : k \in 1..Len(list) /\ list[k].alive /\ list[k] \in Handlers
  OBVIOUS
<1>2. out = Selected(list, live)
  BY DEF AliveOnly
<1> HIDE DEF live
<1>3. PICK size \in Nat : from \in [1..size -> live] /\ Lists(from, live)
  BY <1>1, InOrderLists, Zenon
<1>4. out = [n \in 1..size |-> list[from[n]]]
  BY <1>2, <1>3 DEF Selected
<1> HIDE DEF from, out
<1>5. \A n \in 1..size : from[n] \in 1..Len(list) /\ list[from[n]].alive /\ list[from[n]] \in Handlers
  BY <1>1, <1>3, Zenon
<1>6. out \in [1..size -> Handlers] /\ \A n \in 1..size : out[n] = list[from[n]]
  BY <1>4, <1>5
<1>7. out \in Seq(Handlers) /\ Len(out) = size
  BY <1>6
<1>8. from \in [1..size -> 1..Len(list)]
  BY <1>3, <1>5
<1>9. \A m, n \in 1..size : from[m] = from[n] => m = n
  <2> SUFFICES ASSUME NEW m \in 1..size, NEW n \in 1..size, m # n PROVE from[m] # from[n]
    OBVIOUS
  <2>1. from[m] < from[n] \/ from[n] < from[m]
    BY <1>3 DEF Lists
  <2>2. from[m] \in Int /\ from[n] \in Int
    BY <1>5
  <2> QED BY <2>1, <2>2
<1>10. \A n \in 1..Len(out) : out[n].alive
  BY <1>5, <1>6, <1>7
<1>11. \E choice \in [1..Len(out) -> 1..Len(list)] :
         /\ \A n \in 1..Len(out) : out[n] = list[choice[n]]
         /\ \A m, n \in 1..Len(out) : choice[m] = choice[n] => m = n
  <2>1. from \in [1..Len(out) -> 1..Len(list)]
    BY <1>7, <1>8
  <2>2. /\ \A n \in 1..Len(out) : out[n] = list[from[n]]
        /\ \A m, n \in 1..Len(out) : from[m] = from[n] => m = n
    BY <1>6, <1>7, <1>9
  <2> QED BY <2>1, <2>2
<1> QED BY <1>7, <1>10, <1>11, Zenon DEF out

-----------------------------------------------------------------------------
\* Lists and frames after one operation.

(* The lists after Bind.                                                   *)
LEMMA AfterBind ==
    ASSUME TypeOK, NEW e \in Events, NEW f \in Functions, NEW new,
           new = [lists EXCEPT ![e] = Append(@, [fn |-> f, alive |-> TRUE])]
    PROVE  /\ new \in [Events -> Seq(Handlers)]
           /\ \A d \in Events : /\ Len(new[d]) = IF d = e THEN Len(lists[d]) + 1 ELSE Len(lists[d])
                               /\ \A j \in 1..Len(lists[d]) : new[d][j] = lists[d][j]
           /\ new[e][Len(lists[e]) + 1] = [fn |-> f, alive |-> TRUE]
<1> DEFINE h == [fn |-> f, alive |-> TRUE]
<1>1. h \in Handlers
  BY DEF Handlers
<1>2. \A d \in Events : lists[d] \in Seq(Handlers)
  BY DEF TypeOK
<1>3. \A d \in Events : new[d] = IF d = e THEN Append(lists[d], h) ELSE lists[d]
  BY DEF TypeOK
<1> HIDE DEF h
<1>4. /\ Append(lists[e], h) \in Seq(Handlers) /\ Len(Append(lists[e], h)) = Len(lists[e]) + 1
      /\ \A j \in 1..Len(lists[e]) : Append(lists[e], h)[j] = lists[e][j]
      /\ Append(lists[e], h)[Len(lists[e]) + 1] = h
  BY <1>1, <1>2
<1>5. new \in [Events -> Seq(Handlers)]
  BY <1>2, <1>3, <1>4 DEF TypeOK, h
<1> QED BY <1>3, <1>4, <1>5, Zenon DEF h

(* The lists after Unbind has marked an entry.                             *)
LEMMA AfterMark ==
    ASSUME TypeOK, NEW e \in Events, NEW k \in 1..Len(lists[e]), NEW new,
           new = [lists EXCEPT ![e][k].alive = FALSE]
    PROVE  /\ new \in [Events -> Seq(Handlers)]
           /\ \A d \in Events :
                 /\ Len(new[d]) = Len(lists[d])
                 /\ \A j \in 1..Len(lists[d]) :
                       /\ new[d][j].fn = lists[d][j].fn
                       /\ new[d][j].alive => lists[d][j].alive
                       /\ ~(d = e /\ j = k) => new[d][j] = lists[d][j]
<1> DEFINE h == [lists[e][k] EXCEPT !.alive = FALSE]
           list == [lists[e] EXCEPT ![k] = h]
<1>1. \A d \in Events : lists[d] \in Seq(Handlers)
  BY DEF TypeOK
<1>2. lists[e][k] \in Handlers
  BY <1>1
<1>3. h \in Handlers /\ h.fn = lists[e][k].fn /\ h.alive = FALSE
  BY <1>2, Zenon DEF Handlers
<1>4. \A d \in Events : new[d] = IF d = e THEN list ELSE lists[d]
  BY DEF TypeOK
<1> HIDE DEF h
<1>5. /\ list \in Seq(Handlers) /\ Len(list) = Len(lists[e])
      /\ \A j \in 1..Len(lists[e]) : list[j] = IF j = k THEN h ELSE lists[e][j]
  BY <1>1, <1>3
<1>6. new = [d \in Events |-> new[d]]
  BY Zenon DEF TypeOK
<1> HIDE DEF list
<1>7. new \in [Events -> Seq(Handlers)]
  BY <1>1, <1>4, <1>5, <1>6, Zenon
<1> QED BY <1>3, <1>4, <1>5, <1>7

(* The frames after a change of the innermost one.                         *)
LEMMA TopChanged ==
    ASSUME TypeOK, frames # << >>, NEW top \in Frames, NEW new,
           new = [frames EXCEPT ![Len(frames)] = top]
    PROVE  /\ new \in Seq(Frames) /\ Len(new) = Len(frames)
           /\ \A n \in 1..Len(frames) : new[n] = IF n = Len(frames) THEN top ELSE frames[n]
<1>1. frames \in Seq(Frames) /\ Len(frames) \in Nat
  BY DEF TypeOK
<1> QED BY <1>1

(* The innermost frame exists while a dispatch is active.                  *)
LEMMA TopType ==
    ASSUME TypeOK, frames # << >>
    PROVE  /\ Top \in Frames /\ Len(frames) \in 1..Len(frames)
           /\ Top = frames[Len(frames)]
BY DEF TypeOK, Top

(* The frames without the innermost one.                                   *)
LEMMA AfterPop ==
    ASSUME TypeOK, frames # << >>
    PROVE  /\ Popped \in Seq(Frames) /\ Len(Popped) = Len(frames) - 1
           /\ \A n \in 1..Len(Popped) : n \in 1..Len(frames) /\ Popped[n] = frames[n]
<1>1. frames \in Seq(Frames) /\ Len(frames) \in Nat /\ Len(frames) > 0
  BY DEF TypeOK
<1> DEFINE last == Len(frames) - 1
<1>2. last \in Nat /\ \A n \in 1..last : n \in 1..Len(frames) /\ frames[n] \in Frames /\ 1 + n - 1 = n
  BY <1>1
<1>3. Popped = SubSeq(frames, 1, last)
  BY DEF Popped
<1> HIDE DEF last
<1>4. /\ SubSeq(frames, 1, last) \in Seq(Frames) /\ Len(SubSeq(frames, 1, last)) = last
      /\ \A n \in 1..last : SubSeq(frames, 1, last)[n] = frames[n]
  BY <1>2
<1> QED BY <1>2, <1>3, <1>4 DEF last

(* The frames with a new dispatch.                                         *)
LEMMA AfterPush ==
    ASSUME TypeOK, NEW frame \in Frames
    PROVE  /\ Append(frames, frame) \in Seq(Frames) /\ Len(Append(frames, frame)) = Len(frames) + 1
           /\ \A n \in 1..(Len(frames) + 1) :
                 Append(frames, frame)[n] = IF n = Len(frames) + 1 THEN frame ELSE frames[n]
BY DEF TypeOK

-----------------------------------------------------------------------------
\* Types.

(* A compaction keeps the types.                                           *)
LEMMA CompactType ==
    ASSUME NEW now \in [Events -> Seq(Handlers)], Compact(now)
    PROVE  lists' \in [Events -> Seq(Handlers)] /\ needs_compaction' \in BOOLEAN
<1>1. \A e \in Events : AliveOnly(now[e]) \in Seq(Handlers)
  BY Compacted
<1> QED BY <1>1, Zenon DEF Compact

(* The end of a dispatch keeps the types.                                  *)
LEMMA FinishType ==
    ASSUME TypeOK, NEW rest \in Seq(Frames), Finish(rest)
    PROVE  /\ lists' \in [Events -> Seq(Handlers)] /\ needs_compaction' \in BOOLEAN
           /\ frames' \in Seq(Frames)
BY CompactType DEF Finish, TypeOK

(* Every operation keeps the types.                                        *)
LEMMA StepType ==
    ASSUME TypeOK, [Next]_vars
    PROVE  TypeOK'
<1>1. ASSUME NEW e \in Events, Create(e)
      PROVE  TypeOK'
  BY <1>1 DEF Create, TypeOK
<1>2. ASSUME NEW e \in Events, NEW f \in Functions, Bind(e, f)
      PROVE  TypeOK'
  <2>1. lists' \in [Events -> Seq(Handlers)]
    BY <1>2, AfterBind, Zenon DEF Bind
  <2> QED BY <1>2, <2>1 DEF Bind, TypeOK
<1>3. ASSUME NEW e \in Events, NEW f \in Functions, Unbind(e, f)
      PROVE  TypeOK'
  <2>1. PICK k \in 1..Len(lists[e]) :
           LET marked == [lists EXCEPT ![e][k].alive = FALSE]
           IN IF frames = << >> THEN Compact(marked)
              ELSE lists' = marked /\ needs_compaction' = TRUE
    BY <1>3, Zenon DEF Unbind
  <2> DEFINE marked == [lists EXCEPT ![e][k].alive = FALSE]
  <2>2. marked \in [Events -> Seq(Handlers)]
    BY AfterMark, Zenon
  <2>3. IF frames = << >> THEN Compact(marked) ELSE lists' = marked /\ needs_compaction' = TRUE
    BY <2>1
  <2> HIDE DEF marked
  <2>4. lists' \in [Events -> Seq(Handlers)] /\ needs_compaction' \in BOOLEAN
    BY <2>2, <2>3, CompactType, Zenon
  <2> QED BY <1>3, <2>4 DEF Unbind, TypeOK
<1>4. ASSUME NEW e \in Events, Dispatch(e)
      PROVE  TypeOK'
  <2>1. ASSUME NEW k \in 1..Len(lists[e]),
               frames' = Append(frames, [event |-> e, i |-> k, count |-> Len(lists[e]), cancelled |-> FALSE]),
               UNCHANGED <<lists, needs_compaction>>
        PROVE  TypeOK'
    <3> DEFINE frame == [event |-> e, i |-> k, count |-> Len(lists[e]), cancelled |-> FALSE]
    <3>1. Len(lists[e]) \in Nat /\ k \in Nat \ {0}
      BY DEF TypeOK
    <3>2. frame \in Frames
      BY <3>1 DEF Frames
    <3>3. frames' = Append(frames, frame)
      BY <2>1
    <3> HIDE DEF frame
    <3>4. frames' \in Seq(Frames)
      BY <3>2, <3>3, AfterPush
    <3> QED BY <1>4, <2>1, <3>4, Zenon DEF Dispatch, TypeOK
  <2>2. CASE Finish(frames)
    <3>1. frames \in Seq(Frames)
      BY DEF TypeOK
    <3> QED BY <1>4, <2>2, <3>1, FinishType DEF Dispatch, TypeOK
  <2> QED BY <1>4, <2>1, <2>2, Zenon DEF Dispatch
<1>5. CASE Cancel
  <2> DEFINE top == [Top EXCEPT !.cancelled = TRUE]
  <2>1. Top \in Frames /\ Top = frames[Len(frames)]
    BY <1>5, TopType DEF Cancel
  <2>2. top \in Frames
    BY <2>1, Zenon DEF Frames
  <2>3. frames' = [frames EXCEPT ![Len(frames)] = top]
    BY <1>5, <2>1 DEF Cancel
  <2> HIDE DEF top
  <2>4. frames' \in Seq(Frames)
    BY <1>5, <2>2, <2>3, TopChanged, Zenon DEF Cancel
  <2> QED BY <1>5, <2>4 DEF Cancel, TypeOK
<1>6. CASE CallNext
  <2>1. PICK k \in 1..Top.count : frames' = [frames EXCEPT ![Len(frames)].i = k]
    BY <1>6, Zenon DEF CallNext
  <2> DEFINE top == [Top EXCEPT !.i = k]
  <2>2. Top \in Frames /\ Top = frames[Len(frames)] /\ Top.count \in Nat
    BY <1>6, TopType DEF CallNext, Frames
  <2>3. k \in Nat \ {0}
    BY <2>2
  <2>4. top \in Frames
    BY <2>2, <2>3 DEF Frames
  <2>5. frames' = [frames EXCEPT ![Len(frames)] = top]
    BY <2>1, <2>2
  <2> HIDE DEF top
  <2>6. frames' \in Seq(Frames)
    BY <1>6, <2>4, <2>5, TopChanged, Zenon DEF CallNext
  <2> QED BY <1>6, <2>6 DEF CallNext, TypeOK
<1>7. CASE DispatchEnds
  <2>1. Popped \in Seq(Frames)
    BY <1>7, AfterPop DEF DispatchEnds
  <2> QED BY <1>7, <2>1, FinishType DEF DispatchEnds, TypeOK
<1>8. CASE CallThrows
  <2>1. Popped \in Seq(Frames)
    BY <1>8, AfterPop DEF CallThrows
  <2> QED BY <1>8, <2>1 DEF CallThrows, TypeOK
<1>9. CASE Clear
  <2>1. << >> \in Seq(Handlers)
    OBVIOUS
  <2> QED BY <1>9, <2>1, BuiltinAssumption, Zenon DEF Clear, TypeOK
<1>10. CASE UNCHANGED vars
  BY <1>10 DEF vars, TypeOK
<1> QED BY <1>1, <1>2, <1>3, <1>4, <1>5, <1>6, <1>7, <1>8, <1>9, <1>10 DEF Next

(* The initial state has its types.                                        *)
LEMMA InitType == Init => TypeOK
<1>1. << >> \in Seq(Handlers) /\ << >> \in Seq(Frames)
  OBVIOUS
<1> QED BY <1>1, BuiltinAssumption, Zenon DEF Init, TypeOK

(***************************************************************************)
(* Handler lists hold handlers and the stack holds dispatches, after any   *)
(* compaction too.                                                         *)
(***************************************************************************)
THEOREM TypeCorrect == Spec => []TypeOK
<1>1. TypeOK /\ [Next]_vars => TypeOK'
  BY StepType
<1> QED BY <1>1, InitType, PTL DEF Spec

-----------------------------------------------------------------------------
\* The walk by index.

(* While a dispatch is active after the step, no list has become shorter,  *)
(* and no entry has another function or has come back to life: only an     *)
(* operation that leaves no dispatch active compacts.                      *)
LEMMA EntriesKept ==
    ASSUME TypeOK, [Next]_vars, frames' # << >>, NEW d \in Events
    PROVE  /\ Len(lists[d]) <= Len(lists'[d])
           /\ \A j \in 1..Len(lists[d]) :
                 /\ lists'[d][j].fn = lists[d][j].fn
                 /\ lists'[d][j].alive => lists[d][j].alive
<1>0. Len(lists[d]) \in Nat
  BY DEF TypeOK
<1>1. ASSUME lists' = lists
      PROVE  /\ Len(lists[d]) <= Len(lists'[d])
             /\ \A j \in 1..Len(lists[d]) :
                   /\ lists'[d][j].fn = lists[d][j].fn
                   /\ lists'[d][j].alive => lists[d][j].alive
  BY <1>0, <1>1
<1>2. ASSUME NEW e \in Events, NEW f \in Functions, Bind(e, f)
      PROVE  /\ Len(lists[d]) <= Len(lists'[d])
             /\ \A j \in 1..Len(lists[d]) : lists'[d][j] = lists[d][j]
  <2>1. /\ Len(lists'[d]) = IF d = e THEN Len(lists[d]) + 1 ELSE Len(lists[d])
        /\ \A j \in 1..Len(lists[d]) : lists'[d][j] = lists[d][j]
    BY <1>2, AfterBind DEF Bind
  <2> QED BY <1>0, <2>1
<1>3. ASSUME NEW e \in Events, NEW f \in Functions, Unbind(e, f)
      PROVE  /\ Len(lists[d]) <= Len(lists'[d])
             /\ \A j \in 1..Len(lists[d]) :
                   /\ lists'[d][j].fn = lists[d][j].fn
                   /\ lists'[d][j].alive => lists[d][j].alive
  <2>1. PICK k \in 1..Len(lists[e]) : lists' = [lists EXCEPT ![e][k].alive = FALSE]
    BY <1>3 DEF Unbind
  <2>2. /\ Len(lists'[d]) = Len(lists[d])
        /\ \A j \in 1..Len(lists[d]) :
              /\ lists'[d][j].fn = lists[d][j].fn
              /\ lists'[d][j].alive => lists[d][j].alive
    BY <2>1, AfterMark
  <2> QED BY <1>0, <2>2
<1>4. ASSUME NEW e \in Events, Dispatch(e)
      PROVE  lists' = lists
  BY <1>4, Zenon DEF Dispatch, Finish
<1>5. CASE DispatchEnds
  <2>1. lists' = lists
    BY <1>5 DEF DispatchEnds, Finish
  <2> QED BY <1>1, <2>1
<1>6. CASE Clear
  BY <1>6 DEF Clear
<1>7. ASSUME \/ \E e \in Events : Create(e)
             \/ Cancel \/ CallNext \/ CallThrows \/ UNCHANGED vars
      PROVE  lists' = lists
  BY <1>7 DEF Create, Cancel, CallNext, CallThrows, vars
<1> QED BY <1>1, <1>2, <1>3, <1>4, <1>5, <1>6, <1>7 DEF Next

(* Every dispatch that is active after the step, be it old or new, stays   *)
(* within its list of before the step.                                     *)
LEMMA FramesStay ==
    ASSUME TypeOK, IndexInRange, [Next]_vars, NEW n \in 1..Len(frames')
    PROVE  /\ frames'[n].i \in 1..frames'[n].count
           /\ frames'[n].count <= Len(lists[frames'[n].event])
<1>0. Len(frames) \in Nat /\ frames \in Seq(Frames)
  BY DEF TypeOK
<1>1. ASSUME n \in 1..Len(frames), frames'[n] = frames[n]
      PROVE  /\ frames'[n].i \in 1..frames'[n].count
             /\ frames'[n].count <= Len(lists[frames'[n].event])
  BY <1>1 DEF IndexInRange
<1>2. ASSUME NEW e \in Events, Dispatch(e)
      PROVE  /\ frames'[n].i \in 1..frames'[n].count
             /\ frames'[n].count <= Len(lists[frames'[n].event])
  <2>1. CASE frames' = frames
    BY <1>1, <2>1
  <2>2. ASSUME NEW k \in 1..Len(lists[e]),
               frames' = Append(frames, [event |-> e, i |-> k, count |-> Len(lists[e]), cancelled |-> FALSE])
        PROVE  /\ frames'[n].i \in 1..frames'[n].count
               /\ frames'[n].count <= Len(lists[frames'[n].event])
    <3> DEFINE frame == [event |-> e, i |-> k, count |-> Len(lists[e]), cancelled |-> FALSE]
    <3>1. Len(lists[e]) \in Nat /\ k \in Nat \ {0}
      BY DEF TypeOK
    <3>2. frame \in Frames /\ frame.i = k /\ frame.count = Len(lists[e]) /\ frame.event = e
      BY <3>1 DEF Frames
    <3>3. frames' = Append(frames, frame)
      BY <2>2
    <3> HIDE DEF frame
    <3>4. /\ Len(frames') = Len(frames) + 1
          /\ \A m \in 1..(Len(frames) + 1) : frames'[m] = IF m = Len(frames) + 1 THEN frame ELSE frames[m]
      BY <3>2, <3>3, AfterPush
    <3>5. CASE n = Len(frames) + 1
      <4>1. frames'[n] = frame
        BY <3>4, <3>5
      <4> QED BY <3>1, <3>2, <4>1
    <3>6. CASE n # Len(frames) + 1
      <4>1. n \in 1..Len(frames) /\ frames'[n] = frames[n]
        BY <1>0, <3>4, <3>6
      <4> QED BY <1>1, <4>1
    <3> QED BY <3>5, <3>6
  <2> QED BY <1>2, <2>1, <2>2, Zenon DEF Dispatch, Finish
<1>3. ASSUME NEW top \in Frames, frames # << >>, frames' = [frames EXCEPT ![Len(frames)] = top],
             top.event = Top.event, top.count = Top.count, top.i \in 1..Top.count
      PROVE  /\ frames'[n].i \in 1..frames'[n].count
             /\ frames'[n].count <= Len(lists[frames'[n].event])
  <2>1. /\ Len(frames') = Len(frames)
        /\ \A m \in 1..Len(frames) : frames'[m] = IF m = Len(frames) THEN top ELSE frames[m]
    BY <1>3, TopChanged
  <2>2. CASE n = Len(frames)
    <3>1. frames'[n] = top /\ Top = frames[n] /\ n \in 1..Len(frames)
      BY <2>1, <2>2 DEF Top
    <3>2. Top.count <= Len(lists[Top.event])
      BY <3>1 DEF IndexInRange
    <3> QED BY <1>3, <3>1, <3>2
  <2>3. CASE n # Len(frames)
    BY <1>1, <2>1, <2>3
  <2> QED BY <2>2, <2>3
<1>4. CASE Cancel
  <2> DEFINE top == [Top EXCEPT !.cancelled = TRUE]
  <2>1. Top \in Frames /\ Top = frames[Len(frames)] /\ Len(frames) \in 1..Len(frames)
    BY <1>4, TopType DEF Cancel
  <2>2. top \in Frames /\ top.event = Top.event /\ top.count = Top.count /\ top.i = Top.i
    BY <2>1, Zenon DEF Frames
  <2>3. frames' = [frames EXCEPT ![Len(frames)] = top] /\ frames # << >>
    BY <1>4, <2>1 DEF Cancel
  <2>4. Top.i \in 1..Top.count
    BY <2>1 DEF IndexInRange
  <2> HIDE DEF top
  <2> QED BY <1>3, <2>2, <2>3, <2>4, Zenon
<1>5. CASE CallNext
  <2>1. PICK k \in 1..Top.count : frames' = [frames EXCEPT ![Len(frames)].i = k]
    BY <1>5, Zenon DEF CallNext
  <2> DEFINE top == [Top EXCEPT !.i = k]
  <2>2. Top \in Frames /\ Top = frames[Len(frames)] /\ Top.count \in Nat
    BY <1>5, TopType DEF CallNext, Frames
  <2>3. k \in Nat \ {0}
    BY <2>2
  <2>4. top \in Frames /\ top.event = Top.event /\ top.count = Top.count /\ top.i = k
    BY <2>2, <2>3 DEF Frames
  <2>5. frames' = [frames EXCEPT ![Len(frames)] = top] /\ frames # << >>
    BY <1>5, <2>1, <2>2, Zenon DEF CallNext
  <2> HIDE DEF top
  <2> QED BY <1>3, <2>4, <2>5, Zenon
<1>6. CASE DispatchEnds \/ CallThrows
  <2>1. frames' = Popped /\ frames # << >>
    BY <1>6 DEF DispatchEnds, CallThrows, Finish
  <2>2. n \in 1..Len(frames) /\ frames'[n] = frames[n]
    BY <2>1, AfterPop
  <2> QED BY <1>1, <2>2
<1>7. ASSUME \/ \E e \in Events : Create(e)
             \/ \E e \in Events, f \in Functions : Bind(e, f) \/ Unbind(e, f)
             \/ Clear \/ UNCHANGED vars
      PROVE  frames' = frames
  BY <1>7, Zenon DEF Create, Bind, Unbind, Clear, vars
<1>8. CASE frames' = frames
  BY <1>1, <1>8
<1> QED BY <1>2, <1>4, <1>5, <1>6, <1>7, <1>8 DEF Next

(* No step takes an index out of range.                                    *)
LEMMA IndexStep ==
    ASSUME TypeOK, IndexInRange, [Next]_vars
    PROVE  IndexInRange'
<1> SUFFICES ASSUME NEW n \in 1..Len(frames')
             PROVE  /\ frames'[n].i \in 1..frames'[n].count
                    /\ frames'[n].count <= Len(lists'[frames'[n].event])
  BY DEF IndexInRange
<1>1. /\ frames'[n].i \in 1..frames'[n].count
      /\ frames'[n].count <= Len(lists[frames'[n].event])
  BY FramesStay
<1>2. TypeOK'
  BY StepType
<1>3. frames' \in Seq(Frames) /\ lists' \in [Events -> Seq(Handlers)]
  BY <1>2 DEF TypeOK
<1>4. frames'[n] \in Frames
  BY <1>3
<1>5. frames'[n].event \in Events /\ frames'[n].count \in Nat
  BY <1>4 DEF Frames
<1>6. frames' # << >>
  BY <1>3
<1>7. Len(lists[frames'[n].event]) <= Len(lists'[frames'[n].event])
  BY <1>5, <1>6, EntriesKept
<1>8. Len(lists[frames'[n].event]) \in Nat /\ Len(lists'[frames'[n].event]) \in Nat
  BY <1>3, <1>5 DEF TypeOK
<1> QED BY <1>1, <1>5, <1>7, <1>8

(***************************************************************************)
(* IndexInRange, for any number of nested dispatches and any lists: the    *)
(* loop of Dispatch reads lists_[event][i] only within the list, whatever  *)
(* its handlers bind, unbind, dispatch or throw.                           *)
(***************************************************************************)
THEOREM IndexesInRange == Spec => []IndexInRange
<1>1. Init => IndexInRange
  BY DEF Init, IndexInRange
<1>2. TypeOK /\ IndexInRange /\ [Next]_vars => IndexInRange'
  BY IndexStep
<1> QED BY <1>1, <1>2, TypeCorrect, PTL DEF Spec

(* One step leaves the entries that a dispatch can reach in place.         *)
LEMMA InPlaceStep ==
    ASSUME TypeOK, IndexInRange, [Next]_vars,
           NEW n \in 1..Len(frames), n <= Len(frames'),
           NEW k \in 1..frames[n].count
    PROVE  /\ k <= Len(lists'[frames[n].event])
           /\ lists'[frames[n].event][k].fn = lists[frames[n].event][k].fn
           /\ lists'[frames[n].event][k].alive => lists[frames[n].event][k].alive
<1> DEFINE e == frames[n].event
<1>1. TypeOK'
  BY StepType
<1>2. frames[n] \in Frames
  BY DEF TypeOK
<1>3. e \in Events /\ frames[n].count \in Nat
  BY <1>2 DEF Frames
<1>4. Len(lists[e]) \in Nat /\ Len(lists'[e]) \in Nat
  BY <1>1, <1>3 DEF TypeOK
<1>5. frames' # << >>
  <2>1. frames \in Seq(Frames) /\ Len(frames) \in Nat
    BY DEF TypeOK
  <2>2. Len(frames') # 0
    BY <2>1
  <2> QED BY <2>2
<1>6. frames[n].count <= Len(lists[e])
  BY DEF IndexInRange
<1> HIDE DEF e
<1>7. k \in 1..Len(lists[e])
  BY <1>3, <1>4, <1>6
<1>8. /\ Len(lists[e]) <= Len(lists'[e])
      /\ lists'[e][k].fn = lists[e][k].fn
      /\ lists'[e][k].alive => lists[e][k].alive
  BY <1>3, <1>5, <1>7, EntriesKept
<1>9. k <= Len(lists'[e])
  BY <1>4, <1>7, <1>8
<1> QED BY <1>8, <1>9 DEF e

(***************************************************************************)
(* EntriesStayInPlace: erasing dead entries never moves an entry under an  *)
(* active dispatch, of whatever event.                                     *)
(***************************************************************************)
THEOREM EntriesInPlace == Spec => EntriesStayInPlace
<1> DEFINE Stay == \A n \in 1..Len(frames) : n <= Len(frames') =>
                      LET e == frames[n].event
                      IN \A k \in 1..frames[n].count :
                            /\ k <= Len(lists'[e])
                            /\ lists'[e][k].fn = lists[e][k].fn
                            /\ lists'[e][k].alive => lists[e][k].alive
<1>1. TypeOK /\ IndexInRange /\ [Next]_vars => [Stay]_vars
  BY InPlaceStep
<1> QED BY <1>1, TypeCorrect, IndexesInRange, PTL DEF Spec, EntriesStayInPlace

-----------------------------------------------------------------------------
\* Bindings.

\* BoundOnce of one list.
Once(list) ==
    \A j, k \in 1..Len(list) :
        list[j].alive /\ list[k].alive /\ list[j].fn = list[k].fn => j = k

(* A compaction does not bind a function twice.                            *)
LEMMA OnceCompacted ==
    ASSUME NEW list \in Seq(Handlers), Once(list)
    PROVE  Once(AliveOnly(list))
<1> DEFINE out == AliveOnly(list)
<1>1. /\ \A n \in 1..Len(out) : out[n].alive
      /\ \E from \in [1..Len(out) -> 1..Len(list)] :
            /\ \A n \in 1..Len(out) : out[n] = list[from[n]]
            /\ \A m, n \in 1..Len(out) : from[m] = from[n] => m = n
  BY Compacted
<1> HIDE DEF out
<1>2. PICK from \in [1..Len(out) -> 1..Len(list)] :
         /\ \A n \in 1..Len(out) : out[n] = list[from[n]]
         /\ \A m, n \in 1..Len(out) : from[m] = from[n] => m = n
  BY <1>1
<1>3. ASSUME NEW j \in 1..Len(out), NEW k \in 1..Len(out), out[j].fn = out[k].fn
      PROVE  j = k
  <2>1. from[j] \in 1..Len(list) /\ from[k] \in 1..Len(list)
    OBVIOUS
  <2>2. list[from[j]].alive /\ list[from[k]].alive /\ list[from[j]].fn = list[from[k]].fn
    BY <1>1, <1>2, <1>3
  <2>3. from[j] = from[k]
    BY <2>1, <2>2 DEF Once
  <2> QED BY <1>2, <2>3
<1> QED BY <1>3 DEF Once, out

(* Unbinding does not bind a function twice.                               *)
LEMMA OnceMarked ==
    ASSUME TypeOK, BoundOnce, NEW e \in Events, NEW k \in 1..Len(lists[e]), NEW d \in Events
    PROVE  Once([lists EXCEPT ![e][k].alive = FALSE][d])
<1> DEFINE new == [lists EXCEPT ![e][k].alive = FALSE]
<1>1. /\ Len(new[d]) = Len(lists[d])
      /\ \A j \in 1..Len(lists[d]) :
            /\ new[d][j].fn = lists[d][j].fn
            /\ new[d][j].alive => lists[d][j].alive
  BY AfterMark
<1> HIDE DEF new
<1>2. Once(new[d])
  BY <1>1 DEF Once, BoundOnce
<1> QED BY <1>2 DEF new

(* Binding adds an entry only for a function that has none.                *)
LEMMA OnceBound ==
    ASSUME TypeOK, BoundOnce, NEW e \in Events, NEW f \in Functions, Bind(e, f), NEW d \in Events
    PROVE  Once(lists'[d])
<1>0. Len(lists[d]) \in Nat
  BY DEF TypeOK
<1>1. /\ Len(lists'[d]) = IF d = e THEN Len(lists[d]) + 1 ELSE Len(lists[d])
      /\ \A j \in 1..Len(lists[d]) : lists'[d][j] = lists[d][j]
      /\ d = e => lists'[d][Len(lists[d]) + 1].fn = f
  <2>1. /\ Len(lists'[d]) = IF d = e THEN Len(lists[d]) + 1 ELSE Len(lists[d])
        /\ \A j \in 1..Len(lists[d]) : lists'[d][j] = lists[d][j]
        /\ lists'[e][Len(lists[e]) + 1] = [fn |-> f, alive |-> TRUE]
    BY AfterBind DEF Bind
  <2> QED BY <2>1
<1>2. \A j \in 1..Len(lists[e]) : ~(lists[e][j].alive /\ lists[e][j].fn = f)
  BY DEF Bind, BoundAt
<1>3. CASE d # e
  BY <1>1, <1>3 DEF Once, BoundOnce
<1>4. CASE d = e
  <2> SUFFICES ASSUME NEW j \in 1..(Len(lists[d]) + 1), NEW k \in 1..(Len(lists[d]) + 1),
                      lists'[d][j].alive, lists'[d][k].alive, lists'[d][j].fn = lists'[d][k].fn
               PROVE  j = k
    BY <1>1, <1>4 DEF Once
  <2>1. j \in 1..Len(lists[d]) \/ j = Len(lists[d]) + 1
    BY <1>0
  <2>2. k \in 1..Len(lists[d]) \/ k = Len(lists[d]) + 1
    BY <1>0
  <2>3. ASSUME j \in 1..Len(lists[d]), k \in 1..Len(lists[d])
        PROVE  j = k
    BY <1>1, <2>3 DEF BoundOnce
  <2>4. ~(j \in 1..Len(lists[d]) /\ k = Len(lists[d]) + 1)
    BY <1>1, <1>2, <1>4
  <2>5. ~(k \in 1..Len(lists[d]) /\ j = Len(lists[d]) + 1)
    BY <1>1, <1>2, <1>4
  <2> QED BY <2>1, <2>2, <2>3, <2>4, <2>5
<1> QED BY <1>3, <1>4

(* Compacting lists without double bindings.                               *)
LEMMA OnceAfterCompact ==
    ASSUME NEW now \in [Events -> Seq(Handlers)], \A d \in Events : Once(now[d]), Compact(now)
    PROVE  \A d \in Events : Once(lists'[d])
<1> SUFFICES ASSUME NEW d \in Events PROVE Once(lists'[d])
  OBVIOUS
<1>1. Once(AliveOnly(now[d]))
  BY OnceCompacted
<1> QED BY <1>1 DEF Compact

(* No step binds a function twice.                                         *)
LEMMA OnceStep ==
    ASSUME TypeOK, BoundOnce, [Next]_vars
    PROVE  BoundOnce'
<1> SUFFICES \A d \in Events : Once(lists'[d])
  BY DEF BoundOnce, Once
<1>0. lists \in [Events -> Seq(Handlers)] /\ \A d \in Events : Once(lists[d])
  BY DEF TypeOK, BoundOnce, Once
<1>1. CASE lists' = lists
  BY <1>0, <1>1
<1>2. ASSUME NEW e \in Events, NEW f \in Functions, Bind(e, f)
      PROVE  \A d \in Events : Once(lists'[d])
  BY <1>2, OnceBound
<1>3. ASSUME NEW e \in Events, NEW f \in Functions, Unbind(e, f)
      PROVE  \A d \in Events : Once(lists'[d])
  <2>1. PICK k \in 1..Len(lists[e]) :
           LET marked == [lists EXCEPT ![e][k].alive = FALSE]
           IN IF frames = << >> THEN Compact(marked)
              ELSE lists' = marked /\ needs_compaction' = TRUE
    BY <1>3, Zenon DEF Unbind
  <2> DEFINE marked == [lists EXCEPT ![e][k].alive = FALSE]
  <2>2. marked \in [Events -> Seq(Handlers)]
    BY AfterMark, Zenon
  <2>3. \A d \in Events : Once(marked[d])
    BY OnceMarked
  <2>4. Compact(marked) \/ lists' = marked
    BY <2>1
  <2> HIDE DEF marked
  <2> QED BY <2>2, <2>3, <2>4, OnceAfterCompact
<1>4. ASSUME \/ \E e \in Events : Dispatch(e)
             \/ DispatchEnds
      PROVE  lists' = lists \/ Compact(lists)
  BY <1>4, Zenon DEF Dispatch, DispatchEnds, Finish
<1>5. CASE Compact(lists)
  BY <1>0, <1>5, OnceAfterCompact
<1>6. CASE Clear
  BY <1>6 DEF Clear, Once
<1>7. ASSUME \/ \E e \in Events : Create(e)
             \/ Cancel \/ CallNext \/ CallThrows \/ UNCHANGED vars
      PROVE  lists' = lists
  BY <1>7 DEF Create, Cancel, CallNext, CallThrows, vars
<1> QED BY <1>1, <1>2, <1>3, <1>4, <1>5, <1>6, <1>7 DEF Next

(***************************************************************************)
(* BoundOnce: Event.bind refuses a function that is bound, and no order of *)
(* unbinding, binding again and compacting makes a second live entry.      *)
(***************************************************************************)
THEOREM FunctionsBoundOnce == Spec => []BoundOnce
<1>1. Init => BoundOnce
  BY DEF Init, BoundOnce
<1>2. TypeOK /\ BoundOnce /\ [Next]_vars => BoundOnce'
  BY OnceStep
<1> QED BY <1>1, <1>2, TypeCorrect, PTL DEF Spec

(* A compaction leaves no dead entry.                                      *)
LEMMA NoneDead ==
    ASSUME NEW now \in [Events -> Seq(Handlers)], Compact(now)
    PROVE  DeadEntriesFlagged'
<1>1. \A d \in Events : \A k \in 1..Len(AliveOnly(now[d])) : AliveOnly(now[d])[k].alive
  BY Compacted
<1> QED BY <1>1 DEF Compact, DeadEntriesFlagged

(* No step forgets a dead entry.                                           *)
LEMMA FlagStep ==
    ASSUME TypeOK, DeadEntriesFlagged, [Next]_vars
    PROVE  DeadEntriesFlagged'
<1>0. lists \in [Events -> Seq(Handlers)]
  BY DEF TypeOK
<1>1. CASE lists' = lists /\ needs_compaction' = needs_compaction
  BY <1>1 DEF DeadEntriesFlagged
<1>2. ASSUME NEW e \in Events, NEW f \in Functions, Bind(e, f)
      PROVE  DeadEntriesFlagged'
  <2> SUFFICES ASSUME NEW d \in Events, NEW k \in 1..Len(lists'[d]), ~lists'[d][k].alive
               PROVE  needs_compaction'
    BY DEF DeadEntriesFlagged
  <2>1. /\ Len(lists'[d]) = IF d = e THEN Len(lists[d]) + 1 ELSE Len(lists[d])
        /\ \A j \in 1..Len(lists[d]) : lists'[d][j] = lists[d][j]
        /\ lists'[e][Len(lists[e]) + 1] = [fn |-> f, alive |-> TRUE]
    BY <1>2, AfterBind DEF Bind
  <2>2. Len(lists[d]) \in Nat
    BY <1>0
  <2>3. ~(d = e /\ k = Len(lists[e]) + 1)
    BY <2>1
  <2>4. k \in 1..Len(lists[d])
    BY <2>1, <2>2, <2>3
  <2>5. ~lists[d][k].alive
    BY <2>1, <2>4
  <2> QED BY <1>2, <2>4, <2>5 DEF Bind, DeadEntriesFlagged
<1>3. ASSUME NEW e \in Events, NEW f \in Functions, Unbind(e, f)
      PROVE  DeadEntriesFlagged'
  <2>1. PICK k \in 1..Len(lists[e]) :
           LET marked == [lists EXCEPT ![e][k].alive = FALSE]
           IN IF frames = << >> THEN Compact(marked)
              ELSE lists' = marked /\ needs_compaction' = TRUE
    BY <1>3 DEF Unbind
  <2> DEFINE marked == [lists EXCEPT ![e][k].alive = FALSE]
  <2>2. marked \in [Events -> Seq(Handlers)]
    BY AfterMark
  <2>3. Compact(marked) \/ needs_compaction' = TRUE
    BY <2>1
  <2> HIDE DEF marked
  <2>4. CASE needs_compaction' = TRUE
    BY <2>4 DEF DeadEntriesFlagged
  <2> QED BY <2>2, <2>3, <2>4, NoneDead, Zenon
<1>4. ASSUME \/ \E e \in Events : Dispatch(e)
             \/ DispatchEnds
      PROVE  (lists' = lists /\ needs_compaction' = needs_compaction) \/ Compact(lists)
  BY <1>4, Zenon DEF Dispatch, DispatchEnds, Finish
<1>5. CASE Compact(lists)
  BY <1>0, <1>5, NoneDead
<1>6. CASE Clear
  BY <1>6 DEF Clear, DeadEntriesFlagged
<1>7. ASSUME \/ \E e \in Events : Create(e)
             \/ Cancel \/ CallNext \/ CallThrows \/ UNCHANGED vars
      PROVE  lists' = lists /\ needs_compaction' = needs_compaction
  BY <1>7 DEF Create, Cancel, CallNext, CallThrows, vars
<1> QED BY <1>1, <1>2, <1>3, <1>4, <1>5, <1>6, <1>7 DEF Next

(***************************************************************************)
(* DeadEntriesFlagged: an entry that Unbind left dead is not forgotten,    *)
(* not even when a throwing call pops its dispatch without compacting.     *)
(***************************************************************************)
THEOREM DeadEntriesRemembered == Spec => []DeadEntriesFlagged
<1>1. Init => DeadEntriesFlagged
  BY DEF Init, DeadEntriesFlagged
<1>2. TypeOK /\ DeadEntriesFlagged /\ [Next]_vars => DeadEntriesFlagged'
  BY FlagStep
<1> QED BY <1>1, <1>2, TypeCorrect, PTL DEF Spec

-----------------------------------------------------------------------------
\* Live functions of a part of a list.

(* A handler has a function.                                               *)
LEMMA HandlerFn ==
    ASSUME NEW list \in Seq(Handlers), NEW k \in 1..Len(list)
    PROVE  list[k].fn \in Functions
<1>1. list[k] \in Handlers
  OBVIOUS
<1> QED BY <1>1 DEF Handlers

(* The live functions are functions; there are none when no entry is live. *)
LEMMA LiveType ==
    ASSUME NEW list \in Seq(Handlers), NEW first \in Nat \ {0}, NEW last \in Nat, last <= Len(list)
    PROVE  /\ LiveFunctions(list, first, last) \in Seq(Functions)
           /\ LiveFunctions(list, first, last) = << >> <=> \A k \in first..last : ~list[k].alive
           /\ \A n \in 1..Len(LiveFunctions(list, first, last)) :
                 \E k \in first..last : list[k].alive /\ LiveFunctions(list, first, last)[n] = list[k].fn
           /\ \A k \in first..last : list[k].alive =>
                 \E n \in 1..Len(LiveFunctions(list, first, last)) :
                    LiveFunctions(list, first, last)[n] = list[k].fn
<1> DEFINE len == Len(list)
           S == {k \in first..last : list[k].alive}
           names == [k \in 1..len |-> list[k].fn]
           out == Selected(names, S)
<1>1. len \in Nat /\ S \in SUBSET (1..len)
  OBVIOUS
<1>2. \A k \in 1..len : names[k] = list[k].fn /\ names[k] \in Functions
  BY HandlerFn
<1>3. \A k \in S : k \in 1..len /\ k \in first..last /\ list[k].alive
  BY <1>1
<1>4. S = {} <=> \A k \in first..last : ~list[k].alive
  OBVIOUS
<1>5. \A k \in first..last : list[k].alive => k \in S
  OBVIOUS
<1> HIDE DEF S, names, len
<1>6. \A k \in S : names[k] \in Functions /\ names[k] = list[k].fn
  BY <1>2, <1>3
<1>7. /\ out \in Seq(Functions)
      /\ out = << >> <=> S = {}
      /\ \A n \in 1..Len(out) : \E k \in S : out[n] = names[k]
      /\ \A k \in S : \E n \in 1..Len(out) : out[n] = names[k]
  BY <1>1, <1>6, SelectedType, Zenon
<1>8. LiveFunctions(list, first, last) = out
  BY DEF LiveFunctions, S, names, len
<1> HIDE DEF out
<1>9. \A n \in 1..Len(out) : \E k \in first..last : list[k].alive /\ out[n] = list[k].fn
  BY <1>3, <1>6, <1>7, ZenonT(60)
<1>10. \A k \in first..last : list[k].alive => \E n \in 1..Len(out) : out[n] = list[k].fn
  BY <1>5, <1>6, <1>7
<1> QED BY <1>4, <1>7, <1>8, <1>9, <1>10, Zenon

(* Only the entries of the part matter.                                    *)
LEMMA LiveSame ==
    ASSUME NEW list \in Seq(Handlers), NEW new \in Seq(Handlers),
           NEW first \in Nat \ {0}, NEW last \in Nat, last <= Len(list), last <= Len(new),
           \A k \in first..last : new[k] = list[k]
    PROVE  LiveFunctions(new, first, last) = LiveFunctions(list, first, last)
<1> DEFINE len == Len(list)
           S == {k \in first..last : list[k].alive}
           names == [k \in 1..len |-> list[k].fn]
           newNames == [k \in 1..Len(new) |-> new[k].fn]
<1>1. len \in Nat /\ S \in SUBSET (1..len)
  OBVIOUS
<1>2. {k \in first..last : new[k].alive} = S
  OBVIOUS
<1>3. \A k \in S : k \in 1..len /\ k \in 1..Len(new) /\ new[k] = list[k]
  OBVIOUS
<1>4. \A k \in S : newNames[k] = names[k]
  BY <1>3
<1> HIDE DEF S, names, newNames, len
<1>5. Selected(newNames, S) = Selected(names, S)
  BY <1>1, <1>4, SelectedSame, Zenon
<1> QED BY <1>2, <1>5, Zenon DEF LiveFunctions, S, names, newNames, len

(* A live entry at the end.                                                *)
LEMMA LiveAppend ==
    ASSUME NEW list \in Seq(Handlers), NEW new \in Seq(Handlers), Len(new) = Len(list) + 1,
           \A k \in 1..Len(list) : new[k] = list[k], new[Len(list) + 1].alive
    PROVE  LiveFunctions(new, 1, Len(new)) =
           Append(LiveFunctions(list, 1, Len(list)), new[Len(list) + 1].fn)
<1> DEFINE len == Len(list)
           S == {k \in 1..len : list[k].alive}
           names == [k \in 1..(len + 1) |-> new[k].fn]
<1>1. len \in Nat /\ S \in SUBSET (1..len)
  OBVIOUS
<1>2. {k \in 1..Len(new) : new[k].alive} = S \cup {len + 1}
  <2>1. \A k \in 1..(len + 1) : k \in 1..len \/ k = len + 1
    OBVIOUS
  <2>2. \A k \in 1..len : k \in 1..(len + 1)
    OBVIOUS
  <2>3. len + 1 \in 1..(len + 1)
    OBVIOUS
  <2> QED BY <2>1, <2>2, <2>3
<1>3. \A k \in 1..(len + 1) : names[k] \in Functions
  BY HandlerFn
<1>4. len + 1 \in 1..(len + 1) /\ \A k \in S : k \in 1..(len + 1)
  BY <1>1
<1>5. LiveFunctions(new, 1, Len(new)) = Selected(names, S \cup {len + 1})
  BY <1>2, Zenon DEF LiveFunctions
<1>6. LiveFunctions(list, 1, len) = LiveFunctions(new, 1, len)
  <2>1. 1 \in Nat \ {0} /\ len <= Len(list) /\ len <= Len(new) /\ \A k \in 1..len : new[k] = list[k]
    OBVIOUS
  <2> HIDE DEF len
  <2> QED BY <1>1, <2>1, LiveSame
<1>7. LiveFunctions(new, 1, len) = Selected(names, S)
  <2>1. {k \in 1..len : new[k].alive} = S
    OBVIOUS
  <2> QED BY <2>1, Zenon DEF LiveFunctions
<1>8. names[len + 1] = new[len + 1].fn
  BY <1>4
<1>9. \A k \in S : names[k] \in Functions
  BY <1>3, <1>4
<1>10. names[len + 1] \in Functions
  BY <1>3, <1>4
<1> HIDE DEF S, names
<1>11. Selected(names, S \cup {len + 1}) = Append(Selected(names, S), names[len + 1])
  <2> HIDE DEF len
  <2> QED BY <1>1, <1>9, <1>10, SelectedMore, Zenon
<1> QED BY <1>5, <1>6, <1>7, <1>8, <1>11, Zenon

(* An entry that was marked dead.                                          *)
LEMMA LiveMarked ==
    ASSUME NEW list \in Seq(Handlers), NEW new \in Seq(Handlers), Len(new) = Len(list), Once(list),
           NEW k \in 1..Len(list), list[k].alive, ~new[k].alive,
           \A j \in 1..Len(list) : j # k => new[j] = list[j],
           NEW first \in Nat \ {0}, NEW last \in Nat, last <= Len(list)
    PROVE  LiveFunctions(new, first, last) =
           Abstract!Without(LiveFunctions(list, first, last), list[k].fn)
<1> DEFINE len == Len(list)
           f == list[k].fn
           S == {j \in first..last : list[j].alive}
           names == [j \in 1..len |-> list[j].fn]
           newNames == [j \in 1..len |-> new[j].fn]
           out == Selected(names, S)
           U == Others(names, S, f)
<1>1. len \in Nat /\ S \in SUBSET (1..len) /\ U \in SUBSET (1..len)
  BY DEF Others
<1>2. \A j \in 1..len : names[j] = list[j].fn /\ names[j] \in Functions
  BY HandlerFn
<1>3. \A j \in 1..len : list[j].alive /\ names[j] = f => j = k
  BY DEF Once
<1>4. {j \in first..last : new[j].alive} = U
  <2>1. ASSUME NEW j \in first..last PROVE new[j].alive <=> j \in U
    <3>1. j \in 1..len /\ (j \in U <=> list[j].alive /\ names[j] # f)
      BY DEF Others
    <3>2. CASE j = k
      <4>1. names[j] = f
        BY <3>1, <3>2
      <4> QED BY <3>1, <3>2, <4>1
    <3>3. CASE j # k
      <4>1. new[j] = list[j]
        BY <3>1, <3>3
      <4>2. list[j].alive => names[j] # f
        BY <1>3, <3>1, <3>3
      <4> QED BY <3>1, <4>1, <4>2
    <3> QED BY <3>2, <3>3
  <2>2. \A j \in U : j \in first..last
    BY DEF Others
  <2> HIDE DEF U
  <2> QED BY <2>1, <2>2
<1>5. \A j \in U : newNames[j] = names[j]
  <2> SUFFICES ASSUME NEW j \in U PROVE newNames[j] = names[j]
    BY Zenon
  <2>1. j \in 1..len /\ j # k
    BY <1>1, <1>2 DEF Others
  <2> QED BY <2>1
<1>6. \A j \in S : names[j] \in Functions
  BY <1>1, <1>2
<1>7. LiveFunctions(new, first, last) = Selected(newNames, U)
  BY <1>4, Zenon DEF LiveFunctions
<1>8. LiveFunctions(list, first, last) = out
  BY DEF LiveFunctions
<1> HIDE DEF S, names, newNames, len, f, U
<1>9. Selected(newNames, U) = Selected(names, U)
  BY <1>1, <1>5, SelectedSame, Zenon
<1>10. Abstract!Without(out, f) = Selected(names, U)
  <2>1. Abstract!Without(Selected(names, S), f) = Selected(names, Others(names, S, f))
    <3>1. len \in Nat /\ S \in SUBSET (1..len)
      BY <1>1
    <3> QED BY ONLY <3>1, SelectedWithout, Zenon
  <2> QED BY <2>1 DEF U
<1> QED BY <1>7, <1>8, <1>9, <1>10 DEF f

(* The next live entry.                                                    *)
LEMMA LiveFirst ==
    ASSUME NEW list \in Seq(Handlers), NEW first \in Nat \ {0}, NEW last \in Nat, last <= Len(list),
           NEW k \in first..last, list[k].alive, \A j \in first..(k - 1) : ~list[j].alive
    PROVE  /\ Head(LiveFunctions(list, first, last)) = list[k].fn
           /\ Tail(LiveFunctions(list, first, last)) = LiveFunctions(list, k + 1, last)
<1> DEFINE len == Len(list)
           S == {j \in first..last : list[j].alive}
           names == [j \in 1..len |-> list[j].fn]
<1>1. len \in Nat /\ S \in SUBSET (1..len) /\ k \in S /\ k \in 1..len
  OBVIOUS
<1>2. \A j \in 1..len : names[j] = list[j].fn /\ names[j] \in Functions
  BY HandlerFn
<1>3. \A j \in S : k <= j
  OBVIOUS
<1>4. {j \in (k + 1)..last : list[j].alive} = S \ {k}
  <2>1. ASSUME NEW j \in S \ {k} PROVE j \in (k + 1)..last /\ list[j].alive
    BY <1>3
  <2>2. ASSUME NEW j \in (k + 1)..last, list[j].alive PROVE j \in S /\ j # k
    BY <2>2
  <2> HIDE DEF S
  <2> QED BY <2>1, <2>2
<1>6. LiveFunctions(list, first, last) = Selected(names, S)
  BY DEF LiveFunctions
<1>7. LiveFunctions(list, k + 1, last) = Selected(names, S \ {k})
  BY <1>4, Zenon DEF LiveFunctions
<1> HIDE DEF S, names, len
<1>8. Head(Selected(names, S)) = names[k] /\ Tail(Selected(names, S)) = Selected(names, S \ {k})
  <2>1. len \in Nat /\ S \in SUBSET (1..len) /\ k \in S /\ \A j \in S : k <= j
    BY <1>1, <1>3
  <2> QED BY ONLY <2>1, SelectedFirst, Zenon
<1> QED BY <1>1, <1>2, <1>6, <1>7, <1>8, Zenon

(* A compaction keeps the live functions and their order.                  *)
LEMMA LiveCompact ==
    ASSUME NEW list \in Seq(Handlers)
    PROVE  LiveFunctions(AliveOnly(list), 1, Len(AliveOnly(list))) = LiveFunctions(list, 1, Len(list))
<1> DEFINE len == Len(list)
           S == {j \in 1..len : list[j].alive}
           names == [j \in 1..len |-> list[j].fn]
           c == InOrder(S)
<1>1. len \in Nat /\ S \in SUBSET (1..len) /\ \A j \in S : list[j] \in Handlers /\ list[j].alive
  OBVIOUS
<1>2. AliveOnly(list) = Selected(list, S)
  BY DEF AliveOnly
<1>3. LiveFunctions(list, 1, Len(list)) = Selected(names, S)
  BY DEF LiveFunctions
<1>4. \A j \in S : names[j] = list[j].fn
  OBVIOUS
<1> HIDE DEF S, names, len
<1>5. PICK m \in Nat : c \in [1..m -> S] /\ Lists(c, S)
  BY <1>1, InOrderLists, Zenon
<1>6. /\ Selected(list, S) = [n \in 1..m |-> list[c[n]]]
      /\ Selected(names, S) = [n \in 1..m |-> names[c[n]]]
  BY <1>5 DEF Selected
<1> HIDE DEF c
<1> DEFINE out == AliveOnly(list)
           R == {n \in 1..m : out[n].alive}
           id == [n \in 1..m |-> n]
           outNames == [n \in 1..m |-> out[n].fn]
<1>7. out \in [1..m -> Handlers] /\ \A n \in 1..m : out[n] = list[c[n]] /\ out[n].alive
  <2>1. \A n \in 1..m : c[n] \in S
    BY <1>5
  <2>2. out = [n \in 1..m |-> list[c[n]]]
    BY <1>2, <1>6
  <2> HIDE DEF out
  <2>3. \A n \in 1..m : list[c[n]] \in Handlers /\ list[c[n]].alive
    BY <1>1, <2>1, Zenon
  <2> QED BY <2>2, <2>3
<1> HIDE DEF out
<1>8. Len(out) = m
  <2>1. out \in Seq(Handlers)
    BY <1>7
  <2> QED BY <1>7, <2>1
<1>9. R = 1..m
  BY <1>7
<1>10. LiveFunctions(out, 1, Len(out)) = Selected(outNames, 1..m)
  BY <1>8, <1>9, Zenon DEF LiveFunctions
<1>11. InOrder(1..m) = id
  <2>1. id \in [1..m -> 1..m] /\ Lists(id, 1..m) /\ 1..m \in SUBSET (1..m)
    BY DEF Lists
  <2> HIDE DEF id
  <2> QED BY <2>1, InOrderIs, Zenon
<1>12. Selected(outNames, 1..m) = [n \in 1..m |-> outNames[n]]
  BY <1>11 DEF Selected
<1>13. \A n \in 1..m : outNames[n] = names[c[n]]
  <2> SUFFICES ASSUME NEW n \in 1..m PROVE outNames[n] = names[c[n]]
    OBVIOUS
  <2>1. c[n] \in S
    BY <1>5
  <2>2. outNames[n] = list[c[n]].fn
    BY <1>7
  <2> QED BY <1>4, <2>1, <2>2
<1>14. Selected(outNames, 1..m) = Selected(names, S)
  BY <1>6, <1>12, <1>13
<1> QED BY <1>3, <1>10, <1>14 DEF out

-----------------------------------------------------------------------------
\* The refinement.  The mapping as operators of the lists and the frames, so
\* that what holds of it holds before and after a step.

AbstractFrame(ls, frame) ==
    [event     |-> frame.event,
     current   |-> ls[frame.event][frame.i].fn,
     todo      |-> LiveFunctions(ls[frame.event], frame.i + 1, frame.count),
     cancelled |-> frame.cancelled]

AbstractBound(ls) == [e \in Events |-> LiveFunctions(ls[e], 1, Len(ls[e]))]

AbstractFrames(ls, fs) == [n \in 1..Len(fs) |-> AbstractFrame(ls, fs[n])]

AbstractDispatches == [event : Events, current : Functions, todo : Seq(Functions), cancelled : BOOLEAN]

\* A frame within its list.
InList(ls, frame) == frame.i \in 1..frame.count /\ frame.count <= Len(ls[frame.event])

ListsType(ls) == ls \in [Events -> Seq(Handlers)]

(* The mapping before the step.                                            *)
LEMMA MappingNow == bound = AbstractBound(lists) /\ dispatches = AbstractFrames(lists, frames)
BY DEF bound, dispatches, AbstractBound, AbstractFrames, AbstractFrame

(* The mapping after the step.                                             *)
LEMMA MappingNext == bound' = AbstractBound(lists') /\ dispatches' = AbstractFrames(lists', frames')
BY DEF bound, dispatches, AbstractBound, AbstractFrames, AbstractFrame

(* A dispatch as EventDispatch sees it.                                    *)
LEMMA FrameMapped ==
    ASSUME NEW ls, ListsType(ls), NEW frame \in Frames, InList(ls, frame)
    PROVE  /\ AbstractFrame(ls, frame) \in AbstractDispatches
           /\ frame.event \in Events /\ ls[frame.event] \in Seq(Handlers)
           /\ frame.i \in Nat \ {0} /\ frame.count \in Nat /\ frame.i \in 1..Len(ls[frame.event])
           /\ frame.i + 1 \in Nat \ {0}
<1> DEFINE e == frame.event
           list == ls[e]
<1>1. e \in Events /\ frame.i \in Nat \ {0} /\ frame.count \in Nat /\ frame.cancelled \in BOOLEAN
  BY DEF Frames
<1>2. list \in Seq(Handlers)
  BY <1>1 DEF ListsType
<1>3. frame.i \in 1..frame.count /\ frame.count <= Len(list)
  BY DEF InList
<1> HIDE DEF list
<1>4. Len(list) \in Nat
  BY <1>2
<1>5. frame.i \in 1..Len(list) /\ frame.i + 1 \in Nat \ {0}
  BY <1>1, <1>3, <1>4
<1>6. list[frame.i].fn \in Functions
  BY <1>2, <1>5, HandlerFn
<1>7. LiveFunctions(list, frame.i + 1, frame.count) \in Seq(Functions)
  BY <1>1, <1>2, <1>3, <1>5, LiveType
<1>8. AbstractFrame(ls, frame) \in AbstractDispatches
  BY <1>1, <1>6, <1>7, ZenonT(60) DEF AbstractFrame, AbstractDispatches, list
<1> QED BY <1>1, <1>2, <1>5, <1>8 DEF list

(* A dispatch whose list only grew.                                        *)
LEMMA FrameKept ==
    ASSUME NEW ls, ListsType(ls), NEW frame \in Frames, InList(ls, frame), NEW new, ListsType(new),
           Len(ls[frame.event]) <= Len(new[frame.event]),
           \A j \in 1..Len(ls[frame.event]) : new[frame.event][j] = ls[frame.event][j]
    PROVE  AbstractFrame(new, frame) = AbstractFrame(ls, frame)
<1> DEFINE e == frame.event
           list == ls[e]
           list2 == new[e]
<1>1. /\ e \in Events /\ list \in Seq(Handlers)
      /\ frame.i \in Nat \ {0} /\ frame.count \in Nat /\ frame.i \in 1..Len(list)
      /\ frame.i + 1 \in Nat \ {0}
  BY FrameMapped
<1>2. frame.count <= Len(list)
  BY DEF InList
<1>3. list2 \in Seq(Handlers)
  BY <1>1 DEF ListsType
<1>4. Len(list) <= Len(list2) /\ \A j \in 1..Len(list) : list2[j] = list[j]
  OBVIOUS
<1> HIDE DEF list, list2, e
<1>5. Len(list) \in Nat /\ Len(list2) \in Nat
  BY <1>1, <1>3
<1>6. frame.count <= Len(list2) /\ \A k \in (frame.i + 1)..frame.count : list2[k] = list[k]
  BY <1>1, <1>2, <1>4, <1>5
<1>7. LiveFunctions(list2, frame.i + 1, frame.count) = LiveFunctions(list, frame.i + 1, frame.count)
  BY <1>1, <1>2, <1>3, <1>6, LiveSame, Zenon
<1>8. list2[frame.i].fn = list[frame.i].fn
  BY <1>1, <1>4
<1> QED BY <1>7, <1>8, Zenon DEF AbstractFrame, list, list2, e

(* A dispatch after an entry was marked dead.                              *)
LEMMA FrameMarked ==
    ASSUME NEW ls, ListsType(ls), NEW frame \in Frames, InList(ls, frame), NEW new, ListsType(new),
           NEW e \in Events, Once(ls[e]), NEW k \in 1..Len(ls[e]), ls[e][k].alive, ~new[e][k].alive,
           new[e][k].fn = ls[e][k].fn, Len(new[e]) = Len(ls[e]),
           \A j \in 1..Len(ls[e]) : j # k => new[e][j] = ls[e][j],
           \A d \in Events : d # e => new[d] = ls[d]
    PROVE  AbstractFrame(new, frame) =
           IF AbstractFrame(ls, frame).event = e
           THEN [AbstractFrame(ls, frame) EXCEPT !.todo = Abstract!Without(@, ls[e][k].fn)]
           ELSE AbstractFrame(ls, frame)
<1>1. /\ frame.event \in Events /\ ls[frame.event] \in Seq(Handlers)
      /\ frame.i \in Nat \ {0} /\ frame.count \in Nat /\ frame.i \in 1..Len(ls[frame.event])
      /\ frame.i + 1 \in Nat \ {0}
  BY FrameMapped
<1>2. AbstractFrame(ls, frame).event = frame.event
  BY Zenon DEF AbstractFrame
<1>3. CASE frame.event # e
  BY <1>1, <1>2, <1>3 DEF AbstractFrame
<1>4. CASE frame.event = e
  <2> DEFINE list == ls[e]
             list2 == new[e]
  <2>1. list \in Seq(Handlers) /\ list2 \in Seq(Handlers)
    BY DEF ListsType
  <2>2. frame.count <= Len(list)
    BY <1>4 DEF InList
  <2>3. /\ Once(list) /\ k \in 1..Len(list) /\ list[k].alive /\ ~list2[k].alive
        /\ Len(list2) = Len(list) /\ list2[k].fn = list[k].fn
        /\ \A j \in 1..Len(list) : j # k => list2[j] = list[j]
    OBVIOUS
  <2>4. /\ frame.i \in 1..Len(list) /\ frame.i + 1 \in Nat \ {0} /\ frame.count \in Nat
    BY <1>1, <1>4
  <2> HIDE DEF list, list2
  <2>5. LiveFunctions(list2, frame.i + 1, frame.count) =
        Abstract!Without(LiveFunctions(list, frame.i + 1, frame.count), list[k].fn)
    BY <2>1, <2>2, <2>3, <2>4, LiveMarked
  <2>6. list2[frame.i].fn = list[frame.i].fn
    BY <2>3, <2>4
  <2> QED BY <1>2, <1>4, <2>5, <2>6 DEF AbstractFrame, list, list2
<1> QED BY <1>3, <1>4

(* The dispatches in progress as EventDispatch sees them.                  *)
LEMMA FramesMapped ==
    ASSUME TypeOK, IndexInRange
    PROVE  /\ ListsType(lists) /\ frames \in Seq(Frames) /\ Len(frames) \in Nat
           /\ \A n \in 1..Len(frames) : frames[n] \in Frames /\ InList(lists, frames[n])
           /\ dispatches \in Seq(AbstractDispatches) /\ Len(dispatches) = Len(frames)
           /\ \A n \in 1..Len(frames) : dispatches[n] = AbstractFrame(lists, frames[n])
<1>1. ListsType(lists) /\ frames \in Seq(Frames) /\ Len(frames) \in Nat
  BY DEF TypeOK, ListsType
<1>2. \A n \in 1..Len(frames) : frames[n] \in Frames /\ InList(lists, frames[n])
  BY <1>1 DEF IndexInRange, InList
<1>3. \A n \in 1..Len(frames) : AbstractFrame(lists, frames[n]) \in AbstractDispatches
  BY <1>1, <1>2, FrameMapped
<1>4. dispatches = [n \in 1..Len(frames) |-> AbstractFrame(lists, frames[n])]
  BY MappingNow DEF AbstractFrames
<1> DEFINE ds == dispatches
<1>5. ds \in [1..Len(frames) -> AbstractDispatches] /\ \A n \in 1..Len(frames) : ds[n] = AbstractFrame(lists, frames[n])
  BY <1>3, <1>4
<1> HIDE DEF ds
<1>6. ds \in Seq(AbstractDispatches) /\ Len(ds) = Len(frames)
  BY <1>1, <1>5
<1> QED BY <1>1, <1>2, <1>5, <1>6 DEF ds

(* The bound functions as EventDispatch sees them.                         *)
LEMMA BoundMapped ==
    ASSUME TypeOK, NEW e \in Events
    PROVE  /\ lists[e] \in Seq(Handlers) /\ Len(lists[e]) \in Nat
           /\ bound[e] = LiveFunctions(lists[e], 1, Len(lists[e]))
           /\ bound[e] \in Seq(Functions)
           /\ bound[e] = << >> <=> \A k \in 1..Len(lists[e]) : ~lists[e][k].alive
           /\ \A n \in 1..Len(bound[e]) : \E k \in 1..Len(lists[e]) :
                 lists[e][k].alive /\ bound[e][n] = lists[e][k].fn
           /\ \A k \in 1..Len(lists[e]) : lists[e][k].alive =>
                 \E n \in 1..Len(bound[e]) : bound[e][n] = lists[e][k].fn
<1> DEFINE list == lists[e]
           out == LiveFunctions(list, 1, Len(list))
<1>1. list \in Seq(Handlers)
  BY DEF TypeOK
<1>2. bound[e] = out
  BY MappingNow DEF AbstractBound
<1> HIDE DEF list
<1>3. Len(list) \in Nat /\ Len(list) <= Len(list) /\ 1 \in Nat \ {0}
  BY <1>1
<1>4. /\ out \in Seq(Functions)
      /\ out = << >> <=> \A k \in 1..Len(list) : ~list[k].alive
      /\ \A n \in 1..Len(out) : \E k \in 1..Len(list) : list[k].alive /\ out[n] = list[k].fn
      /\ \A k \in 1..Len(list) : list[k].alive => \E n \in 1..Len(out) : out[n] = list[k].fn
  BY <1>1, <1>3, LiveType
<1> HIDE DEF out
<1> QED BY <1>1, <1>2, <1>3, <1>4 DEF list, out

(* Event.bind.                                                             *)
LEMMA BindRefines ==
    ASSUME TypeOK, IndexInRange, NEW e \in Events, NEW f \in Functions, Bind(e, f)
    PROVE  Abstract!Bind(e, f)
<1>1. /\ lists' \in [Events -> Seq(Handlers)]
      /\ \A d \in Events : /\ Len(lists'[d]) = IF d = e THEN Len(lists[d]) + 1 ELSE Len(lists[d])
                          /\ \A j \in 1..Len(lists[d]) : lists'[d][j] = lists[d][j]
      /\ lists'[e][Len(lists[e]) + 1] = [fn |-> f, alive |-> TRUE]
  <2>1. lists' = [lists EXCEPT ![e] = Append(@, [fn |-> f, alive |-> TRUE])]
    BY DEF Bind
  <2>2. lists' \in [Events -> Seq(Handlers)]
    BY <2>1, AfterBind, Zenon
  <2>3. ASSUME NEW d \in Events
        PROVE  /\ Len(lists'[d]) = IF d = e THEN Len(lists[d]) + 1 ELSE Len(lists[d])
               /\ \A j \in 1..Len(lists[d]) : lists'[d][j] = lists[d][j]
    BY <2>1, AfterBind
  <2>4. lists'[e][Len(lists[e]) + 1] = [fn |-> f, alive |-> TRUE]
    BY <2>1, AfterBind
  <2> QED BY <2>2, <2>3, <2>4
<1>2. ListsType(lists')
  BY <1>1 DEF ListsType
<1>3. \A k \in 1..Len(bound[e]) : bound[e][k] # f
  <2>1. \A k \in 1..Len(lists[e]) : ~(lists[e][k].alive /\ lists[e][k].fn = f)
    BY DEF Bind, BoundAt
  <2>2. \A n \in 1..Len(bound[e]) : \E k \in 1..Len(lists[e]) :
           lists[e][k].alive /\ bound[e][n] = lists[e][k].fn
    BY BoundMapped
  <2> QED BY <2>1, <2>2
<1>4. bound' = [bound EXCEPT ![e] = Append(@, f)]
  <2>1. ASSUME NEW d \in Events
        PROVE  LiveFunctions(lists'[d], 1, Len(lists'[d])) = IF d = e THEN Append(bound[e], f) ELSE bound[d]
    <3>1. lists[d] \in Seq(Handlers) /\ Len(lists[d]) \in Nat /\ bound[d] = LiveFunctions(lists[d], 1, Len(lists[d]))
      BY BoundMapped
    <3>2. CASE d # e
      <4>1. lists'[d] = lists[d]
        BY <3>2 DEF Bind, TypeOK
      <4> QED BY <3>1, <3>2, <4>1
    <3>3. CASE d = e
      <4> DEFINE list == lists[e]
                 new == lists'[e]
      <4>1. /\ list \in Seq(Handlers) /\ new \in Seq(Handlers) /\ Len(new) = Len(list) + 1
            /\ \A k \in 1..Len(list) : new[k] = list[k]
            /\ new[Len(list) + 1].alive /\ new[Len(list) + 1].fn = f
        BY <1>1, <3>1, <3>3
      <4> HIDE DEF list, new
      <4>2. LiveFunctions(new, 1, Len(new)) =
            Append(LiveFunctions(list, 1, Len(list)), new[Len(list) + 1].fn)
        BY <4>1, LiveAppend
      <4>3. LiveFunctions(new, 1, Len(new)) = Append(LiveFunctions(list, 1, Len(list)), f)
        BY <4>1, <4>2
      <4> QED BY <3>1, <3>3, <4>3 DEF list, new
    <3> QED BY <3>2, <3>3
  <2>2. bound' = [d \in Events |-> LiveFunctions(lists'[d], 1, Len(lists'[d]))]
    BY MappingNext DEF AbstractBound
  <2>3. bound = [d \in Events |-> bound[d]]
    BY MappingNow DEF AbstractBound
  <2> QED BY <2>1, <2>2, <2>3, ZenonT(60)
<1>5. dispatches' = dispatches
  <2>1. frames' = frames
    BY DEF Bind
  <2>2. ASSUME NEW n \in 1..Len(frames)
        PROVE  AbstractFrame(lists', frames[n]) = AbstractFrame(lists, frames[n])
    <3> DEFINE frame == frames[n]
    <3>1. frame \in Frames /\ InList(lists, frame) /\ ListsType(lists)
      BY FramesMapped
    <3>2. frame.event \in Events
      BY <3>1 DEF Frames
    <3>3. Len(lists[frame.event]) \in Nat
      BY <3>2 DEF TypeOK
    <3> HIDE DEF frame
    <3>4. /\ Len(lists[frame.event]) <= Len(lists'[frame.event])
          /\ \A j \in 1..Len(lists[frame.event]) : lists'[frame.event][j] = lists[frame.event][j]
      BY <1>1, <3>2, <3>3
    <3>5. AbstractFrame(lists', frame) = AbstractFrame(lists, frame)
      BY <1>2, <3>1, <3>4, FrameKept, Zenon
    <3> QED BY <3>5 DEF frame
  <2>3. /\ dispatches' = [n \in 1..Len(frames) |-> AbstractFrame(lists', frames[n])]
        /\ dispatches = [n \in 1..Len(frames) |-> AbstractFrame(lists, frames[n])]
    BY <2>1, MappingNow, MappingNext DEF AbstractFrames
  <2> QED BY <2>2, <2>3
<1> QED BY <1>3, <1>4, <1>5 DEF Abstract!Bind

(* A compaction changes nothing that scripts can see.                      *)
LEMMA CompactSame ==
    ASSUME NEW now, ListsType(now), Compact(now)
    PROVE  bound' = AbstractBound(now)
<1>1. ASSUME NEW e \in Events
      PROVE  LiveFunctions(lists'[e], 1, Len(lists'[e])) = LiveFunctions(now[e], 1, Len(now[e]))
  <2>1. now[e] \in Seq(Handlers)
    BY DEF ListsType
  <2>2. lists'[e] = AliveOnly(now[e])
    BY DEF Compact
  <2> QED BY <2>1, <2>2, LiveCompact
<1>2. bound' = [e \in Events |-> LiveFunctions(lists'[e], 1, Len(lists'[e]))]
  BY MappingNext DEF AbstractBound
<1> QED BY <1>1, <1>2 DEF AbstractBound

(* Event.unbind: no dispatch in progress calls the function any more, and  *)
(* the compaction that may follow is not seen.                             *)
LEMMA UnbindRefines ==
    ASSUME TypeOK, IndexInRange, BoundOnce, NEW e \in Events, NEW f \in Functions, Unbind(e, f)
    PROVE  Abstract!Unbind(e, f)
<1>1. PICK k \in 1..Len(lists[e]) :
         /\ BoundAt(e, k, f)
         /\ LET marked == [lists EXCEPT ![e][k].alive = FALSE]
            IN IF frames = << >> THEN Compact(marked)
               ELSE lists' = marked /\ needs_compaction' = TRUE
  BY Zenon DEF Unbind
<1> DEFINE marked == [lists EXCEPT ![e][k].alive = FALSE]
<1>2. IF frames = << >> THEN Compact(marked) ELSE lists' = marked
  BY <1>1
<1>3. lists[e][k].alive /\ lists[e][k].fn = f
  BY <1>1 DEF BoundAt
<1>4. /\ ListsType(marked)
      /\ Len(marked[e]) = Len(lists[e]) /\ marked[e][k].fn = lists[e][k].fn
      /\ \A j \in 1..Len(lists[e]) : j # k => marked[e][j] = lists[e][j]
  <2>1. marked = [lists EXCEPT ![e][k].alive = FALSE]
    OBVIOUS
  <2> HIDE DEF marked
  <2>2. marked \in [Events -> Seq(Handlers)]
    BY <2>1, AfterMark, Zenon
  <2>3. /\ Len(marked[e]) = Len(lists[e])
        /\ \A j \in 1..Len(lists[e]) :
              /\ marked[e][j].fn = lists[e][j].fn
              /\ ~(e = e /\ j = k) => marked[e][j] = lists[e][j]
    BY <2>1, AfterMark
  <2> QED BY <2>2, <2>3 DEF ListsType
<1>5. \A d \in Events : d # e => marked[d] = lists[d]
  BY DEF TypeOK
<1>6. ~marked[e][k].alive
  <2> DEFINE h == [lists[e][k] EXCEPT !.alive = FALSE]
             list == [lists[e] EXCEPT ![k] = h]
  <2>1. lists[e] \in Seq(Handlers) /\ lists[e][k] \in Handlers
    BY DEF TypeOK
  <2>2. h.alive = FALSE
    BY <2>1 DEF Handlers
  <2>3. marked[e] = list
    BY DEF TypeOK
  <2> HIDE DEF h, marked
  <2>4. list[k] = h
    BY <2>1
  <2> QED BY <2>2, <2>3, <2>4
<1>7. Once(lists[e]) /\ ListsType(lists)
  BY DEF BoundOnce, Once, TypeOK, ListsType
<1> HIDE DEF marked
<1>8. \E n \in 1..Len(bound[e]) : bound[e][n] = f
  <2>1. \A j \in 1..Len(lists[e]) : lists[e][j].alive =>
           \E n \in 1..Len(bound[e]) : bound[e][n] = lists[e][j].fn
    BY BoundMapped
  <2> QED BY <1>3, <2>1
<1>9. bound' = AbstractBound(marked)
  <2>1. CASE frames = << >>
    BY <1>2, <1>4, <2>1, CompactSame
  <2>2. CASE frames # << >>
    BY <1>2, <2>2, MappingNext
  <2> QED BY <2>1, <2>2
<1>10. bound' = [bound EXCEPT ![e] = Abstract!Without(@, f)]
  <2>1. ASSUME NEW d \in Events
        PROVE  LiveFunctions(marked[d], 1, Len(marked[d])) =
               IF d = e THEN Abstract!Without(bound[e], f) ELSE bound[d]
    <3>1. lists[d] \in Seq(Handlers) /\ Len(lists[d]) \in Nat /\ bound[d] = LiveFunctions(lists[d], 1, Len(lists[d]))
      BY BoundMapped
    <3>2. CASE d # e
      BY <1>5, <3>1, <3>2
    <3>3. CASE d = e
      <4> DEFINE list == lists[e]
                 new == marked[e]
      <4>1. /\ list \in Seq(Handlers) /\ new \in Seq(Handlers) /\ Len(new) = Len(list) /\ Once(list)
            /\ k \in 1..Len(list) /\ list[k].alive /\ ~new[k].alive
            /\ \A j \in 1..Len(list) : j # k => new[j] = list[j]
            /\ list[k].fn = f
        BY <1>3, <1>4, <1>6, <1>7, <3>1, <3>3 DEF ListsType
      <4>2. bound[e] = LiveFunctions(list, 1, Len(list))
        BY <3>1, <3>3
      <4> HIDE DEF list, new
      <4>3. Len(list) \in Nat /\ Len(list) <= Len(list) /\ 1 \in Nat \ {0}
        BY <4>1
      <4>4. LiveFunctions(new, 1, Len(list)) =
            Abstract!Without(LiveFunctions(list, 1, Len(list)), list[k].fn)
        BY <4>1, <4>3, LiveMarked
      <4>5. LiveFunctions(new, 1, Len(new)) = Abstract!Without(bound[e], f)
        BY <4>1, <4>2, <4>4
      <4> QED BY <3>3, <4>5 DEF new
    <3> QED BY <3>2, <3>3
  <2>2. bound' = [d \in Events |-> LiveFunctions(marked[d], 1, Len(marked[d]))]
    BY <1>9 DEF AbstractBound
  <2>3. bound = [d \in Events |-> bound[d]]
    BY MappingNow DEF AbstractBound
  <2> QED BY <2>1, <2>2, <2>3
<1>11. dispatches' = [n \in 1..Len(dispatches) |->
            IF dispatches[n].event = e
            THEN [dispatches[n] EXCEPT !.todo = Abstract!Without(@, f)]
            ELSE dispatches[n]]
  <2>1. frames' = frames
    BY DEF Unbind
  <2>2. ASSUME NEW n \in 1..Len(frames)
        PROVE  AbstractFrame(lists', frames[n]) =
               IF dispatches[n].event = e
               THEN [dispatches[n] EXCEPT !.todo = Abstract!Without(@, f)]
               ELSE dispatches[n]
    <3>1. lists' = marked
      <4>1. frames # << >>
        BY FramesMapped
      <4> QED BY <1>2, <4>1
    <3>2. frames[n] \in Frames /\ InList(lists, frames[n]) /\ dispatches[n] = AbstractFrame(lists, frames[n])
      BY FramesMapped
    <3> DEFINE frame == frames[n]
    <3>3. frame \in Frames /\ InList(lists, frame)
      BY <3>2
    <3> HIDE DEF frame
    <3>4. AbstractFrame(marked, frame) =
          IF AbstractFrame(lists, frame).event = e
          THEN [AbstractFrame(lists, frame) EXCEPT !.todo = Abstract!Without(@, lists[e][k].fn)]
          ELSE AbstractFrame(lists, frame)
      BY <1>3, <1>4, <1>5, <1>6, <1>7, <3>3, FrameMarked
    <3> QED BY <1>3, <3>1, <3>2, <3>4 DEF frame
  <2>3. dispatches' = [n \in 1..Len(frames) |-> AbstractFrame(lists', frames[n])]
    BY <2>1, MappingNext DEF AbstractFrames
  <2>4. Len(dispatches) = Len(frames)
    BY FramesMapped
  <2> QED BY <2>2, <2>3, <2>4
<1> QED BY <1>8, <1>10, <1>11 DEF Abstract!Unbind

(* The end of a dispatch: what stays on the stack is what stays of the     *)
(* dispatches, and a compaction is not seen.                               *)
LEMMA FinishRefines ==
    ASSUME TypeOK, NEW rest \in Seq(Frames), Finish(rest)
    PROVE  bound' = bound /\ dispatches' = AbstractFrames(lists, rest)
<1>1. ListsType(lists) /\ frames' = rest
  BY DEF TypeOK, ListsType, Finish
<1>2. CASE lists' = lists
  BY <1>1, <1>2, MappingNow, MappingNext
<1>3. CASE rest = << >> /\ Compact(lists)
  <2>1. bound' = bound
    BY <1>1, <1>3, CompactSame, MappingNow
  <2>2. dispatches' = AbstractFrames(lists', << >>)
    BY <1>1, <1>3, MappingNext
  <2>3. 1..Len(<< >>) = {}
    OBVIOUS
  <2>4. AbstractFrames(lists', << >>) = AbstractFrames(lists, << >>)
    BY <2>3 DEF AbstractFrames
  <2> QED BY <1>3, <2>1, <2>2, <2>4
<1> QED BY <1>2, <1>3 DEF Finish

(* The dispatches without the innermost one.                               *)
LEMMA OuterMapped ==
    ASSUME TypeOK, IndexInRange, frames # << >>
    PROVE  /\ Abstract!Outer = AbstractFrames(lists, Popped)
           /\ dispatches # << >>
           /\ Abstract!Innermost = AbstractFrame(lists, Top)
           /\ Top \in Frames /\ InList(lists, Top) /\ ListsType(lists)
<1>1. /\ ListsType(lists) /\ frames \in Seq(Frames) /\ Len(frames) \in Nat
      /\ \A n \in 1..Len(frames) : frames[n] \in Frames /\ InList(lists, frames[n])
      /\ dispatches \in Seq(AbstractDispatches) /\ Len(dispatches) = Len(frames)
      /\ \A n \in 1..Len(frames) : dispatches[n] = AbstractFrame(lists, frames[n])
  BY FramesMapped
<1>2. /\ Popped \in Seq(Frames) /\ Len(Popped) = Len(frames) - 1
      /\ \A n \in 1..Len(Popped) : n \in 1..Len(frames) /\ Popped[n] = frames[n]
  BY AfterPop
<1>3. Len(frames) \in 1..Len(frames)
  BY <1>1
<1> DEFINE ds == dispatches
           last == Len(frames) - 1
<1>4. last \in Nat /\ \A n \in 1..last : n \in 1..Len(frames)
  BY <1>1, <1>3
<1>5. SubSeq(ds, 1, last) = [n \in 1..last |-> ds[n]]
  <2>1. ds \in Seq(AbstractDispatches) /\ Len(ds) = Len(frames)
    BY <1>1
  <2> HIDE DEF ds, last
  <2>2. \A n \in 1..last : n \in 1..Len(ds) /\ ds[n] \in AbstractDispatches /\ 1 + n - 1 = n
    BY <1>4, <2>1
  <2> DEFINE sub == SubSeq(ds, 1, last)
  <2>3. sub \in Seq(AbstractDispatches) /\ Len(sub) = last /\ \A n \in 1..last : sub[n] = ds[n]
    BY <1>4, <2>1, <2>2
  <2> HIDE DEF sub
  <2>4. sub = [n \in 1..last |-> sub[n]]
    BY <1>4, <2>3
  <2>5. sub = [n \in 1..last |-> ds[n]]
    BY <2>3, <2>4
  <2> QED BY <2>5 DEF sub
<1>6. AbstractFrames(lists, Popped) = [n \in 1..last |-> AbstractFrame(lists, Popped[n])]
  BY <1>2 DEF AbstractFrames
<1>7. \A n \in 1..last : AbstractFrame(lists, Popped[n]) = ds[n]
  BY <1>1, <1>2, <1>4
<1>8. Abstract!Outer = AbstractFrames(lists, Popped)
  BY <1>1, <1>5, <1>6, <1>7 DEF Abstract!Outer
<1>9. Abstract!Innermost = AbstractFrame(lists, Top) /\ Top \in Frames /\ InList(lists, Top)
  BY <1>1, <1>3 DEF Abstract!Innermost, Top
<1>10. dispatches # << >>
  BY <1>1, <1>3
<1> QED BY <1>1, <1>8, <1>9, <1>10

(* Another innermost frame is another innermost dispatch.                  *)
LEMMA TopMapped ==
    ASSUME TypeOK, IndexInRange, frames # << >>, NEW top \in Frames, lists' = lists,
           frames' = [frames EXCEPT ![Len(frames)] = top]
    PROVE  /\ bound' = bound
           /\ dispatches' = [n \in 1..Len(frames) |->
                                IF n = Len(frames) THEN AbstractFrame(lists, top) ELSE dispatches[n]]
<1>1. bound' = bound
  BY MappingNow, MappingNext
<1>2. /\ Len(frames') = Len(frames)
      /\ \A n \in 1..Len(frames) : frames'[n] = IF n = Len(frames) THEN top ELSE frames[n]
  BY TopChanged
<1>3. dispatches' = [n \in 1..Len(frames) |-> AbstractFrame(lists, frames'[n])]
  <2>1. dispatches' = AbstractFrames(lists, frames')
    BY MappingNext
  <2>2. AbstractFrames(lists, frames') = [n \in 1..Len(frames') |-> AbstractFrame(lists, frames'[n])]
    BY DEF AbstractFrames
  <2> QED BY <1>2, <2>1, <2>2, Zenon
<1>4. \A n \in 1..Len(frames) : dispatches[n] = AbstractFrame(lists, frames[n])
  BY FramesMapped
<1>5. \A n \in 1..Len(frames) :
         AbstractFrame(lists, frames'[n]) = IF n = Len(frames) THEN AbstractFrame(lists, top) ELSE dispatches[n]
  <2> SUFFICES ASSUME NEW n \in 1..Len(frames)
               PROVE  AbstractFrame(lists, frames'[n]) =
                      IF n = Len(frames) THEN AbstractFrame(lists, top) ELSE dispatches[n]
    OBVIOUS
  <2>1. CASE n = Len(frames)
    <3>1. frames'[n] = top
      BY <1>2, <2>1
    <3> QED BY <2>1, <3>1
  <2>2. CASE n # Len(frames)
    <3>1. frames'[n] = frames[n]
      BY <1>2, <2>2, Zenon
    <3> QED BY <1>4, <2>2, <3>1
  <2> QED BY <2>1, <2>2
<1> QED BY <1>1, <1>3, <1>5

(* A dispatch that is the same but for its cancel flag.                    *)
LEMMA FlagOnly ==
    ASSUME NEW r \in AbstractDispatches, NEW s \in AbstractDispatches,
           s.event = r.event, s.current = r.current, s.todo = r.todo, s.cancelled = TRUE
    PROVE  s = [r EXCEPT !.cancelled = TRUE]
BY DEF AbstractDispatches

(* A dispatch that calls the first function it had still to call.          *)
LEMMA FirstTaken ==
    ASSUME NEW r \in AbstractDispatches, NEW s \in AbstractDispatches,
           s.event = r.event, s.cancelled = r.cancelled,
           s.current = Head(r.todo), s.todo = Tail(r.todo)
    PROVE  s = [r EXCEPT !.current = Head(r.todo), !.todo = Tail(@)]
BY Zenon DEF AbstractDispatches

(* Event.cancel.                                                           *)
LEMMA CancelRefines ==
    ASSUME TypeOK, IndexInRange, Cancel
    PROVE  Abstract!Cancel
<1> DEFINE top == [Top EXCEPT !.cancelled = TRUE]
           ds == dispatches
<1>0. frames # << >> /\ lists' = lists
  BY DEF Cancel
<1>1. Top \in Frames /\ Top = frames[Len(frames)] /\ Len(frames) \in 1..Len(frames)
  BY <1>0, TopType
<1>2. top \in Frames
  BY <1>1, Zenon DEF Frames
<1>3. frames' = [frames EXCEPT ![Len(frames)] = top]
  BY <1>1 DEF Cancel
<1>4. AbstractFrame(lists, top) = [AbstractFrame(lists, Top) EXCEPT !.cancelled = TRUE]
  <2>1. top.event = Top.event /\ top.i = Top.i /\ top.count = Top.count /\ top.cancelled = TRUE
    BY <1>1 DEF Frames
  <2> HIDE DEF top
  <2>2. /\ AbstractFrame(lists, top).event = AbstractFrame(lists, Top).event
        /\ AbstractFrame(lists, top).current = AbstractFrame(lists, Top).current
        /\ AbstractFrame(lists, top).todo = AbstractFrame(lists, Top).todo
        /\ AbstractFrame(lists, top).cancelled = TRUE
    BY <2>1, Zenon DEF AbstractFrame
  <2>3. Top \in Frames /\ InList(lists, Top) /\ ListsType(lists)
    BY <1>0, OuterMapped
  <2>4. InList(lists, top)
    BY <2>1, <2>3 DEF InList
  <2>5. AbstractFrame(lists, top) \in AbstractDispatches /\ AbstractFrame(lists, Top) \in AbstractDispatches
    BY <1>2, <2>3, <2>4, FrameMapped
  <2> QED BY <2>2, <2>5, FlagOnly, Zenon
<1> HIDE DEF top
<1>5. /\ bound' = bound
      /\ ds' = [n \in 1..Len(frames) |->
                   IF n = Len(frames) THEN AbstractFrame(lists, top) ELSE ds[n]]
  BY <1>0, <1>2, <1>3, TopMapped, Zenon
<1>6. ds \in Seq(AbstractDispatches) /\ Len(ds) = Len(frames) /\ Len(frames) \in Nat
  BY FramesMapped
<1>7. ds[Len(frames)] = AbstractFrame(lists, Top)
  BY <1>1, FramesMapped
<1>8. ds = [n \in 1..Len(frames) |-> ds[n]]
  <2> HIDE DEF ds
  <2> QED BY <1>6
<1>9. dispatches # << >>
  BY <1>0, OuterMapped
<1>10. ds' = [ds EXCEPT ![Len(ds)].cancelled = TRUE]
  <2>1. [ds EXCEPT ![Len(ds)].cancelled = TRUE] =
        [n \in 1..Len(frames) |->
            IF n = Len(frames) THEN [ds[Len(frames)] EXCEPT !.cancelled = TRUE] ELSE ds[n]]
    <3> HIDE DEF ds
    <3> QED BY <1>1, <1>6, <1>8, Zenon
  <2> QED BY <1>4, <1>5, <1>7, <2>1
<1> QED BY <1>5, <1>9, <1>10, Zenon DEF Abstract!Cancel

(* What the innermost dispatch still has to call.                          *)
LEMMA TodoMapped ==
    ASSUME TypeOK, IndexInRange, frames # << >>
    PROVE  /\ Abstract!Innermost.todo = << >> <=> Exhausted(Top.event, Top.i, Top.count)
           /\ Abstract!Innermost.cancelled = Top.cancelled
<1>1. Abstract!Innermost = AbstractFrame(lists, Top) /\ Top \in Frames /\ InList(lists, Top) /\ ListsType(lists)
  BY OuterMapped
<1> DEFINE frame == Top
           list == lists[frame.event]
<1>2. /\ list \in Seq(Handlers) /\ frame.i + 1 \in Nat \ {0} /\ frame.count \in Nat
  BY <1>1, FrameMapped
<1>3. frame.count <= Len(list)
  BY <1>1 DEF InList
<1>4. /\ Abstract!Innermost.todo = LiveFunctions(list, frame.i + 1, frame.count)
      /\ Abstract!Innermost.cancelled = Top.cancelled
  BY <1>1 DEF AbstractFrame
<1>5. Exhausted(Top.event, Top.i, Top.count) <=> \A k \in (frame.i + 1)..frame.count : ~list[k].alive
  BY DEF Exhausted
<1> HIDE DEF list, frame
<1>6. LiveFunctions(list, frame.i + 1, frame.count) = << >> <=>
      \A k \in (frame.i + 1)..frame.count : ~list[k].alive
  BY <1>2, <1>3, LiveType, Zenon
<1> QED BY <1>4, <1>5, <1>6

(* The loop of Dispatch goes on.                                           *)
LEMMA CallNextRefines ==
    ASSUME TypeOK, IndexInRange, CallNext
    PROVE  Abstract!NextFunction
<1>0. frames # << >> /\ lists' = lists /\ ~Top.cancelled
  BY DEF CallNext
<1>1. PICK k \in 1..Top.count : /\ IsNext(Top.event, Top.i, Top.count, k)
                                /\ frames' = [frames EXCEPT ![Len(frames)].i = k]
  BY ZenonT(60) DEF CallNext
<1> DEFINE top == [Top EXCEPT !.i = k]
           list == lists[Top.event]
           in == Abstract!Innermost
           ds == dispatches
<1>2. /\ Abstract!Outer = AbstractFrames(lists, Popped) /\ dispatches # << >>
      /\ in = AbstractFrame(lists, Top)
      /\ Top \in Frames /\ InList(lists, Top) /\ ListsType(lists)
  BY <1>0, OuterMapped
<1>3. /\ list \in Seq(Handlers) /\ Top.i + 1 \in Nat \ {0} /\ Top.count \in Nat /\ Top.count <= Len(list)
      /\ Top.i \in Nat
  <2>1. list \in Seq(Handlers) /\ Top.i + 1 \in Nat \ {0} /\ Top.count \in Nat /\ Top.i \in Nat
    BY <1>2, FrameMapped
  <2> QED BY <1>2, <2>1 DEF InList
<1>4. /\ k \in (Top.i + 1)..Top.count /\ list[k].alive
      /\ \A j \in (Top.i + 1)..(k - 1) : ~list[j].alive
  BY <1>1 DEF IsNext
<1>5. k \in Nat \ {0}
  BY <1>3
<1>6. /\ top \in Frames /\ top.event = Top.event /\ top.i = k /\ top.count = Top.count
      /\ top.cancelled = Top.cancelled
  BY <1>2, <1>5 DEF Frames
<1>7. frames' = [frames EXCEPT ![Len(frames)] = top]
  BY <1>1 DEF Top
<1> HIDE DEF top
<1>8. /\ Head(LiveFunctions(list, Top.i + 1, Top.count)) = list[k].fn
      /\ Tail(LiveFunctions(list, Top.i + 1, Top.count)) = LiveFunctions(list, k + 1, Top.count)
  <2> HIDE DEF list
  <2> QED BY <1>3, <1>4, LiveFirst, ZenonT(60)
<1>9. AbstractFrame(lists, top) = [in EXCEPT !.current = Head(in.todo), !.todo = Tail(@)]
  <2>1. in.todo = LiveFunctions(list, Top.i + 1, Top.count)
    BY <1>2, Zenon DEF AbstractFrame
  <2>2. /\ AbstractFrame(lists, top).current = list[k].fn
        /\ AbstractFrame(lists, top).todo = LiveFunctions(list, k + 1, Top.count)
    BY <1>6 DEF AbstractFrame
  <2>3. /\ AbstractFrame(lists, top).current = Head(in.todo)
        /\ AbstractFrame(lists, top).todo = Tail(in.todo)
    BY <1>8, <2>1, <2>2
  <2>4. /\ AbstractFrame(lists, top).event = in.event
        /\ AbstractFrame(lists, top).cancelled = in.cancelled
    BY <1>2, <1>6, Zenon DEF AbstractFrame
  <2>5. InList(lists, top)
    BY <1>2, <1>6 DEF InList
  <2>6. AbstractFrame(lists, top) \in AbstractDispatches /\ in \in AbstractDispatches
    BY <1>2, <1>6, <2>5, FrameMapped
  <2> HIDE DEF in
  <2> QED BY <2>3, <2>4, <2>6, FirstTaken, Zenon
<1>10. /\ bound' = bound
       /\ ds' = [n \in 1..Len(frames) |->
                    IF n = Len(frames) THEN AbstractFrame(lists, top) ELSE ds[n]]
  BY <1>0, <1>6, <1>7, TopMapped, Zenon
<1>11. Append(Abstract!Outer, AbstractFrame(lists, top)) =
       [n \in 1..Len(frames) |-> IF n = Len(frames) THEN AbstractFrame(lists, top) ELSE ds[n]]
  <2> DEFINE x == AbstractFrame(lists, top)
             outer == Abstract!Outer
             last == Len(frames) - 1
             app == Append(outer, x)
  <2>1. /\ Len(frames) \in Nat \ {0}
        /\ \A n \in 1..Len(frames) : ds[n] = AbstractFrame(lists, frames[n]) /\ ds[n] \in AbstractDispatches
    <3>1. /\ frames \in Seq(Frames) /\ Len(frames) \in Nat
          /\ ds \in Seq(AbstractDispatches) /\ Len(ds) = Len(frames)
          /\ \A n \in 1..Len(frames) : ds[n] = AbstractFrame(lists, frames[n])
      BY FramesMapped
    <3>2. Len(frames) # 0
      BY <1>0, <3>1
    <3> HIDE DEF ds
    <3> QED BY <3>1, <3>2
  <2>2. /\ Len(Popped) = last
        /\ \A n \in 1..Len(Popped) : n \in 1..Len(frames) /\ Popped[n] = frames[n]
    BY <1>0, AfterPop
  <2>3. outer = [n \in 1..last |-> ds[n]]
    <3>1. outer = [n \in 1..last |-> AbstractFrame(lists, Popped[n])]
      BY <1>2, <2>2 DEF AbstractFrames
    <3>2. \A n \in 1..last : AbstractFrame(lists, Popped[n]) = ds[n]
      BY <2>1, <2>2
    <3> QED BY <3>1, <3>2
  <2>4. last \in Nat /\ last + 1 = Len(frames) /\ \A n \in 1..last : n \in 1..Len(frames)
    BY <2>1
  <2> DEFINE V == AbstractDispatches \cup {x}
  <2>5. x \in V /\ \A n \in 1..last : ds[n] \in V
    BY <2>1, <2>4
  <2> HIDE DEF x, outer, last, ds, V
  <2>6. outer \in Seq(V) /\ Len(outer) = last /\ \A n \in 1..last : outer[n] = ds[n]
    BY <2>3, <2>4, <2>5
  <2>7. /\ app \in Seq(V) /\ Len(app) = last + 1
        /\ \A n \in 1..last : app[n] = outer[n]
        /\ app[last + 1] = x
    BY <2>4, <2>5, <2>6
  <2> HIDE DEF app
  <2>8. app = [n \in 1..(last + 1) |-> app[n]]
    BY <2>4, <2>7
  <2>9. \A n \in 1..Len(frames) : app[n] = IF n = Len(frames) THEN x ELSE ds[n]
    BY <2>4, <2>6, <2>7
  <2>10. app = [n \in 1..Len(frames) |-> IF n = Len(frames) THEN x ELSE ds[n]]
    BY <2>4, <2>8, <2>9, Zenon
  <2> QED BY <2>10 DEF app, outer, x
<1>12. in.todo # << >> /\ ~in.cancelled
  <2>1. ~Exhausted(Top.event, Top.i, Top.count)
    BY <1>4 DEF Exhausted
  <2> QED BY <1>0, <2>1, TodoMapped
<1>13. dispatches' = Append(Abstract!Outer, [in EXCEPT !.current = Head(in.todo), !.todo = Tail(@)])
  BY <1>9, <1>10, <1>11, Zenon
<1> QED BY <1>2, <1>10, <1>12, <1>13 DEF Abstract!NextFunction

(* Dispatch up to its first handler, or through a list without live        *)
(* entries, which is no step of EventDispatch.                             *)
LEMMA DispatchRefines ==
    ASSUME TypeOK, IndexInRange, NEW e \in Events, Dispatch(e)
    PROVE  Abstract!Start(e) \/ UNCHANGED Abstract!vars
<1> DEFINE list == lists[e]
           ds == dispatches
<1>0. list \in Seq(Handlers) /\ Len(list) \in Nat /\ bound[e] = LiveFunctions(list, 1, Len(list))
  BY BoundMapped
<1>1. ASSUME NEW k \in 1..Len(list), IsNext(e, 0, Len(list), k), lists' = lists,
             frames' = Append(frames, [event |-> e, i |-> k, count |-> Len(list), cancelled |-> FALSE])
      PROVE  Abstract!Start(e)
  <2> DEFINE frame == [event |-> e, i |-> k, count |-> Len(list), cancelled |-> FALSE]
             x == AbstractFrame(lists, frame)
             started == [event |-> e, current |-> Head(bound[e]), todo |-> Tail(bound[e]),
                         cancelled |-> FALSE]
             app == Append(ds, x)
  <2>1. list[k].alive /\ \A j \in 1..(k - 1) : ~list[j].alive
    BY <1>1 DEF IsNext
  <2>2. k \in Nat \ {0}
    BY <1>0
  <2>3. /\ frame \in Frames /\ frame.event = e /\ frame.i = k /\ frame.count = Len(list)
        /\ frame.cancelled = FALSE
    BY <1>0, <2>2 DEF Frames
  <2>4. frames' = Append(frames, frame)
    BY <1>1
  <2> HIDE DEF frame
  <2>5. InList(lists, frame) /\ ListsType(lists)
    BY <1>0, <2>3 DEF InList, TypeOK, ListsType
  <2>6. x \in AbstractDispatches
    BY <2>3, <2>5, FrameMapped
  <2>7. Head(bound[e]) = list[k].fn /\ Tail(bound[e]) = LiveFunctions(list, k + 1, Len(list))
    <3> HIDE DEF list
    <3>1. 1 \in Nat \ {0} /\ Len(list) <= Len(list)
      BY <1>0
    <3> QED BY <1>0, <2>1, <3>1, LiveFirst
  <2>8. x = started
    BY <2>3, <2>7, ZenonT(60) DEF AbstractFrame
  <2>9. bound[e] # << >>
    BY <2>1, BoundMapped, Zenon
  <2>10. /\ Len(frames') = Len(frames) + 1
         /\ \A n \in 1..(Len(frames) + 1) : frames'[n] = IF n = Len(frames) + 1 THEN frame ELSE frames[n]
    BY <2>3, <2>4, AfterPush
  <2>11. /\ Len(frames) \in Nat /\ ds \in Seq(AbstractDispatches) /\ Len(ds) = Len(frames)
         /\ \A n \in 1..Len(frames) : ds[n] = AbstractFrame(lists, frames[n])
    BY FramesMapped
  <2>12. ds' = [n \in 1..(Len(frames) + 1) |-> AbstractFrame(lists, frames'[n])]
    <3>1. dispatches' = AbstractFrames(lists, frames')
      BY <1>1, MappingNext
    <3>2. AbstractFrames(lists, frames') = [n \in 1..Len(frames') |-> AbstractFrame(lists, frames'[n])]
      BY DEF AbstractFrames
    <3> QED BY <2>10, <3>1, <3>2
  <2>13. ASSUME NEW n \in 1..(Len(frames) + 1)
         PROVE  AbstractFrame(lists, frames'[n]) = IF n = Len(frames) + 1 THEN x ELSE ds[n]
    <3>1. CASE n = Len(frames) + 1
      BY <2>10, <3>1
    <3>2. CASE n # Len(frames) + 1
      <4>1. frames'[n] = frames[n] /\ n \in 1..Len(frames)
        BY <2>10, <2>11, <3>2
      <4> QED BY <2>11, <3>2, <4>1
    <3> QED BY <3>1, <3>2
  <2>14. app = [n \in 1..(Len(frames) + 1) |-> IF n = Len(frames) + 1 THEN x ELSE ds[n]]
    <3> HIDE DEF ds, x
    <3>1. /\ app \in Seq(AbstractDispatches) /\ Len(app) = Len(frames) + 1
          /\ \A n \in 1..Len(frames) : app[n] = ds[n]
          /\ app[Len(frames) + 1] = x
      BY <2>6, <2>11
    <3> HIDE DEF app
    <3>2. app = [n \in 1..(Len(frames) + 1) |-> app[n]]
      BY <2>11, <3>1
    <3>3. \A n \in 1..(Len(frames) + 1) : app[n] = IF n = Len(frames) + 1 THEN x ELSE ds[n]
      BY <2>11, <3>1
    <3> QED BY <3>2, <3>3
  <2>15. dispatches' = Append(dispatches, started)
    BY <2>8, <2>12, <2>13, <2>14, ZenonT(60)
  <2>16. bound' = bound
    BY <1>1, MappingNow, MappingNext
  <2> QED BY <2>9, <2>15, <2>16 DEF Abstract!Start
<1>2. ASSUME Finish(frames)
      PROVE  UNCHANGED Abstract!vars
  <2>1. frames \in Seq(Frames)
    BY DEF TypeOK
  <2>2. bound' = bound /\ dispatches' = AbstractFrames(lists, frames)
    BY <1>2, <2>1, FinishRefines
  <2> QED BY <2>2, MappingNow DEF Abstract!vars
<1> QED BY <1>1, <1>2, Zenon DEF Dispatch

(* The end of a dispatch.                                                  *)
LEMMA EndRefines ==
    ASSUME TypeOK, IndexInRange, DispatchEnds
    PROVE  Abstract!End
<1>1. frames # << >> /\ Finish(Popped) /\ (Top.cancelled \/ Exhausted(Top.event, Top.i, Top.count))
  BY DEF DispatchEnds
<1>2. Popped \in Seq(Frames)
  BY <1>1, AfterPop
<1>3. bound' = bound /\ dispatches' = AbstractFrames(lists, Popped)
  BY <1>1, <1>2, FinishRefines
<1>4. Abstract!Outer = AbstractFrames(lists, Popped) /\ dispatches # << >>
  BY <1>1, OuterMapped
<1>5. Abstract!Innermost.cancelled \/ Abstract!Innermost.todo = << >>
  BY <1>1, TodoMapped
<1> QED BY <1>3, <1>4, <1>5 DEF Abstract!End

(* A call that throws.                                                     *)
LEMMA ThrowRefines ==
    ASSUME TypeOK, IndexInRange, CallThrows
    PROVE  Abstract!Abort
<1>1. /\ frames # << >> /\ frames' = Popped /\ lists' = lists
      /\ ~Top.cancelled /\ ~Exhausted(Top.event, Top.i, Top.count)
  BY DEF CallThrows
<1>2. bound' = bound /\ dispatches' = AbstractFrames(lists, Popped)
  BY <1>1, MappingNow, MappingNext
<1>3. Abstract!Outer = AbstractFrames(lists, Popped) /\ dispatches # << >>
  BY <1>1, OuterMapped
<1>4. ~Abstract!Innermost.cancelled /\ Abstract!Innermost.todo # << >>
  BY <1>1, TodoMapped
<1> QED BY <1>2, <1>3, <1>4 DEF Abstract!Abort

(* Empty lists and no frames are no bound functions and no dispatches.     *)
LEMMA NothingBound ==
    /\ AbstractBound([e \in Events |-> << >>]) = [e \in Events |-> << >>]
    /\ \A ls : AbstractFrames(ls, << >>) = << >>
<1>1. LiveFunctions(<< >>, 1, 0) = << >>
  <2>1. << >> \in Seq(Handlers) /\ Len(<< >>) = 0 /\ 1 \in Nat \ {0} /\ 0 \in Nat /\ 0 <= 0
    OBVIOUS
  <2>2. \A k \in 1..0 : ~(<< >>[k].alive)
    OBVIOUS
  <2> DEFINE none == << >>
  <2>3. none \in Seq(Handlers) /\ 0 <= Len(none) /\ \A k \in 1..0 : ~none[k].alive
    BY <2>1, <2>2
  <2> HIDE DEF none
  <2>4. LiveFunctions(none, 1, 0) = << >>
    BY <2>1, <2>3, LiveType
  <2> QED BY <2>4 DEF none
<1>2. AbstractBound([e \in Events |-> << >>]) = [e \in Events |-> LiveFunctions(<< >>, 1, 0)]
  BY DEF AbstractBound
<1>3. ASSUME NEW ls PROVE AbstractFrames(ls, << >>) = << >>
  BY DEF AbstractFrames
<1> QED BY <1>1, <1>2, <1>3

(* Runtime::Shutdown.                                                      *)
LEMMA ClearRefines ==
    ASSUME Clear
    PROVE  Abstract!Clear
<1>1. frames = << >> /\ frames' = << >> /\ lists' = [e \in Events |-> << >>]
  BY DEF Clear
<1>2. dispatches = << >> /\ dispatches' = << >>
  BY <1>1, MappingNow, MappingNext, NothingBound
<1>3. bound' = [e \in Events |-> << >>]
  BY <1>1, MappingNext, NothingBound
<1> QED BY <1>2, <1>3 DEF Abstract!Clear

(* The bus starts as EventDispatch does.                                   *)
LEMMA InitRefines == Init => Abstract!Init
<1> SUFFICES ASSUME Init PROVE Abstract!Init
  OBVIOUS
<1>1. frames = << >> /\ lists = [e \in Events |-> << >>]
  BY DEF Init
<1> QED BY <1>1, MappingNow, NothingBound DEF Abstract!Init

(* Every step of the bus is one of EventDispatch, or none.                 *)
LEMMA StepRefines ==
    ASSUME TypeOK, IndexInRange, BoundOnce, [Next]_vars
    PROVE  [Abstract!Next]_(Abstract!vars)
<1>1. ASSUME NEW e \in Events, NEW f \in Functions, Bind(e, f) PROVE Abstract!Next
  BY <1>1, BindRefines DEF Abstract!Next
<1>2. ASSUME NEW e \in Events, NEW f \in Functions, Unbind(e, f) PROVE Abstract!Next
  BY <1>2, UnbindRefines DEF Abstract!Next
<1>3. ASSUME NEW e \in Events, Dispatch(e) PROVE [Abstract!Next]_(Abstract!vars)
  BY <1>3, DispatchRefines DEF Abstract!Next
<1>4. CASE Cancel
  BY <1>4, CancelRefines DEF Abstract!Next
<1>5. CASE CallNext
  BY <1>5, CallNextRefines DEF Abstract!Next
<1>6. CASE DispatchEnds
  BY <1>6, EndRefines DEF Abstract!Next
<1>7. CASE CallThrows
  BY <1>7, ThrowRefines DEF Abstract!Next
<1>8. CASE Clear
  BY <1>8, ClearRefines DEF Abstract!Next
<1>9. ASSUME (\E e \in Events : Create(e)) \/ UNCHANGED vars PROVE UNCHANGED Abstract!vars
  <2>1. lists' = lists /\ frames' = frames
    BY <1>9 DEF Create, vars
  <2> QED BY <2>1, MappingNow, MappingNext DEF Abstract!vars
<1> QED BY <1>1, <1>2, <1>3, <1>4, <1>5, <1>6, <1>7, <1>8, <1>9 DEF Next

(***************************************************************************)
(* ImplementsDispatch: whatever handlers bind, unbind, cancel and dispatch *)
(* while they are being called, the bus with its indexes, dead entries and *)
(* compactions does what EventDispatch says.                               *)
(***************************************************************************)
THEOREM BusImplementsDispatch == Spec => ImplementsDispatch
<1>1. Init => Abstract!Init
  BY InitRefines
<1>2. TypeOK /\ IndexInRange /\ BoundOnce /\ [Next]_vars => [Abstract!Next]_(Abstract!vars)
  BY StepRefines
<1> QED BY <1>1, <1>2, TypeCorrect, IndexesInRange, FunctionsBoundOnce, PTL
        DEF Spec, ImplementsDispatch, Abstract!Spec
=============================================================================
