------------------------------- MODULE ListProofs -------------------------------
(* Facts about numbers, sorted and filtered lists that the other proofs cite.  *)
(* A property is a set here, so that it can be a parameter of a lemma.         *)
EXTENDS Lists, FiniteSetTheorems, SequenceTheorems, WellFoundedInduction, NaturalsInduction, TLAPS

-----------------------------------------------------------------------------
(* Induction, with the property as a set, and least and greatest elements.  *)

LEMMA LeastOf ==
    ASSUME NEW T, T \subseteq Nat, T # {}
    PROVE  \E x \in T : \A y \in T : x <= y
<1>1. IsWellFoundedOn(OpToRel(<, Nat), Nat)
  BY NatLessThanWellFounded
<1>2. PICK x \in T : \A y \in T : ~ (<<y, x>> \in OpToRel(<, Nat))
  BY ONLY <1>1, T \subseteq Nat, T # {}, WFMin
<1>3. \A y \in T : ~ (y < x)
  BY <1>2 DEF OpToRel
<1> QED
  BY <1>3

LEMMA FirstOf ==
    ASSUME NEW T, T \subseteq Nat, T # {}
    PROVE  Min(T) \in T
BY LeastOf DEF Min

LEMMA NatInduct ==
    ASSUME NEW S, 0 \in S, \A n \in Nat : n \in S => n + 1 \in S
    PROVE  Nat \subseteq S
<1> DEFINE T == {n \in Nat : n \notin S}
<1> SUFFICES ASSUME T # {}
             PROVE  FALSE
  OBVIOUS
<1>1. PICK x \in T : \A y \in T : x <= y
  <2>1. T \subseteq Nat
    OBVIOUS
  <2> HIDE DEF T
  <2> QED
    BY <2>1, LeastOf
<1>2. x - 1 \in Nat /\ x - 1 \notin T
  BY <1>1
<1> QED
  BY <1>2

LEMMA MaxOf ==
    ASSUME NEW S, S \subseteq Int, S # {}, NEW n \in Int, \A x \in S : x <= n
    PROVE  Max(S) \in S /\ \A y \in S : y <= Max(S)
<1> DEFINE T == {k \in Nat : n - k \in S}
<1>1. T # {}
  <2>1. PICK x \in S : TRUE
    OBVIOUS
  <2>2. n - x \in T
    BY <2>1
  <2> QED
    BY <2>2
<1>2. PICK k \in T : \A l \in T : k <= l
  <2>1. T \subseteq Nat
    OBVIOUS
  <2> HIDE DEF T
  <2> QED
    BY <1>1, <2>1, LeastOf
<1>3. ASSUME NEW y \in S
      PROVE  y <= n - k
  <2>1. n - y \in T
    OBVIOUS
  <2>2. k <= n - y
    BY <1>2, <2>1
  <2> QED
    BY <2>2
<1>4. \E x \in S : \A y \in S : x >= y
  BY <1>2, <1>3
<1> QED
  BY <1>4 DEF Max

-----------------------------------------------------------------------------
(* Sorting.                                                                *)

\* R is a strict total order of S.
Orders(R, S) ==
    /\ \A x \in S : <<x, x>> \notin R
    /\ \A x, y \in S : x # y => <<x, y>> \in R \/ <<y, x>> \in R
    /\ \A x, y, z \in S : <<x, y>> \in R /\ <<y, z>> \in R => <<x, z>> \in R

\* o lists S in the order R, every element once.
IsList(o, S, R) ==
    /\ o \in [1 .. Cardinality(S) -> S]
    /\ \A x \in S : \E k \in DOMAIN o : o[k] = x
    /\ \A k, l \in DOMAIN o : k < l <=> <<o[k], o[l]>> \in R
    /\ \A k, l \in DOMAIN o : o[k] = o[l] => k = l

LEMMA SortedLists ==
    ASSUME NEW S, IsFiniteSet(S), NEW R, Orders(R, S)
    PROVE  IsList(Sorted(S, R), S, R)
<1> DEFINE n == Cardinality(S)
           Below(x) == {y \in S : <<y, x>> \in R}
           c(x) == Cardinality(Below(x))
           o == Sorted(S, R)
<1>0. n \in Nat
  BY FS_CardinalityType
<1>1. ASSUME NEW x \in S
      PROVE  /\ IsFiniteSet(Below(x)) /\ x \notin Below(x)
             /\ c(x) \in Nat /\ c(x) \in 0 .. n - 1
  <2>1. x \notin Below(x) /\ Below(x) \in SUBSET (S \ {x})
    BY DEF Orders
  <2>2. IsFiniteSet(S \ {x}) /\ Cardinality(S \ {x}) = n - 1
    BY FS_RemoveElement
  <2> HIDE DEF Below, n
  <2>3. IsFiniteSet(Below(x)) /\ c(x) <= n - 1 /\ c(x) \in Nat
    BY <2>1, <2>2, FS_Subset, FS_CardinalityType
  <2> QED
    BY <1>0, <2>1, <2>3
<1>2. ASSUME NEW x \in S, NEW y \in S, <<x, y>> \in R
      PROVE  c(x) < c(y)
  <2>1. Below(x) \cup {x} \in SUBSET Below(y)
    BY <1>2 DEF Orders
  <2>2. IsFiniteSet(Below(x)) /\ IsFiniteSet(Below(y)) /\ x \notin Below(x)
        /\ c(x) \in Nat /\ c(y) \in Nat
    <3> HIDE DEF Below, n
    <3> QED
      BY <1>1
  <2> HIDE DEF Below
  <2>3. Cardinality(Below(x) \cup {x}) = c(x) + 1
    BY <2>2, FS_AddElement
  <2>4. Cardinality(Below(x) \cup {x}) <= c(y)
    BY <2>1, <2>2, FS_Subset
  <2> QED
    BY <2>2, <2>3, <2>4
<1> HIDE DEF Below
<1>3. ASSUME NEW x \in S, NEW y \in S
      PROVE  /\ c(x) = c(y) => x = y
             /\ c(x) < c(y) => <<x, y>> \in R
  <2>1. c(x) \in Nat /\ c(y) \in Nat
    BY <1>0, <1>1
  <2>2. x = y \/ <<x, y>> \in R \/ <<y, x>> \in R
    BY DEF Orders
  <2>3. CASE x = y
    BY <2>1, <2>3
  <2>4. CASE <<x, y>> \in R
    BY <1>2, <2>1, <2>4
  <2>5. CASE <<y, x>> \in R
    BY <1>2, <2>1, <2>5
  <2> QED
    BY <2>2, <2>3, <2>4, <2>5
<1>4. \A m \in 0 .. n - 1 : \E x \in S : c(x) = m
  <2> DEFINE f == [x \in S |-> c(x)]
  <2>1. f \in Injection(S, 0 .. n - 1)
    BY <1>1, <1>3 DEF Injection, IsInjective
  <2>2. IsFiniteSet(0 .. n - 1) /\ Cardinality(0 .. n - 1) = n
    BY <1>0, FS_Interval
  <2> HIDE DEF f, n
  <2>3. f \in Surjection(S, 0 .. n - 1)
    BY <2>1, <2>2, FS_Injection DEF n
  <2> QED
    BY <2>3 DEF Surjection, f
<1>5. o = [k \in 1 .. n |-> CHOOSE x \in S : c(x) = k - 1]
  BY DEF Sorted, Below
<1> HIDE DEF o, c
<1>6. ASSUME NEW k \in 1 .. n
      PROVE  o[k] \in S /\ c(o[k]) = k - 1
  <2>1. k - 1 \in 0 .. n - 1
    BY <1>0
  <2>2. \E x \in S : c(x) = k - 1
    BY <1>4, <2>1
  <2>3. o[k] = CHOOSE x \in S : c(x) = k - 1
    BY <1>5
  <2> QED
    BY <2>2, <2>3
<1>7. o \in [1 .. n -> S] /\ DOMAIN o = 1 .. n
  BY <1>5, <1>6
<1>8. ASSUME NEW x \in S
      PROVE  \E k \in DOMAIN o : o[k] = x
  <2>1. c(x) + 1 \in 1 .. n /\ (c(x) + 1) - 1 = c(x)
    BY <1>0, <1>1
  <2>2. o[c(x) + 1] \in S /\ c(o[c(x) + 1]) = c(x)
    BY <1>6, <2>1
  <2>3. o[c(x) + 1] = x
    BY <1>3, <2>2
  <2> QED
    BY <1>7, <2>1, <2>3
<1>9. ASSUME NEW k \in 1 .. n, NEW l \in 1 .. n
      PROVE  (k < l <=> <<o[k], o[l]>> \in R) /\ (o[k] = o[l] => k = l)
  <2>1. /\ o[k] \in S /\ c(o[k]) = k - 1 /\ o[l] \in S /\ c(o[l]) = l - 1
        /\ k \in Nat /\ l \in Nat
    BY <1>6
  <2>2. k < l => <<o[k], o[l]>> \in R
    BY <1>3, <2>1
  <2>3. <<o[k], o[l]>> \in R => k < l
    BY <1>2, <2>1
  <2> QED
    BY <2>1, <2>2, <2>3
<1> QED
  <2>1. \A k, l \in DOMAIN o : k < l <=> <<o[k], o[l]>> \in R
    BY <1>7, <1>9
  <2>2. \A k, l \in DOMAIN o : o[k] = o[l] => k = l
    BY <1>7, <1>9
  <2>3. IsList(o, S, R)
    BY <1>7, <1>8, <2>1, <2>2 DEF IsList, n
  <2> QED
    BY <2>3 DEF o

-----------------------------------------------------------------------------
(* Filtering.                                                              *)

\* t has the elements of s at the positions P, in order; the k-th is at at[k].
Picked(t, s, P, at) ==
    /\ at \in [1 .. Len(t) -> P]
    /\ \A k \in 1 .. Len(t) : t[k] = s[at[k]]
    /\ \A k, l \in 1 .. Len(t) : k < l => at[k] < at[l]
    /\ \A p \in P : \E k \in 1 .. Len(t) : at[k] = p

LEMMA PickPicks ==
    ASSUME NEW T, NEW s \in Seq(T), NEW P \in SUBSET DOMAIN s
    PROVE  Pick(s, P) \in Seq(T) /\ \E at : Picked(Pick(s, P), s, P, at)
<1> DEFINE R == {p \in P \X P : p[1] < p[2]}
           at == Sorted(P, R)
           t == [k \in DOMAIN at |-> s[at[k]]]
           n == Cardinality(P)
<1>1. IsFiniteSet(P) /\ n \in Nat /\ P \subseteq Nat /\ \A p \in P : s[p] \in T
  <2>1. DOMAIN s = 1 .. Len(s) /\ Len(s) \in Nat /\ \A k \in 1 .. Len(s) : s[k] \in T
    OBVIOUS
  <2>2. IsFiniteSet(1 .. Len(s))
    BY <2>1, FS_Interval
  <2>3. IsFiniteSet(P)
    BY <2>1, <2>2, FS_Subset
  <2> QED
    BY <2>1, <2>3, FS_CardinalityType
<1>2. \A x, y \in P : <<x, y>> \in R <=> x < y
  OBVIOUS
<1> HIDE DEF R
<1>3. Orders(R, P)
  BY <1>1, <1>2 DEF Orders
<1>4. IsList(at, P, R)
  BY <1>1, <1>3, SortedLists
<1> HIDE DEF at
<1>5. /\ at \in [1 .. n -> P] /\ DOMAIN at = 1 .. n
      /\ \A x \in P : \E k \in 1 .. n : at[k] = x
      /\ \A k, l \in 1 .. n : k < l => at[k] < at[l]
  BY <1>2, <1>4 DEF IsList
<1>6. t \in Seq(T) /\ Len(t) = n /\ \A k \in 1 .. n : t[k] = s[at[k]]
  <2> HIDE DEF n
  <2>1. t = [k \in 1 .. n |-> s[at[k]]] /\ \A k \in 1 .. n : s[at[k]] \in T
    BY <1>1, <1>5
  <2>2. t \in [1 .. n -> T]
    BY <2>1
  <2> HIDE DEF t
  <2> QED
    BY <1>1, <2>1, <2>2
<1>7. Pick(s, P) = t
  BY DEF Pick, at, R
<1> HIDE DEF t
<1>8. Picked(t, s, P, at)
  BY <1>5, <1>6 DEF Picked
<1> QED
  BY <1>6, <1>7, <1>8
=============================================================================
