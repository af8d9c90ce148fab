------------------------------ MODULE CorpusProofs ------------------------------
(* What chunking, ingestion and ranking promise for any files, any contents,   *)
(* any number of runs, texts of any length and searches of any number of rows. *)
EXTENDS Corpus, ListProofs

-----------------------------------------------------------------------------
(* Folds over positions, and the windows of a buffer of text.              *)

\* The recursion of a fold over 1 .. k goes through the sets 1 .. l only.
LEMMA MaxOfSubset ==
    ASSUME NEW k \in Nat, NEW s \in SUBSET (1 .. k + 1), s # {}
    PROVE  /\ Max(s) \in s /\ Max(s) \in 1 .. k + 1
           /\ s \ {Max(s)} \in SUBSET (1 .. k)
<1>1. s \subseteq Int /\ k + 1 \in Int /\ \A x \in s : x <= k + 1
  OBVIOUS
<1>2. Max(s) \in s /\ \A y \in s : y <= Max(s)
  BY <1>1, MaxOf
<1> DEFINE m == Max(s)
<1> HIDE DEF m
<1>3. m \in s /\ \A y \in s : y <= m
  BY <1>2 DEF m
<1>4. ASSUME NEW x \in s, x # m
      PROVE  x \in 1 .. k
  BY <1>3, <1>4
<1>5. m \in s /\ m \in 1 .. k + 1 /\ s \ {m} \in SUBSET (1 .. k)
  BY <1>3, <1>4
<1> QED
  BY <1>5 DEF m

LEMMA MaxOfInterval ==
    ASSUME NEW k \in Nat \ {0}
    PROVE  Max(1 .. k) = k /\ (1 .. k) \ {k} = 1 .. k - 1
<1>1. 1 .. k \subseteq Int /\ 1 .. k # {} /\ \A x \in 1 .. k : x <= k
  OBVIOUS
<1>2. Max(1 .. k) \in 1 .. k /\ \A y \in 1 .. k : y <= Max(1 .. k)
  BY <1>1, MaxOf
<1> QED
  BY <1>2

\* g holds the states of the loop over es, n of them after st.
States(g, st, es, n) ==
    /\ g[0] = st
    /\ \A k \in 1 .. n : g[k] = Take(g[k - 1], es[k])
    /\ FoldLeft(Take, st, es) = g[n]

LEMMA TakeFold ==
    ASSUME NEW st, NEW es, NEW n \in Nat, DOMAIN es = 1 .. n
    PROVE  \E g : States(g, st, es, n)
<1> DEFINE Step(f, s) == IF s = {} THEN st ELSE Take(f[s \ {Max(s)}], es[Max(s)])
           E == {k \in Nat : \E f : f = [s \in SUBSET (1 .. k) |-> Step(f, s)]}
<1>1. 0 \in E
  <2> DEFINE f == [s \in SUBSET (1 .. 0) |-> st]
  <2>1. f = [s \in SUBSET (1 .. 0) |-> Step(f, s)]
    <3>1. \A s \in SUBSET (1 .. 0) : s = {}
      OBVIOUS
    <3> QED
      BY <3>1
  <2> QED
    BY <2>1
<1>2. ASSUME NEW k \in Nat, k \in E
      PROVE  k + 1 \in E
  <2>1. PICK f : f = [s \in SUBSET (1 .. k) |-> Step(f, s)]
    BY <1>2
  <2> DEFINE h == [s \in SUBSET (1 .. k + 1) |-> Step(f, s)]
  <2>2. \A s \in SUBSET (1 .. k) : h[s] = f[s]
    <3>1. SUBSET (1 .. k) \subseteq SUBSET (1 .. k + 1)
      OBVIOUS
    <3> HIDE DEF Step
    <3> QED
      BY <2>1, <3>1
  <2>3. \A s \in SUBSET (1 .. k + 1) : Step(f, s) = Step(h, s)
    <3> SUFFICES ASSUME NEW s \in SUBSET (1 .. k + 1), s # {}
                 PROVE  f[s \ {Max(s)}] = h[s \ {Max(s)}]
      OBVIOUS
    <3> HIDE DEF h
    <3> QED
      BY <2>2, MaxOfSubset
  <2>4. h = [s \in SUBSET (1 .. k + 1) |-> Step(h, s)]
    BY <2>3
  <2> HIDE DEF h, Step
  <2> QED
    BY <2>4
<1>3. n \in E
  <2> HIDE DEF E
  <2> QED
    BY <1>1, <1>2, NatInduct
<1> DEFINE iter == CHOOSE f : f = [s \in SUBSET (1 .. n) |-> Step(f, s)]
<1>4. iter = [s \in SUBSET (1 .. n) |-> Step(iter, s)]
  <2>1. \E f : f = [s \in SUBSET (1 .. n) |-> Step(f, s)]
    BY <1>3
  <2> HIDE DEF Step
  <2> QED
    BY <2>1
<1>5. FoldLeft(Take, st, es) = iter[1 .. n]
  BY DEF FoldLeft, MapThenFoldSet
<1> HIDE DEF iter
<1> DEFINE g == [k \in 0 .. n |-> iter[1 .. k]]
<1>6. g[0] = st
  BY <1>4
<1>7. \A k \in 1 .. n : g[k] = Take(g[k - 1], es[k])
  <2> SUFFICES ASSUME NEW k \in 1 .. n
               PROVE  iter[1 .. k] = Take(iter[1 .. k - 1], es[k])
    OBVIOUS
  <2>1. k \in Nat \ {0} /\ k \in 1 .. k /\ \A l \in 1 .. k : l \in 1 .. n
    OBVIOUS
  <2>2. 1 .. k \in SUBSET (1 .. n) /\ 1 .. k # {}
    BY <2>1
  <2>3. iter[1 .. k] = Take(iter[(1 .. k) \ {Max(1 .. k)}], es[Max(1 .. k)])
    BY <1>4, <2>2
  <2>4. Max(1 .. k) = k /\ (1 .. k) \ {k} = 1 .. k - 1
    BY <2>1, MaxOfInterval
  <2> QED
    BY <2>3, <2>4
<1>8. FoldLeft(Take, st, es) = g[n]
  BY <1>5
<1> HIDE DEF g
<1>9. States(g, st, es, n)
  BY <1>6, <1>7, <1>8 DEF States
<1> QED
  BY <1>9

\* g holds the sums of the first texts of b from i on, n of them before j.
Sums(g, b, i, j, n) ==
    /\ g[0] = 0
    /\ \A k \in 1 .. n : g[k] = g[k - 1] + SubSeq(b, i, j - 1)[k].tokens
    /\ Total(b, i, j) = g[n]

LEMMA SumFold ==
    ASSUME NEW b, NEW i, NEW j, NEW n \in Nat, DOMAIN SubSeq(b, i, j - 1) = 1 .. n
    PROVE  \E g : Sums(g, b, i, j, n)
<1> DEFINE Step(f, s) == IF s = {} THEN 0 ELSE f[s \ {Max(s)}] + SubSeq(b, i, j - 1)[Max(s)].tokens
           E == {k \in Nat : \E f : f = [s \in SUBSET (1 .. k) |-> Step(f, s)]}
<1>1. 0 \in E
  <2> DEFINE f == [s \in SUBSET (1 .. 0) |-> 0]
  <2>1. f = [s \in SUBSET (1 .. 0) |-> Step(f, s)]
    <3>1. \A s \in SUBSET (1 .. 0) : s = {}
      OBVIOUS
    <3> QED
      BY <3>1
  <2> QED
    BY <2>1
<1>2. ASSUME NEW k \in Nat, k \in E
      PROVE  k + 1 \in E
  <2>1. PICK f : f = [s \in SUBSET (1 .. k) |-> Step(f, s)]
    BY <1>2
  <2> DEFINE h == [s \in SUBSET (1 .. k + 1) |-> Step(f, s)]
  <2>2. \A s \in SUBSET (1 .. k) : h[s] = f[s]
    <3>1. SUBSET (1 .. k) \subseteq SUBSET (1 .. k + 1)
      OBVIOUS
    <3> HIDE DEF Step
    <3> QED
      BY <2>1, <3>1
  <2>3. \A s \in SUBSET (1 .. k + 1) : Step(f, s) = Step(h, s)
    <3> SUFFICES ASSUME NEW s \in SUBSET (1 .. k + 1), s # {}
                 PROVE  f[s \ {Max(s)}] = h[s \ {Max(s)}]
      OBVIOUS
    <3> HIDE DEF h
    <3> QED
      BY <2>2, MaxOfSubset
  <2>4. h = [s \in SUBSET (1 .. k + 1) |-> Step(h, s)]
    BY <2>3
  <2> HIDE DEF h, Step
  <2> QED
    BY <2>4
<1>3. n \in E
  <2> HIDE DEF E
  <2> QED
    BY <1>1, <1>2, NatInduct
<1> DEFINE iter == CHOOSE f : f = [s \in SUBSET (1 .. n) |-> Step(f, s)]
<1>4. iter = [s \in SUBSET (1 .. n) |-> Step(iter, s)]
  <2>1. \E f : f = [s \in SUBSET (1 .. n) |-> Step(f, s)]
    BY <1>3
  <2> HIDE DEF Step
  <2> QED
    BY <2>1
<1>5. Total(b, i, j) = iter[1 .. n]
  BY DEF Total, FoldLeft, MapThenFoldSet
<1> HIDE DEF iter
<1> DEFINE g == [k \in 0 .. n |-> iter[1 .. k]]
<1>6. g[0] = 0
  BY <1>4
<1>7. \A k \in 1 .. n : g[k] = g[k - 1] + SubSeq(b, i, j - 1)[k].tokens
  <2>0. \A k \in 1 .. n : k \in 0 .. n /\ k - 1 \in 0 .. n
    OBVIOUS
  <2> SUFFICES ASSUME NEW k \in 1 .. n
               PROVE  iter[1 .. k] = iter[1 .. k - 1] + SubSeq(b, i, j - 1)[k].tokens
    BY <2>0
  <2>1. k \in Nat \ {0} /\ k \in 1 .. k /\ \A l \in 1 .. k : l \in 1 .. n
    OBVIOUS
  <2>2. 1 .. k \in SUBSET (1 .. n) /\ 1 .. k # {}
    BY <2>1
  <2>3. iter[1 .. k] = iter[(1 .. k) \ {Max(1 .. k)}] + SubSeq(b, i, j - 1)[Max(1 .. k)].tokens
    BY <1>4, <2>2
  <2>4. Max(1 .. k) = k /\ (1 .. k) \ {k} = 1 .. k - 1
    BY <2>1, MaxOfInterval
  <2> QED
    BY <2>3, <2>4
<1>8. Total(b, i, j) = g[n]
  BY <1>5
<1> HIDE DEF g
<1>9. Sums(g, b, i, j, n)
  BY <1>6, <1>7, <1>8 DEF Sums
<1> QED
  BY <1>9

-----------------------------------------------------------------------------
(* The windows.                                                            *)

\* A buffer of texts.
Buffer(b) == b \in Seq(Element)

LEMMA TotalIsDifference ==
    ASSUME NEW b, Buffer(b)
    PROVE  \E p \in [0 .. Len(b) -> Nat] :
              /\ \A k, l \in 0 .. Len(b) : k <= l => p[k] <= p[l]
              /\ \A i \in 1 .. Len(b) + 1 : \A j \in i .. Len(b) + 1 :
                     Total(b, i, j) = p[j - 1] - p[i - 1]
<1> DEFINE n == Len(b)
<1>0. n \in Nat /\ DOMAIN b = 1 .. n /\ \A k \in 1 .. n : b[k] \in Element
  BY DEF Buffer
<1>1. n \in Nat /\ DOMAIN b = 1 .. n /\ \A k \in 1 .. n : b[k].tokens \in Nat
  BY <1>0 DEF Element
<1>2. PICK g : g[0] = 0 /\ \A k \in 1 .. n : g[k] = g[k - 1] + b[k].tokens
  <2>1. /\ DOMAIN SubSeq(b, 1, (n + 1) - 1) = 1 .. n
        /\ \A k \in 1 .. n : SubSeq(b, 1, (n + 1) - 1)[k] = b[k]
    BY <1>1
  <2> HIDE DEF n
  <2>2. PICK g : Sums(g, b, 1, n + 1, n)
    BY <1>1, <2>1, SumFold
  <2> QED
    BY <2>1, <2>2 DEF Sums
<1> HIDE DEF n
<1>3. \A k \in 0 .. n : g[k] \in Nat
  <2> DEFINE S == {k \in Nat : k <= n => g[k] \in Nat}
  <2>1. 0 \in S
    BY <1>2
  <2>2. ASSUME NEW k \in Nat, k \in S
        PROVE  k + 1 \in S
    <3> SUFFICES ASSUME k + 1 <= n
                 PROVE  g[k + 1] \in Nat
      OBVIOUS
    <3>1. k + 1 \in 1 .. n /\ g[k] \in Nat /\ (k + 1) - 1 = k
      BY <1>1, <2>2
    <3>2. g[k + 1] = g[k] + b[k + 1].tokens
      BY <1>2, <3>1
    <3> QED
      BY <1>1, <3>1, <3>2
  <2>3. Nat \subseteq S
    <3> HIDE DEF S
    <3> QED
      BY <2>1, <2>2, NatInduct
  <2> QED
    BY <1>1, <2>3
<1>4. \A k \in 0 .. n : \A l \in k .. n : g[k] <= g[l]
  <2> SUFFICES ASSUME NEW k \in 0 .. n
               PROVE  \A l \in k .. n : g[k] <= g[l]
    OBVIOUS
  <2> DEFINE S == {d \in Nat : k + d <= n => g[k] <= g[k + d]}
  <2>1. 0 \in S
    BY <1>1, <1>3
  <2>2. ASSUME NEW d \in Nat, d \in S
        PROVE  d + 1 \in S
    <3> SUFFICES ASSUME k + (d + 1) <= n
                 PROVE  g[k] <= g[k + (d + 1)]
      OBVIOUS
    <3> DEFINE m == k + d
    <3>1. m \in 0 .. n /\ m + 1 \in 1 .. n /\ (m + 1) - 1 = m /\ k + (d + 1) = m + 1
      BY <1>1
    <3>2. g[k] <= g[m]
      BY <1>1, <2>2
    <3> HIDE DEF m
    <3>3. g[m + 1] = g[m] + b[m + 1].tokens
      BY <1>2, <3>1
    <3> QED
      BY <1>1, <1>3, <3>1, <3>2, <3>3
  <2>3. Nat \subseteq S
    <3> HIDE DEF S
    <3> QED
      BY <2>1, <2>2, NatInduct
  <2> SUFFICES ASSUME NEW l \in k .. n
               PROVE  g[k] <= g[l]
    OBVIOUS
  <2>4. l - k \in S /\ k + (l - k) = l
    BY <1>1, <2>3
  <2> QED
    BY <1>1, <2>4
<1>5. ASSUME NEW i \in 1 .. n + 1, NEW j \in i .. n + 1
      PROVE  Total(b, i, j) = g[j - 1] - g[i - 1]
  <2> DEFINE c == j - i
  <2>1. /\ c \in Nat /\ DOMAIN SubSeq(b, i, j - 1) = 1 .. c
        /\ \A k \in 1 .. c :
              SubSeq(b, i, j - 1)[k] = b[i + k - 1] /\ i + k - 1 \in 1 .. n
    BY <1>1 DEF Buffer, n
  <2>2. PICK h : /\ h[0] = 0
                 /\ \A k \in 1 .. c : h[k] = h[k - 1] + SubSeq(b, i, j - 1)[k].tokens
                 /\ Total(b, i, j) = h[c]
    <3> HIDE DEF c
    <3>1. PICK h : Sums(h, b, i, j, c)
      BY <2>1, SumFold
    <3> QED
      BY <3>1 DEF Sums
  <2> DEFINE S == {k \in Nat : k <= c => h[k] = g[i + k - 1] - g[i - 1]}
  <2>3. 0 \in S
    BY <1>1, <1>3, <2>2
  <2>4. ASSUME NEW k \in Nat, k \in S
        PROVE  k + 1 \in S
    <3> SUFFICES ASSUME k + 1 <= c
                 PROVE  h[k + 1] = g[i + (k + 1) - 1] - g[i - 1]
      OBVIOUS
    <3> DEFINE m == i + k
    <3>1. /\ k + 1 \in 1 .. c /\ (k + 1) - 1 = k /\ i + (k + 1) - 1 = m
          /\ m \in 1 .. n /\ m - 1 \in 0 .. n /\ i - 1 \in 0 .. n
          /\ h[k] = g[m - 1] - g[i - 1]
      BY <1>1, <2>4
    <3> HIDE DEF m
    <3>2. h[k + 1] = h[k] + b[m].tokens /\ g[m] = g[m - 1] + b[m].tokens
      BY <1>2, <2>1, <2>2, <3>1
    <3>3. g[m] \in Nat /\ g[m - 1] \in Nat /\ g[i - 1] \in Nat /\ b[m].tokens \in Nat
      BY <1>1, <1>3, <3>1
    <3> QED
      BY <3>1, <3>2, <3>3
  <2>5. Nat \subseteq S
    <3> HIDE DEF S
    <3> QED
      BY <2>3, <2>4, NatInduct
  <2>6. c \in S /\ i + c - 1 = j - 1
    BY <1>1, <2>1, <2>5
  <2> QED
    BY <2>1, <2>2, <2>6
<1> DEFINE p == [k \in 0 .. n |-> g[k]]
<1>6. p \in [0 .. n -> Nat]
  BY <1>3
<1>7. \A k, l \in 0 .. n : k <= l => p[k] <= p[l]
  BY <1>1, <1>4
<1>8. \A i \in 1 .. n + 1 : \A j \in i .. n + 1 : Total(b, i, j) = p[j - 1] - p[i - 1]
  BY <1>1, <1>5
<1> HIDE DEF p
<1> QED
  BY <1>6, <1>7, <1>8 DEF n

LEMMA WindowEndIsLast ==
    ASSUME NEW b, Buffer(b), NEW i \in 1 .. Len(b)
    PROVE  /\ WindowEnd(b, i) \in i + 1 .. Len(b) + 1
           /\ Total(b, i, WindowEnd(b, i)) <= Target \/ WindowEnd(b, i) = i + 1
           /\ \A j \in i + 1 .. Len(b) + 1 : Total(b, i, j) <= Target => j <= WindowEnd(b, i)
<1> DEFINE fit == {j \in i + 1 .. Len(b) + 1 : Total(b, i, j) <= Target}
           S == {i + 1} \cup fit
<1>0. Len(b) \in Nat
  BY DEF Buffer
<1>1. /\ S \subseteq Int /\ i + 1 \in S /\ Len(b) + 1 \in Int
      /\ \A x \in S : x <= Len(b) + 1 /\ x >= i + 1
      /\ \A x \in S : x = i + 1 \/ Total(b, i, x) <= Target
      /\ \A j \in i + 1 .. Len(b) + 1 : Total(b, i, j) <= Target => j \in S
  BY <1>0
<1>2. WindowEnd(b, i) = Max(S)
  BY DEF WindowEnd
<1> HIDE DEF S
<1> DEFINE m == Max(S)
<1>3. m \in S /\ \A y \in S : y <= m
  BY <1>1, MaxOf
<1> HIDE DEF m
<1>4. m \in i + 1 .. Len(b) + 1
  BY <1>0, <1>1, <1>3
<1>5. Total(b, i, m) <= Target \/ m = i + 1
  BY <1>1, <1>3
<1>6. \A j \in i + 1 .. Len(b) + 1 : Total(b, i, j) <= Target => j <= m
  BY <1>1, <1>3
<1> QED
  BY <1>2, <1>4, <1>5, <1>6 DEF m

LEMMA WindowEndMoves ==
    ASSUME NEW b, Buffer(b), NEW i \in 1 .. Len(b), NEW k \in i .. Len(b)
    PROVE  WindowEnd(b, i) <= WindowEnd(b, k)
<1>0. Len(b) \in Nat
  BY DEF Buffer
<1> DEFINE n == Len(b)
           j == WindowEnd(b, i)
<1>1. k \in 1 .. n /\ j \in i + 1 .. n + 1 /\ WindowEnd(b, k) \in k + 1 .. n + 1
  BY <1>0, WindowEndIsLast
<1>2. CASE j <= k + 1
  BY <1>0, <1>1, <1>2
<1>3. CASE j > k + 1
  <2>1. Total(b, i, j) <= Target
    BY <1>0, <1>1, <1>3, WindowEndIsLast
  <2>2. PICK p \in [0 .. n -> Nat] :
              /\ \A x, y \in 0 .. n : x <= y => p[x] <= p[y]
              /\ \A x \in 1 .. n + 1 : \A y \in x .. n + 1 : Total(b, x, y) = p[y - 1] - p[x - 1]
    BY TotalIsDifference
  <2> HIDE DEF j
  <2>3. Total(b, i, j) = p[j - 1] - p[i - 1] /\ Total(b, k, j) = p[j - 1] - p[k - 1]
    BY <1>0, <1>1, <1>3, <2>2
  <2>a. i - 1 \in 0 .. n /\ k - 1 \in 0 .. n /\ j - 1 \in 0 .. n /\ i - 1 <= k - 1
    BY <1>0, <1>1
  <2>4. p[i - 1] <= p[k - 1] /\ p[i - 1] \in Nat /\ p[k - 1] \in Nat /\ p[j - 1] \in Nat
    BY <2>a, <2>2
  <2>5. Total(b, k, j) <= Target
    BY <2>1, <2>3, <2>4, ChunkerAssumption
  <2>6. j \in k + 1 .. n + 1
    BY <1>0, <1>1, <1>3
  <2> QED
    BY <1>1, <2>5, <2>6, WindowEndIsLast DEF j
<1> QED
  BY <1>0, <1>1, <1>2, <1>3

LEMMA RestartIsInside ==
    ASSUME NEW b, Buffer(b), NEW i \in 1 .. Len(b), NEW j \in i + 1 .. Len(b) + 1
    PROVE  Restart(b, i, j) \in i + 1 .. j
<1> DEFINE small == {k \in i .. j - 1 : b[k].tokens <= Overlap}
           starts == {i + 1, j - Cardinality(small)}
           from == Max(starts)
           tails == {k \in from .. j - 1 : Total(b, k, j) >= Overlap}
<1>0. Len(b) \in Nat
  BY DEF Buffer
<1>1. Cardinality(small) \in Nat
  <2>1. IsFiniteSet(i .. j - 1)
    BY <1>0, FS_Interval
  <2>2. small \subseteq i .. j - 1
    OBVIOUS
  <2> HIDE DEF small
  <2> QED
    BY <2>1, <2>2, FS_Subset, FS_CardinalityType
<1>2. Restart(b, i, j) = IF tails = {} THEN j ELSE Max(tails)
  BY DEF Restart
<1>3. from \in i + 1 .. j
  <2> HIDE DEF small
  <2>1. starts \subseteq Int /\ i + 1 \in starts /\ \A x \in starts : x <= j
    BY <1>0, <1>1
  <2>2. j \in Int /\ i + 1 \in Int
    BY <1>0
  <2> HIDE DEF starts
  <2>3. from \in starts /\ \A y \in starts : y <= from
    BY <2>1, <2>2, MaxOf
  <2> HIDE DEF from
  <2>4. from \in Int /\ from <= j /\ i + 1 <= from
    BY <2>1, <2>3
  <2> QED
    BY <2>2, <2>4
<1> HIDE DEF from
<1>4. ASSUME tails # {}
      PROVE  Max(tails) \in tails
  <2>1. tails \subseteq Int /\ j \in Int /\ \A x \in tails : x <= j
    BY <1>0, <1>3
  <2> HIDE DEF tails
  <2> QED
    BY <1>4, <2>1, MaxOf
<1>5. CASE tails = {}
  BY <1>0, <1>2, <1>5
<1>6. CASE tails # {}
  BY <1>0, <1>2, <1>3, <1>4, <1>6
<1> QED
  BY <1>5, <1>6

\* The window that starts at i, then those of the text it restarts at.
FromHere(b, f, i) ==
    IF i > Len(b) THEN <<>>
    ELSE <<<<i, WindowEnd(b, i)>>>> \o f[Restart(b, i, WindowEnd(b, i))]

WindowsFold(b, f) ==
    /\ \A i \in 1 .. Len(b) + 1 : f[i] = FromHere(b, f, i)
    /\ Windows(b) = f[1]

LEMMA WindowsAreFolded ==
    ASSUME NEW b, Buffer(b)
    PROVE  \E f : WindowsFold(b, f)
<1> DEFINE n == Len(b)
           R(k) == (n + 1) - k .. n + 1
           E == {k \in Nat : k <= n => \E f : f = [i \in R(k) |-> FromHere(b, f, i)]}
<1>0. n \in Nat
  BY DEF Buffer
<1>1. 0 \in E
  <2> DEFINE f == [i \in R(0) |-> <<>>]
  <2>1. \A i \in R(0) : FromHere(b, f, i) = <<>>
    BY <1>0 DEF FromHere
  <2>2. f = [i \in R(0) |-> FromHere(b, f, i)]
    BY <2>1
  <2> QED
    BY <2>2
<1>2. ASSUME NEW k \in Nat, k \in E
      PROVE  k + 1 \in E
  <2> SUFFICES ASSUME k + 1 <= n
               PROVE  \E f : f = [i \in R(k + 1) |-> FromHere(b, f, i)]
    OBVIOUS
  <2>1. PICK f : f = [i \in R(k) |-> FromHere(b, f, i)]
    BY <1>0, <1>2
  <2> DEFINE h == [i \in R(k + 1) |-> FromHere(b, f, i)]
  <2>2. \A i \in R(k) : h[i] = f[i]
    <3>1. \A i \in R(k) : i \in R(k + 1)
      BY <1>0
    <3> HIDE DEF R
    <3>2. \A i \in R(k) : f[i] = FromHere(b, f, i)
      BY <2>1
    <3> QED
      BY <3>1, <3>2
  <2>3. \A i \in R(k + 1) : FromHere(b, f, i) = FromHere(b, h, i)
    <3> SUFFICES ASSUME NEW i \in R(k + 1)
                 PROVE  FromHere(b, f, i) = FromHere(b, h, i)
      OBVIOUS
    <3>0. CASE i > n
      BY <3>0 DEF FromHere
    <3>n. CASE i <= n
      <4>1. i \in 1 .. n
        BY <1>0, <3>n
      <4> DEFINE j == WindowEnd(b, i)
                 r == Restart(b, i, j)
      <4>2. j \in i + 1 .. n + 1
        BY <4>1, WindowEndIsLast
      <4>3. r \in i + 1 .. j
        <5> HIDE DEF j
        <5> QED
          BY <4>1, <4>2, RestartIsInside
      <4>4. r \in R(k)
        <5> HIDE DEF j, r
        <5> QED
          BY <1>0, <4>1, <4>2, <4>3
      <4>5. h[r] = f[r]
        <5> HIDE DEF h, r, R
        <5> QED
          BY <2>2, <4>4
      <4> QED
        BY <4>5 DEF FromHere
    <3> QED
      BY <1>0, <3>0, <3>n
  <2>4. h = [i \in R(k + 1) |-> FromHere(b, h, i)]
    BY <2>3
  <2> HIDE DEF h, R
  <2> QED
    BY <2>4
<1>3. n \in E
  <2> HIDE DEF E
  <2> QED
    BY <1>0, <1>1, <1>2, NatInduct
<1>4. R(n) = 1 .. n + 1
  BY <1>0
<1> DEFINE Is(f) == f = [i \in 1 .. n + 1 |-> FromHere(b, f, i)]
           iter == CHOOSE f : Is(f)
<1>5. \E f : Is(f)
  BY <1>3, <1>4
<1>6. Is(iter)
  <2> HIDE DEF Is
  <2> QED
    BY <1>5
<1>7. Windows(b) = iter[1]
  BY DEF Windows, FromHere
<1> HIDE DEF iter
<1>8. \A i \in 1 .. n + 1 : iter[i] = FromHere(b, iter, i)
  BY <1>6
<1>9. WindowsFold(b, iter)
  BY <1>7, <1>8 DEF WindowsFold
<1> QED
  BY <1>9

\* w packs the texts of b from i on.
PacksFrom(b, i, w) ==
    /\ w \in Seq((1 .. Len(b)) \X (2 .. Len(b) + 1))
    /\ i = Len(b) + 1 => w = <<>>
    /\ i <= Len(b) => w # <<>> /\ w[1] = <<i, WindowEnd(b, i)>> /\ w[Len(w)][2] = Len(b) + 1
    /\ \A k \in 1 .. Len(w) - 1 :
          /\ w[k][1] < w[k + 1][1] /\ w[k + 1][1] <= w[k][2]
          /\ w[k][2] <= w[k + 1][2]
    /\ \A k \in 1 .. Len(w) :
          /\ w[k][1] < w[k][2]
          /\ Total(b, w[k][1], w[k][2]) <= Target \/ w[k][2] = w[k][1] + 1
    /\ \A m \in i .. Len(b) : \E k \in 1 .. Len(w) : w[k][1] <= m /\ m < w[k][2]

LEMMA OneMoreWindow ==
    ASSUME NEW b, Buffer(b), NEW i \in 1 .. Len(b), NEW v,
           PacksFrom(b, Restart(b, i, WindowEnd(b, i)), v)
    PROVE  PacksFrom(b, i, <<<<i, WindowEnd(b, i)>>>> \o v)
<1> DEFINE n == Len(b)
           j == WindowEnd(b, i)
           r == Restart(b, i, j)
           P == (1 .. n) \X (2 .. n + 1)
           x == <<i, j>>
           w == <<x>> \o v
<1>0. n \in Nat
  BY DEF Buffer
<1>1. j \in i + 1 .. n + 1 /\ (Total(b, i, j) <= Target \/ j = i + 1)
  BY WindowEndIsLast
<1>2. r \in i + 1 .. j
  <2> HIDE DEF j
  <2> QED
    BY <1>1, RestartIsInside
<1>3. r <= n => j <= WindowEnd(b, r) /\ WindowEnd(b, r) \in Nat
  <2> SUFFICES ASSUME r <= n
               PROVE  j <= WindowEnd(b, r) /\ WindowEnd(b, r) \in Nat
    OBVIOUS
  <2>1. r \in i .. n /\ r \in 1 .. n
    <3> HIDE DEF j, r
    <3> QED
      BY <1>0, <1>1, <1>2
  <2> HIDE DEF r
  <2>2. WindowEnd(b, r) \in r + 1 .. n + 1
    BY <2>1, WindowEndIsLast
  <2> QED
    BY <1>0, <2>1, <2>2, WindowEndMoves
<1>4. PacksFrom(b, r, v)
  OBVIOUS
<1> HIDE DEF j, r
<1>5. x \in P /\ v \in Seq(P) /\ x[1] = i /\ x[2] = j
  BY <1>0, <1>1, <1>4 DEF PacksFrom
<1> HIDE DEF P, x
<1>6. <<x>> \in Seq(P) /\ Len(<<x>>) = 1 /\ <<x>>[1] = x
  BY <1>5
<1>7. /\ w \in Seq(P) /\ Len(w) = 1 + Len(v) /\ Len(v) \in Nat
      /\ w[1] = x /\ \A k \in 1 .. Len(v) : w[k + 1] = v[k]
  <2>1. /\ w \in Seq(P) /\ Len(w) = Len(<<x>>) + Len(v)
        /\ \A k \in 1 .. Len(<<x>>) + Len(v) :
              w[k] = IF k <= Len(<<x>>) THEN <<x>>[k] ELSE v[k - Len(<<x>>)]
    BY <1>5, <1>6, ConcatProperties
  <2>2. Len(v) \in Nat
    BY <1>5
  <2> HIDE DEF w
  <2>3. \A k \in 1 .. Len(v) :
            k + 1 \in 1 .. 1 + Len(v) /\ ~ (k + 1 <= 1) /\ (k + 1) - 1 = k
    BY <2>2
  <2>4. \A k \in 1 .. Len(v) : w[k + 1] = v[k]
    BY <1>6, <2>1, <2>3
  <2>5. w[1] = x
    BY <1>6, <2>1, <2>2
  <2> QED
    BY <1>6, <2>1, <2>2, <2>4, <2>5
<1> HIDE DEF w
<1> DEFINE l == Len(v)
<1>a. l \in Nat /\ Len(w) = 1 + l
  BY <1>7
<1>8. r = n + 1 => l = 0 /\ v = <<>> /\ j = n + 1
  BY <1>0, <1>1, <1>2, <1>4 DEF PacksFrom
<1>9. r # n + 1 => l >= 1 /\ v[1] = <<r, WindowEnd(b, r)>> /\ v[l][2] = n + 1
  <2>1. r # n + 1 => r <= n
    BY <1>0, <1>1, <1>2
  <2> QED
    BY <1>5, <2>1, <1>4, EmptySeq DEF PacksFrom
<1>10. \A k \in 1 .. Len(w) : k = 1 \/ (k - 1 \in 1 .. l /\ w[k] = v[k - 1])
  <2>1. \A k \in 1 .. Len(w) : k = 1 \/ (k - 1 \in 1 .. l /\ (k - 1) + 1 = k)
    BY <1>a
  <2> QED
    BY <1>7, <2>1
<1>11. w # <<>> /\ w[1] = <<i, j>> /\ w[Len(w)][2] = n + 1
  <2>1. w # <<>> /\ w[1] = <<i, j>>
    BY <1>7 DEF x
  <2>2. CASE r = n + 1
    BY <1>5, <1>7, <1>8, <2>1, <2>2
  <2>3. CASE r # n + 1
    <3>1. l >= 1 /\ v[l][2] = n + 1 /\ l \in 1 .. Len(v) /\ Len(w) = l + 1
      BY <1>a, <1>9, <2>3
    <3>2. w[l + 1] = v[l]
      BY <1>7, <3>1
    <3> QED
      BY <2>1, <3>1, <3>2
  <2> QED
    BY <2>1, <2>2, <2>3
<1>12. ASSUME NEW k \in 1 .. Len(w) - 1
       PROVE  /\ w[k][1] < w[k + 1][1] /\ w[k + 1][1] <= w[k][2]
              /\ w[k][2] <= w[k + 1][2]
  <2>1. CASE k = 1
    <3>1. r # n + 1
      BY <1>a, <1>8, <2>1
    <3>2. r <= n
      BY <1>0, <1>1, <1>2, <3>1
    <3>3. w[1] = x /\ w[2] = v[1] /\ v[1][1] = r /\ v[1][2] = WindowEnd(b, r)
      BY <1>7, <1>9, <3>1
    <3> QED
      BY <1>0, <1>1, <1>2, <1>3, <1>5, <2>1, <3>2, <3>3
  <2>2. CASE k # 1
    <3>1. k - 1 \in 1 .. l - 1 /\ k - 1 \in 1 .. l /\ k \in 1 .. l /\ (k - 1) + 1 = k
      BY <1>a, <2>2
    <3>2. w[k] = v[k - 1] /\ w[k + 1] = v[k]
      BY <1>7, <3>1
    <3>3. /\ v[k - 1][1] < v[(k - 1) + 1][1] /\ v[(k - 1) + 1][1] <= v[k - 1][2]
          /\ v[k - 1][2] <= v[(k - 1) + 1][2]
      BY <1>4, <3>1 DEF PacksFrom
    <3> QED
      BY <3>1, <3>2, <3>3
  <2> QED
    BY <2>1, <2>2
<1>13. ASSUME NEW k \in 1 .. Len(w)
       PROVE  /\ w[k][1] < w[k][2]
              /\ Total(b, w[k][1], w[k][2]) <= Target \/ w[k][2] = w[k][1] + 1
  <2>1. CASE k = 1
    BY <1>1, <1>5, <1>7, <2>1
  <2>2. CASE k # 1
    <3>1. k - 1 \in 1 .. l /\ w[k] = v[k - 1]
      BY <1>10, <2>2
    <3> QED
      BY <1>4, <3>1 DEF PacksFrom
  <2> QED
    BY <2>1, <2>2
<1>14. ASSUME NEW m \in i .. n
       PROVE  \E k \in 1 .. Len(w) : w[k][1] <= m /\ m < w[k][2]
  <2>1. CASE m < j
    <3>1. 1 \in 1 .. Len(w) /\ w[1][1] <= m /\ m < w[1][2]
      BY <1>a, <1>5, <1>7, <2>1
    <3> QED
      BY <3>1
  <2>2. CASE m >= j
    <3>1. m \in r .. n
      BY <1>0, <1>1, <1>2, <2>2
    <3>2. PICK k \in 1 .. l : v[k][1] <= m /\ m < v[k][2]
      BY <1>4, <3>1 DEF PacksFrom
    <3>3. k + 1 \in 1 .. Len(w) /\ w[k + 1] = v[k]
      BY <1>a, <1>7
    <3> QED
      BY <3>2, <3>3
  <2> QED
    BY <1>0, <1>1, <2>1, <2>2
<1>15. i # n + 1
  BY <1>0
<1>16. PacksFrom(b, i, w)
  BY <1>7, <1>11, <1>12, <1>13, <1>14, <1>15 DEF PacksFrom, P, j
<1> QED
  BY <1>16 DEF w, x, j

LEMMA WindowsPack ==
    ASSUME NEW b, Buffer(b)
    PROVE  PacksFrom(b, 1, Windows(b))
<1> DEFINE n == Len(b)
<1>0. n \in Nat
  BY DEF Buffer
<1>1. PICK f : WindowsFold(b, f)
  BY WindowsAreFolded
<1> DEFINE S == {d \in Nat : \A i \in 1 .. n + 1 : i + d >= n + 1 => PacksFrom(b, i, f[i])}
<1>2. 0 \in S
  <2> SUFFICES PacksFrom(b, n + 1, f[n + 1])
    BY <1>0
  <2>1. f[n + 1] = <<>>
    <3>1. f[n + 1] = FromHere(b, f, n + 1)
      BY <1>0, <1>1 DEF WindowsFold
    <3> QED
      BY <1>0, <3>1 DEF FromHere
  <2> QED
    BY <1>0, <2>1 DEF PacksFrom
<1>3. ASSUME NEW d \in Nat, d \in S
      PROVE  d + 1 \in S
  <2> SUFFICES ASSUME NEW i \in 1 .. n + 1, i + (d + 1) >= n + 1
               PROVE  PacksFrom(b, i, f[i])
    OBVIOUS
  <2>1. CASE i = n + 1
    BY <1>0, <1>3, <2>1
  <2>2. CASE i # n + 1
    <3> DEFINE j == WindowEnd(b, i)
               r == Restart(b, i, j)
    <3>1. i \in 1 .. n
      BY <1>0, <2>2
    <3>2. j \in i + 1 .. n + 1
      BY <3>1, WindowEndIsLast
    <3>3. r \in i + 1 .. j
      <4> HIDE DEF j
      <4> QED
        BY <3>1, <3>2, RestartIsInside
    <3>4. f[i] = <<<<i, j>>>> \o f[r]
      <4>1. f[i] = FromHere(b, f, i)
        BY <1>1 DEF WindowsFold
      <4> QED
        BY <1>0, <3>1, <4>1 DEF FromHere
    <3>5. r \in 1 .. n + 1 /\ r + d >= n + 1
      <4> HIDE DEF j, r
      <4> QED
        BY <1>0, <3>1, <3>2, <3>3
    <3>6. PacksFrom(b, r, f[r])
      <4> HIDE DEF j, r
      <4> QED
        BY <1>3, <3>5
    <3> QED
      BY <3>1, <3>4, <3>6, OneMoreWindow
  <2> QED
    BY <2>1, <2>2
<1>4. n \in S
  <2>1. Nat \subseteq S
    <3> HIDE DEF S
    <3> QED
      BY <1>2, <1>3, NatInduct
  <2> QED
    BY <1>0, <2>1
<1> QED
  BY <1>0, <1>1, <1>4 DEF WindowsFold

LEMMA BufferPacks == \A b : Buffer(b) => PacksWell(b)
<1> SUFFICES ASSUME NEW b, Buffer(b), b # <<>>
             PROVE  PacksWell(b)
  BY DEF PacksWell
<1>1. Len(b) \in Nat /\ 1 <= Len(b)
  BY DEF Buffer
<1>2. PacksFrom(b, 1, Windows(b))
  BY WindowsPack
<1> DEFINE w == Windows(b)
<1> HIDE DEF w
<1>3. w # <<>> /\ w[1][1] = 1 /\ w[Len(w)][2] = Len(b) + 1
  <2>1. w # <<>> /\ w[1] = <<1, WindowEnd(b, 1)>> /\ w[Len(w)][2] = Len(b) + 1
    BY <1>1, <1>2 DEF PacksFrom, w
  <2> QED
    BY <2>1
<1>4. \A k \in 1 .. Len(w) - 1 :
          /\ w[k][1] < w[k + 1][1] /\ w[k + 1][1] <= w[k][2]
          /\ w[k][2] <= w[k + 1][2]
  BY <1>2 DEF PacksFrom, w
<1>5. \A k \in 1 .. Len(w) : Total(b, w[k][1], w[k][2]) <= Target \/ w[k][2] = w[k][1] + 1
  BY <1>2 DEF PacksFrom, w
<1> QED
  BY <1>3, <1>4, <1>5 DEF PacksWell, w

\* Whatever the lengths of the texts, the windows cover the buffer in order with
\* no gap, every one starts later than the one before (so that the loop ends),
\* and none exceeds the target unless it is a single text (chunker.py:97-155).
THEOREM EveryBufferPacksWell ==
    /\ \A b \in Buffers : PacksWell(b)
    /\ IngestSpec => []PackingIsSound
<1>1. \A b \in Buffers : PacksWell(b)
  BY BufferPacks, BuffersAssumption DEF Buffer
<1>2. PackingIsSound
  BY <1>1 DEF PackingIsSound
<1> QED
  BY <1>1, <1>2, PTL

-----------------------------------------------------------------------------
(* The chunks of a document.                                               *)

ChunkRows ==
    [kind : ElementType, body : Seq(STRING), meta : STRING, parent : Nat, size : Nat]

\* Position h is none, or that of a heading.
Heads(cs, h) == h = 0 \/ (h \in 1 .. Len(cs) /\ cs[h].kind = "heading")

\* Every parent is none or a heading.
Parented(cs) == cs \in Seq(ChunkRows) /\ \A k \in 1 .. Len(cs) : Heads(cs, cs[k].parent)

\* The name x is in a chunk of cs.
Holds(cs, x) == \E c \in 1 .. Len(cs) : \E k \in 1 .. Len(cs[c].body) : cs[c].body[k] = x

\* The state of the loop in chunk_elements.
Headed(st) ==
    /\ st \in [chunks : Seq(ChunkRows), heading : Nat, buffer : Seq(Element)]
    /\ Parented(st.chunks) /\ Heads(st.chunks, st.heading)

\* The element of that name is in a chunk, or in the buffer.
Taken(st, x) == Holds(st.chunks, x) \/ \E m \in 1 .. Len(st.buffer) : st.buffer[m].content = x

LEMMA ChunkIsARow ==
    ASSUME NEW kind \in ElementType, NEW es, Buffer(es), Len(es) # 0, NEW parent \in Nat
    PROVE  /\ Chunk(kind, es, parent) \in ChunkRows
           /\ Chunk(kind, es, parent).kind = kind /\ Chunk(kind, es, parent).parent = parent
           /\ Len(Chunk(kind, es, parent).body) = Len(es)
           /\ \A k \in 1 .. Len(es) : Chunk(kind, es, parent).body[k] = es[k].content
<1> DEFINE n == Len(es)
           body == [k \in 1 .. n |-> es[k].content]
           size == Total(es, 1, n + 1)
<1>1. n \in Nat /\ \A k \in 1 .. n : es[k].content \in STRING
  <2>1. n \in Nat /\ \A k \in 1 .. n : es[k] \in Element
    BY DEF Buffer
  <2> QED
    BY <2>1 DEF Element
<1>2. body \in Seq(STRING) /\ Len(body) = n /\ \A k \in 1 .. n : body[k] = es[k].content
  BY <1>1
<1>3. size \in Nat
  <2>1. PICK p \in [0 .. n -> Nat] :
              /\ \A x, y \in 0 .. n : x <= y => p[x] <= p[y]
              /\ \A x \in 1 .. n + 1 : \A y \in x .. n + 1 : Total(es, x, y) = p[y - 1] - p[x - 1]
    BY TotalIsDifference
  <2>2. 1 \in 1 .. n + 1 /\ n + 1 \in 1 .. n + 1 /\ 0 \in 0 .. n /\ n \in 0 .. n /\ 0 <= n
        /\ (n + 1) - 1 = n /\ 1 - 1 = 0
    BY <1>1
  <2>3. size = p[n] - p[0] /\ p[0] <= p[n] /\ p[0] \in Nat /\ p[n] \in Nat
    BY <2>1, <2>2
  <2> QED
    BY <2>3
<1> DEFINE meta == es[1].meta
<1>m. meta \in STRING
  <2>1. 1 \in 1 .. n
    BY <1>1
  <2>2. es[1] \in Element
    BY <2>1 DEF Buffer
  <2> QED
    BY <2>2 DEF Element
<1>4. Chunk(kind, es, parent) =
        [kind |-> kind, body |-> body, meta |-> meta, parent |-> parent, size |-> size]
  BY DEF Chunk
<1> HIDE DEF body, size, n, meta
<1>5. [kind |-> kind, body |-> body, meta |-> meta, parent |-> parent, size |-> size]
        \in ChunkRows
  BY <1>2, <1>3, <1>m DEF ChunkRows
<1> QED
  BY <1>2, <1>4, <1>5 DEF n

LEMMA HoldsOn ==
    ASSUME NEW cs, NEW ds, Len(cs) \in Nat, Len(ds) \in Nat, Len(cs) <= Len(ds),
           \A k \in 1 .. Len(cs) : ds[k] = cs[k]
    PROVE  /\ \A x : Holds(cs, x) => Holds(ds, x)
           /\ \A h : Heads(cs, h) => Heads(ds, h)
<1>1. \A k \in 1 .. Len(cs) : k \in 1 .. Len(ds)
  OBVIOUS
<1>2. ASSUME NEW x, Holds(cs, x)
      PROVE  Holds(ds, x)
  BY <1>1, <1>2 DEF Holds
<1>3. ASSUME NEW h, Heads(cs, h)
      PROVE  Heads(ds, h)
  BY <1>1, <1>3 DEF Heads
<1> QED
  BY <1>2, <1>3

\* More chunks of the same heading.
LEMMA Extended ==
    ASSUME NEW cs, Parented(cs), NEW ds \in Seq(ChunkRows), NEW h, Heads(cs, h),
           \A k \in 1 .. Len(ds) : ds[k].parent = h
    PROVE  /\ Parented(cs \o ds) /\ Len(cs \o ds) = Len(cs) + Len(ds)
           /\ \A x : Holds(cs, x) \/ Holds(ds, x) => Holds(cs \o ds, x)
           /\ \A k : Heads(cs, k) => Heads(cs \o ds, k)
           /\ \A k \in 1 .. Len(ds) : (cs \o ds)[Len(cs) + k] = ds[k]
<1> DEFINE es == cs \o ds
<1>1. cs \in Seq(ChunkRows) /\ Len(cs) \in Nat /\ Len(ds) \in Nat
  BY DEF Parented
<1>2. /\ es \in Seq(ChunkRows) /\ Len(es) = Len(cs) + Len(ds)
      /\ \A k \in 1 .. Len(cs) + Len(ds) :
            es[k] = IF k <= Len(cs) THEN cs[k] ELSE ds[k - Len(cs)]
  BY <1>1, ConcatProperties
<1> HIDE DEF es
<1>3. \A k \in 1 .. Len(cs) : k \in 1 .. Len(cs) + Len(ds) /\ k <= Len(cs)
  BY <1>1
<1>4. \A k \in 1 .. Len(cs) : es[k] = cs[k]
  BY <1>2, <1>3
<1>5. \A k \in 1 .. Len(ds) :
          /\ Len(cs) + k \in 1 .. Len(cs) + Len(ds)
          /\ ~ (Len(cs) + k <= Len(cs)) /\ (Len(cs) + k) - Len(cs) = k
  BY <1>1
<1>6. \A k \in 1 .. Len(ds) : es[Len(cs) + k] = ds[k]
  BY <1>2, <1>5
<1>7. \A x : Holds(cs, x) => Holds(es, x)
  BY <1>1, <1>2, <1>4, HoldsOn
<1>8. \A k : Heads(cs, k) => Heads(es, k)
  BY <1>1, <1>2, <1>4, HoldsOn
<1>9. ASSUME NEW x, Holds(ds, x)
      PROVE  Holds(es, x)
  <2>1. PICK c \in 1 .. Len(ds) : \E k \in 1 .. Len(ds[c].body) : ds[c].body[k] = x
    BY <1>9 DEF Holds
  <2>2. Len(cs) + c \in 1 .. Len(es) /\ es[Len(cs) + c] = ds[c]
    BY <1>2, <1>5, <1>6
  <2> QED
    BY <2>1, <2>2 DEF Holds
<1>10. ASSUME NEW k \in 1 .. Len(es)
       PROVE  Heads(es, es[k].parent)
  <2>1. CASE k <= Len(cs)
    BY <1>1, <1>2, <1>4, <1>8, <2>1 DEF Parented
  <2>2. CASE k > Len(cs)
    <3>1. k - Len(cs) \in 1 .. Len(ds) /\ Len(cs) + (k - Len(cs)) = k
      BY <1>1, <1>2, <2>2
    <3>2. es[k].parent = h
      BY <1>6, <3>1
    <3> QED
      BY <1>8, <3>2
  <2> QED
    BY <1>1, <1>2, <2>1, <2>2
<1>11. Parented(es)
  BY <1>2, <1>10 DEF Parented
<1> QED
  BY <1>2, <1>6, <1>7, <1>8, <1>9, <1>11 DEF es

\* One more chunk.
LEMMA Appended ==
    ASSUME NEW cs, Parented(cs), NEW c \in ChunkRows, Heads(cs, c.parent)
    PROVE  /\ Parented(Append(cs, c)) /\ Len(Append(cs, c)) = Len(cs) + 1
           /\ Append(cs, c)[Len(cs) + 1] = c
           /\ \A x : Holds(cs, x) => Holds(Append(cs, c), x)
           /\ \A k : Heads(cs, k) => Heads(Append(cs, c), k)
<1> DEFINE es == Append(cs, c)
           n == Len(cs)
<1>1. cs \in Seq(ChunkRows) /\ n \in Nat
  BY DEF Parented
<1>2. /\ es \in Seq(ChunkRows) /\ Len(es) = n + 1 /\ es[n + 1] = c
      /\ \A k \in 1 .. n : es[k] = cs[k]
  BY <1>1, AppendProperties
<1> HIDE DEF es
<1>3. \A x : Holds(cs, x) => Holds(es, x)
  BY <1>1, <1>2, HoldsOn
<1>4. \A k : Heads(cs, k) => Heads(es, k)
  BY <1>1, <1>2, HoldsOn
<1>5. ASSUME NEW k \in 1 .. Len(es)
      PROVE  Heads(es, es[k].parent)
  <2>1. CASE k \in 1 .. n
    BY <1>2, <1>4, <2>1 DEF Parented
  <2>2. CASE k = n + 1
    BY <1>2, <1>4, <2>2
  <2> QED
    BY <1>1, <1>2, <2>1, <2>2
<1>6. Parented(es)
  BY <1>2, <1>5 DEF Parented
<1> QED
  BY <1>2, <1>3, <1>4, <1>6 DEF es

LEMMA Flushed ==
    ASSUME NEW st, Headed(st)
    PROVE  /\ Headed(Flush(st)) /\ Flush(st).buffer = <<>> /\ Flush(st).heading = st.heading
           /\ \A x : Taken(st, x) => Holds(Flush(st).chunks, x)
<1> DEFINE b == st.buffer
           n == Len(b)
           w == Windows(b)
           Text(k) == Chunk("text", SubSeq(b, w[k][1], w[k][2] - 1), st.heading)
           ds == [k \in 1 .. Len(w) |-> Text(k)]
           cs == st.chunks
<1>1. /\ cs \in Seq(ChunkRows) /\ b \in Seq(Element) /\ st.heading \in Nat
      /\ st \in [chunks : Seq(ChunkRows), heading : Nat, buffer : Seq(Element)]
      /\ Parented(cs) /\ Heads(cs, st.heading)
  BY DEF Headed
<1>2. PacksFrom(b, 1, w) /\ n \in Nat
  BY <1>1, WindowsPack DEF Buffer
<1>3. Flush(st) = [st EXCEPT !.chunks = cs \o ds, !.buffer = <<>>]
  BY Zenon DEF Flush
<1> HIDE DEF w
<1>4. Len(w) \in Nat /\ \A k \in 1 .. Len(w) :
          /\ w[k][1] \in 1 .. n /\ w[k][2] \in 2 .. n + 1 /\ w[k][1] < w[k][2]
  <2>1. w \in Seq((1 .. n) \X (2 .. n + 1)) /\ \A k \in 1 .. Len(w) : w[k][1] < w[k][2]
    BY <1>2 DEF PacksFrom
  <2>2. Len(w) \in Nat /\ \A k \in 1 .. Len(w) : w[k] \in (1 .. n) \X (2 .. n + 1)
    BY <2>1
  <2> QED
    BY <2>1, <2>2
<1>5. ASSUME NEW k \in 1 .. Len(w)
      PROVE  /\ Text(k) \in ChunkRows /\ Text(k).parent = st.heading
             /\ Len(Text(k).body) = w[k][2] - w[k][1]
             /\ \A m \in w[k][1] .. w[k][2] - 1 :
                   Text(k).body[m - w[k][1] + 1] = b[m].content
  <2> DEFINE i == w[k][1]
             j == w[k][2]
             es == SubSeq(b, i, j - 1)
  <2>1. i \in 1 .. n /\ j \in 2 .. n + 1 /\ i < j
    BY <1>4
  <2> HIDE DEF i, j
  <2>2. /\ es \in Seq(Element) /\ Len(es) = j - i
        /\ \A m \in i .. j - 1 : m - i + 1 \in 1 .. j - i /\ es[m - i + 1] = b[m]
    <3>1. i \in 1 .. n + 1 /\ j - 1 \in i - 1 .. n /\ (j - 1) - i + 1 = j - i
      BY <1>2, <2>1
    <3>2. /\ es \in Seq(Element) /\ Len(es) = (j - 1) - i + 1
          /\ \A m \in 1 .. (j - 1) - i + 1 : es[m] = b[i + m - 1]
      BY <1>1, <3>1, SubSeqProperties
    <3>3. \A m \in i .. j - 1 : m - i + 1 \in 1 .. j - i /\ i + (m - i + 1) - 1 = m
      BY <1>2, <2>1
    <3> HIDE DEF es
    <3> QED
      BY <3>1, <3>2, <3>3
  <2> HIDE DEF es
  <2>3. Text(k) = Chunk("text", es, st.heading)
    BY DEF es, i, j
  <2> HIDE DEF Text
  <2>4. Buffer(es) /\ Len(es) # 0
    BY <2>1, <2>2 DEF Buffer
  <2>a. "text" \in ElementType
    BY DEF ElementType
  <2>5. /\ Text(k) \in ChunkRows /\ Text(k).parent = st.heading
        /\ Len(Text(k).body) = Len(es)
        /\ \A m \in 1 .. Len(es) : Text(k).body[m] = es[m].content
    BY ONLY <1>1, <2>3, <2>4, <2>a, ChunkIsARow
  <2>6. \A m \in i .. j - 1 : Text(k).body[m - i + 1] = b[m].content
    BY <2>2, <2>5
  <2> QED
    BY <2>2, <2>5, <2>6 DEF i, j
<1> HIDE DEF Text
<1>6. ds \in Seq(ChunkRows) /\ Len(ds) = Len(w) /\ \A k \in 1 .. Len(w) : ds[k] = Text(k)
  BY <1>4, <1>5
<1> HIDE DEF ds
<1>7. /\ Parented(cs \o ds)
      /\ \A x : Holds(cs, x) \/ Holds(ds, x) => Holds(cs \o ds, x)
      /\ Heads(cs \o ds, st.heading)
  <2>1. \A k \in 1 .. Len(ds) : ds[k].parent = st.heading
    BY <1>5, <1>6
  <2> QED
    BY <1>1, <1>6, <2>1, Extended
<1>8. ASSUME NEW m \in 1 .. n
      PROVE  Holds(ds, b[m].content)
  <2>1. PICK k \in 1 .. Len(w) : w[k][1] <= m /\ m < w[k][2]
    BY <1>2 DEF PacksFrom
  <2> DEFINE i == w[k][1]
             j == w[k][2]
  <2>2. i \in Nat /\ j \in Nat /\ m \in i .. j - 1 /\ m - i + 1 \in 1 .. j - i
    BY <1>2, <1>4, <2>1
  <2>3. Len(ds[k].body) = j - i /\ ds[k].body[m - i + 1] = b[m].content /\ k \in 1 .. Len(ds)
    BY <1>5, <1>6, <2>2
  <2> HIDE DEF i, j
  <2> QED
    BY <2>2, <2>3 DEF Holds
<1>9. ASSUME NEW x, Taken(st, x)
      PROVE  Holds(cs \o ds, x)
  <2>1. CASE Holds(cs, x)
    BY <1>7, <2>1
  <2>2. CASE \E m \in 1 .. n : b[m].content = x
    BY <1>7, <1>8, <2>2
  <2> QED
    BY <1>9, <2>1, <2>2 DEF Taken
<1>10. /\ Flush(st).chunks = cs \o ds /\ Flush(st).buffer = <<>>
       /\ Flush(st).heading = st.heading
       /\ Flush(st) \in [chunks : Seq(ChunkRows), heading : Nat, buffer : Seq(Element)]
  <2>1. cs \o ds \in Seq(ChunkRows) /\ <<>> \in Seq(Element)
    BY <1>7, EmptySeq DEF Parented
  <2> HIDE DEF cs
  <2> QED
    BY <1>1, <1>3, <2>1
<1> QED
  BY <1>7, <1>9, <1>10 DEF Headed

LEMMA TakeKeeps ==
    ASSUME NEW st, Headed(st), NEW e \in Element
    PROVE  /\ Headed(Take(st, e)) /\ Taken(Take(st, e), e.content)
           /\ \A x : Taken(st, x) => Taken(Take(st, e), x)
<1> DEFINE f == Flush(st)
           t == Take(st, e)
           LoopStates == [chunks : Seq(ChunkRows), heading : Nat, buffer : Seq(Element)]
<1>1. /\ Headed(f) /\ f.buffer = <<>> /\ f.heading = st.heading
      /\ \A x : Taken(st, x) => Holds(f.chunks, x)
  BY Flushed
<1>2. /\ st \in LoopStates /\ Parented(st.chunks) /\ Heads(st.chunks, st.heading)
      /\ f \in LoopStates /\ Parented(f.chunks) /\ Heads(f.chunks, f.heading)
      /\ e.kind \in ElementType /\ e.content \in STRING
  BY <1>1 DEF Headed, Element
<1> DEFINE b == Append(st.buffer, e)
           cs == f.chunks
<1>3. /\ b \in Seq(Element) /\ Len(st.buffer) \in Nat /\ Len(b) = Len(st.buffer) + 1
      /\ b[Len(st.buffer) + 1] = e
      /\ \A k \in 1 .. Len(st.buffer) : b[k] = st.buffer[k] /\ k \in 1 .. Len(b)
      /\ Len(st.buffer) + 1 \in 1 .. Len(b)
  <2>1. st.buffer \in Seq(Element)
    BY <1>2
  <2>2. /\ b \in Seq(Element) /\ Len(b) = Len(st.buffer) + 1 /\ Len(st.buffer) \in Nat
        /\ b[Len(st.buffer) + 1] = e
        /\ \A k \in 1 .. Len(st.buffer) : b[k] = st.buffer[k]
    BY <2>1, AppendProperties
  <2> HIDE DEF b
  <2> QED
    BY <2>2
<1>4. Buffer(<<e>>) /\ Len(<<e>>) = 1 /\ <<e>>[1] = e /\ 1 \in 1 .. Len(<<e>>)
      /\ "heading" \in ElementType
  <2>1. <<e>> \in Seq(Element) /\ Len(<<e>>) = 1 /\ <<e>>[1] = e
    OBVIOUS
  <2>2. "heading" \in ElementType
    BY DEF ElementType
  <2> QED
    BY <2>1, <2>2 DEF Buffer
<1>5. ASSUME NEW c \in ChunkRows, Heads(cs, c.parent), Len(c.body) = 1, c.body[1] = e.content
      PROVE  /\ Parented(Append(cs, c)) /\ Len(Append(cs, c)) = Len(cs) + 1 /\ Len(cs) \in Nat
             /\ Append(cs, c) \in Seq(ChunkRows)
             /\ Append(cs, c)[Len(cs) + 1] = c
             /\ Heads(Append(cs, c), f.heading)
             /\ Holds(Append(cs, c), e.content)
             /\ \A x : Taken(st, x) => Holds(Append(cs, c), x)
  <2> DEFINE ds == Append(cs, c)
  <2>1. /\ Parented(ds) /\ Len(ds) = Len(cs) + 1 /\ ds[Len(cs) + 1] = c
        /\ \A x : Holds(cs, x) => Holds(ds, x)
        /\ \A k : Heads(cs, k) => Heads(ds, k)
    BY <1>2, <1>5, Appended
  <2>2. Len(cs) \in Nat /\ ds \in Seq(ChunkRows)
    BY <1>2, <2>1 DEF Parented
  <2> HIDE DEF ds
  <2>3. Len(cs) + 1 \in 1 .. Len(ds) /\ 1 \in 1 .. Len(ds[Len(cs) + 1].body)
    BY <1>5, <2>1, <2>2
  <2>4. Holds(ds, e.content)
    BY <1>5, <2>1, <2>3 DEF Holds
  <2> QED
    BY <1>1, <1>2, <2>1, <2>2, <2>4 DEF ds
<1> HIDE DEF b, f
<1>6. CASE e.kind = "text"
  <2>1. t = [st EXCEPT !.buffer = b]
    BY <1>6 DEF Take, b
  <2> HIDE DEF t
  <2>2. t \in LoopStates /\ t.chunks = st.chunks /\ t.heading = st.heading /\ t.buffer = b
    BY <1>2, <1>3, <2>1
  <2>3. Headed(t)
    BY <1>2, <2>2 DEF Headed
  <2>4. Taken(t, e.content) /\ \A x : Taken(st, x) => Taken(t, x)
    BY <1>3, <2>2 DEF Taken
  <2> QED
    BY <2>3, <2>4 DEF t
<1>7. CASE e.kind = "heading"
  <2> DEFINE c == Chunk("heading", <<e>>, 0)
  <2>1. /\ c \in ChunkRows /\ c.kind = "heading" /\ c.parent = 0
        /\ Len(c.body) = 1 /\ c.body[1] = e.content
    BY <1>4, ChunkIsARow
  <2>2. t = [f EXCEPT !.chunks = Append(cs, c), !.heading = Len(cs) + 1]
    BY <1>7 DEF Take, f
  <2> HIDE DEF c, t
  <2>3. Heads(cs, c.parent)
    BY <2>1 DEF Heads
  <2>4. /\ Parented(Append(cs, c)) /\ Len(Append(cs, c)) = Len(cs) + 1 /\ Len(cs) \in Nat
        /\ Append(cs, c) \in Seq(ChunkRows) /\ Append(cs, c)[Len(cs) + 1] = c
        /\ Holds(Append(cs, c), e.content)
        /\ \A x : Taken(st, x) => Holds(Append(cs, c), x)
    BY <1>5, <2>1, <2>3
  <2>5. t \in LoopStates /\ t.chunks = Append(cs, c) /\ t.heading = Len(cs) + 1
    <3>1. f \in LoopStates /\ Append(cs, c) \in Seq(ChunkRows) /\ Len(cs) + 1 \in Nat
      BY <1>2, <2>4
    <3> HIDE DEF cs
    <3> DEFINE ds == Append(cs, c)
               h == Len(cs) + 1
    <3>2. t = [f EXCEPT !.chunks = ds, !.heading = h] /\ ds \in Seq(ChunkRows) /\ h \in Nat
      BY <2>2, <3>1
    <3> HIDE DEF ds, h
    <3>3. t \in LoopStates /\ t.chunks = ds /\ t.heading = h
      BY <3>1, <3>2
    <3> QED
      BY <3>3 DEF ds, h
  <2>6. Heads(t.chunks, t.heading)
    BY <2>1, <2>4, <2>5 DEF Heads
  <2>7. Headed(t) /\ Taken(t, e.content) /\ \A x : Taken(st, x) => Taken(t, x)
    BY <2>4, <2>5, <2>6 DEF Headed, Taken
  <2> QED
    BY <2>7 DEF t
<1>8. CASE e.kind \notin {"text", "heading"}
  <2> DEFINE c == Chunk(e.kind, <<e>>, st.heading)
  <2>0. st.heading \in Nat
    BY <1>2
  <2>1. /\ c \in ChunkRows /\ c.parent = st.heading
        /\ Len(c.body) = 1 /\ c.body[1] = e.content
    <3> DEFINE xs == <<e>>
    <3>1. Buffer(xs) /\ Len(xs) = 1 /\ Len(xs) # 0 /\ xs[1] = e /\ 1 \in 1 .. Len(xs)
      BY <1>4
    <3>3. e.kind \in ElementType
      BY <1>2
    <3> HIDE DEF xs
    <3>2. /\ Chunk(e.kind, xs, st.heading) \in ChunkRows
          /\ Chunk(e.kind, xs, st.heading).parent = st.heading
          /\ Len(Chunk(e.kind, xs, st.heading).body) = Len(xs)
          /\ \A k \in 1 .. Len(xs) : Chunk(e.kind, xs, st.heading).body[k] = xs[k].content
      <4>1. ASSUME NEW kind \in ElementType, NEW p \in Nat
            PROVE  /\ Chunk(kind, xs, p) \in ChunkRows /\ Chunk(kind, xs, p).parent = p
                   /\ Len(Chunk(kind, xs, p).body) = Len(xs)
                   /\ \A k \in 1 .. Len(xs) : Chunk(kind, xs, p).body[k] = xs[k].content
        BY ONLY <3>1, ChunkIsARow
      <4> QED
        BY ONLY <2>0, <3>3, <4>1
    <3> QED
      BY <3>1, <3>2 DEF xs
  <2>2. t = [f EXCEPT !.chunks = Append(cs, c)]
    BY <1>8 DEF Take, f
  <2> HIDE DEF c, t
  <2>3. Heads(cs, c.parent)
    BY <1>1, <1>2, <2>1
  <2>4. /\ Parented(Append(cs, c)) /\ Append(cs, c) \in Seq(ChunkRows)
        /\ Heads(Append(cs, c), f.heading) /\ Holds(Append(cs, c), e.content)
        /\ \A x : Taken(st, x) => Holds(Append(cs, c), x)
    BY <1>5, <2>1, <2>3
  <2>5. t \in LoopStates /\ t.chunks = Append(cs, c) /\ t.heading = f.heading
    BY <1>2, <2>2, <2>4
  <2>6. Headed(t) /\ Taken(t, e.content) /\ \A x : Taken(st, x) => Taken(t, x)
    BY <2>4, <2>5 DEF Headed, Taken
  <2> QED
    BY <2>6 DEF t
<1> QED
  BY <1>6, <1>7, <1>8

\* Every element of a document is in a chunk, and the parent of every chunk is a
\* heading, whatever the elements (chunker.py:84-197).
THEOREM ChunkingLosesNothing ==
    ASSUME NEW es \in Seq(Element)
    PROVE  /\ Parented(chunk_elements(es))
           /\ \A i \in 1 .. Len(es) : Holds(chunk_elements(es), es[i].content)
<1> DEFINE n == Len(es)
           start == [chunks |-> <<>>, heading |-> 0, buffer |-> <<>>]
<1>1. n \in Nat /\ DOMAIN es = 1 .. n /\ \A k \in 1 .. n : es[k] \in Element
  OBVIOUS
<1>2. Headed(start)
  <2>1. <<>> \in Seq(ChunkRows) /\ <<>> \in Seq(Element) /\ Len(<<>>) = 0
    BY EmptySeq
  <2>2. start \in [chunks : Seq(ChunkRows), heading : Nat, buffer : Seq(Element)]
        /\ start.chunks = <<>> /\ start.heading = 0
    BY <2>1
  <2>3. Parented(<<>>) /\ Heads(<<>>, 0)
    BY <2>1 DEF Parented, Heads
  <2> HIDE DEF start
  <2> QED
    BY <2>2, <2>3 DEF Headed
<1> HIDE DEF start
<1>3. PICK g : States(g, start, es, n)
  BY <1>1, TakeFold
<1> DEFINE S == {k \in Nat : k <= n => /\ Headed(g[k])
                                       /\ \A i \in 1 .. k : Taken(g[k], es[i].content)}
<1>4. 0 \in S
  BY <1>2, <1>3 DEF States
<1>5. ASSUME NEW k \in Nat, k \in S
      PROVE  k + 1 \in S
  <2> SUFFICES ASSUME k + 1 <= n
               PROVE  /\ Headed(g[k + 1])
                      /\ \A i \in 1 .. k + 1 : Taken(g[k + 1], es[i].content)
    OBVIOUS
  <2>1. k + 1 \in 1 .. n /\ (k + 1) - 1 = k /\ k <= n
    BY <1>1
  <2>2. Headed(g[k]) /\ \A i \in 1 .. k : Taken(g[k], es[i].content)
    BY <1>5, <2>1
  <2>3. g[k + 1] = Take(g[k], es[k + 1]) /\ es[k + 1] \in Element
    BY <1>1, <1>3, <2>1 DEF States
  <2>4. /\ Headed(g[k + 1]) /\ Taken(g[k + 1], es[k + 1].content)
        /\ \A x : Taken(g[k], x) => Taken(g[k + 1], x)
    BY <2>2, <2>3, TakeKeeps
  <2>5. \A i \in 1 .. k + 1 : i \in 1 .. k \/ i = k + 1
    OBVIOUS
  <2> QED
    BY <2>2, <2>4, <2>5
<1>6. Headed(g[n]) /\ \A i \in 1 .. n : Taken(g[n], es[i].content)
  <2>1. Nat \subseteq S
    <3> HIDE DEF S
    <3> QED
      BY <1>4, <1>5, NatInduct
  <2> QED
    BY <1>1, <2>1
<1>7. chunk_elements(es) = Flush(g[n]).chunks
  BY <1>3 DEF chunk_elements, start, States
<1>8. /\ Headed(Flush(g[n]))
      /\ \A x : Taken(g[n], x) => Holds(Flush(g[n]).chunks, x)
  BY <1>6, Flushed
<1> QED
  BY <1>6, <1>7, <1>8 DEF Headed

-----------------------------------------------------------------------------
(* Reciprocal rank fusion.                                                 *)

LEMMA TimesLess ==
    ASSUME NEW x \in Nat, NEW y \in Nat, NEW z \in Nat, x > 0, y < z
    PROVE  x * y < x * z
OBVIOUS

\* With a, b the denominators of two ranks and c that of a third.
LEMMA SumBeatsThird ==
    ASSUME NEW a \in Nat \ {0}, NEW b \in Nat \ {0}, NEW c \in Nat \ {0}, a < 2 * c, b < 2 * c
    PROVE  (a + b) * c > a * b
<1>1. a * b < a * (2 * c)
  BY TimesLess
<1>2. b * a < b * (2 * c)
  BY TimesLess
<1>3. a * (2 * c) = 2 * (a * c) /\ b * (2 * c) = 2 * (b * c) /\ b * a = a * b
  OBVIOUS
<1>4. (a + b) * c = a * c + b * c
  OBVIOUS
<1>5. a * b \in Nat /\ a * c \in Nat /\ b * c \in Nat
  OBVIOUS
<1> QED BY <1>1, <1>2, <1>3, <1>4, <1>5

\* A row that both searches found scores higher than a row that one of them found,
\* whatever their ranks (hybrid.py:14-16, 43-44).
THEOREM AgreementScoresHigher ==
    ASSUME NEW i \in 1 .. Fetch, NEW j \in 1 .. Fetch, NEW k \in 1 .. Fetch
    PROVE  /\ Above(rrf_score(i, j), rrf_score(k, 0))
           /\ Above(rrf_score(i, j), rrf_score(0, k))
<1> DEFINE a == RrfK + i
           b == RrfK + j
           c == RrfK + k
<1>1. /\ a \in Nat \ {0} /\ b \in Nat \ {0} /\ c \in Nat \ {0}
      /\ a < 2 * c /\ b < 2 * c
  BY RetrievalAssumption
<1>2. (a + b) * c > a * b
  <2> HIDE DEF a, b, c
  <2> QED BY <1>1, SumBeatsThird
<1>3. i # 0 /\ j # 0 /\ k # 0 /\ 2 * RrfK + i + j = a + b /\ RrfK + k + 0 = c /\ RrfK + 0 + k = c
  BY RetrievalAssumption
<1>4. /\ rrf_score(i, j) = Fraction(a + b, a * b)
      /\ rrf_score(k, 0) = Fraction(1, c) /\ rrf_score(0, k) = Fraction(1, c)
  BY <1>3 DEF rrf_score
<1> HIDE DEF a, b, c
<1>5. (a + b) * c > 1 * (a * b)
  BY <1>1, <1>2
<1> QED BY <1>4, <1>5 DEF Fraction, Above

\* What is at least as high as what is at least as high, with c, d for the
\* denominator of the second.
LEMMA HigherIsTransitive ==
    ASSUME NEW an \in Nat, NEW ad \in Nat, NEW bn \in Nat, NEW bd \in Nat,
           NEW cn \in Nat, NEW cd \in Nat, bd > 0,
           an * bd >= bn * ad, bn * cd >= cn * bd
    PROVE  an * cd >= cn * ad
<1>1. /\ an * cd \in Nat /\ cn * ad \in Nat /\ an * bd \in Nat /\ bn * ad \in Nat
      /\ bn * cd \in Nat /\ cn * bd \in Nat
  OBVIOUS
<1>2. cd * (bn * ad) <= cd * (an * bd) /\ ad * (cn * bd) <= ad * (bn * cd)
  <2>1. ASSUME NEW x \in Nat, NEW y \in Nat, NEW z \in Nat, y <= z
        PROVE  x * y <= x * z
    BY <2>1
  <2> QED
    BY <2>1, <1>1
<1>3. /\ cd * (an * bd) = bd * (an * cd) /\ ad * (cn * bd) = bd * (cn * ad)
      /\ cd * (bn * ad) = ad * (bn * cd)
  OBVIOUS
<1>4. bd * (cn * ad) <= bd * (an * cd)
  BY <1>1, <1>2, <1>3
<1>5. CASE an * cd < cn * ad
  <2>1. bd * (an * cd) < bd * (cn * ad)
    BY <1>1, <1>5, TimesLess
  <2>2. bd * (an * cd) \in Nat /\ bd * (cn * ad) \in Nat
    BY <1>1
  <2> QED
    BY <1>4, <2>1, <2>2
<1> QED
  BY <1>1, <1>5

Fractions == [num : Nat, den : Nat \ {0}]

LEMMA ScoresAreFractions ==
    ASSUME NEW i \in 0 .. Fetch, NEW j \in 0 .. Fetch
    PROVE  rrf_score(i, j) \in Fractions
<1>1. RrfK \in Nat \ {0} /\ i \in Nat /\ j \in Nat
  BY RetrievalAssumption
<1>2. 2 * RrfK + i + j \in Nat /\ RrfK + i + j \in Nat \ {0} /\ 1 \in Nat
  BY <1>1
<1>3. (RrfK + i) * (RrfK + j) \in Nat \ {0}
  <2>1. RrfK + i \in Nat \ {0} /\ RrfK + j \in Nat \ {0}
    BY <1>1
  <2>2. ASSUME NEW x \in Nat \ {0}, NEW y \in Nat \ {0}
        PROVE  x * y \in Nat \ {0}
    OBVIOUS
  <2> QED
    BY <2>1, <2>2
<1> QED
  BY <1>2, <1>3 DEF rrf_score, Fraction, Fractions

LEMMA AboveOrders ==
    ASSUME NEW x \in Fractions, NEW y \in Fractions, NEW z \in Fractions
    PROVE  /\ ~ Above(x, x)
           /\ Above(x, y) => ~ Above(y, x)
           /\ ~ Above(y, x) /\ ~ Above(z, y) => ~ Above(z, x)
<1>1. /\ x.num \in Nat /\ x.den \in Nat /\ y.num \in Nat /\ y.den \in Nat /\ y.den > 0
      /\ z.num \in Nat /\ z.den \in Nat
  BY DEF Fractions
<1>2. \A m, n \in Nat : m * n \in Nat
  OBVIOUS
<1>3. /\ x.num * y.den \in Nat /\ y.num * x.den \in Nat /\ x.num * x.den \in Nat
      /\ y.num * z.den \in Nat /\ z.num * y.den \in Nat
      /\ x.num * z.den \in Nat /\ z.num * x.den \in Nat
  BY <1>1, <1>2
<1>4. ~ Above(x, x) /\ (Above(x, y) => ~ Above(y, x))
  BY <1>3 DEF Above
<1>5. ASSUME ~ Above(y, x), ~ Above(z, y)
      PROVE  ~ Above(z, x)
  <2>1. x.num * y.den >= y.num * x.den /\ y.num * z.den >= z.num * y.den
    BY <1>3, <1>5 DEF Above
  <2>2. x.num * z.den >= z.num * x.den
    BY <1>1, <2>1, HigherIsTransitive
  <2> QED
    BY <1>3, <2>2 DEF Above
<1> QED
  BY <1>4, <1>5

\* The stable order of the scores.
ByScore(score, n) ==
    {p \in (1 .. n) \X (1 .. n) :
        \/ Above(score[p[1]], score[p[2]])
        \/ ~ Above(score[p[2]], score[p[1]]) /\ p[1] < p[2]}

LEMMA ByScoreOrders ==
    ASSUME NEW n \in Nat, NEW score \in [1 .. n -> Fractions]
    PROVE  Orders(ByScore(score, n), 1 .. n)
<1> DEFINE D == 1 .. n
           Up(k, l) == Above(score[k], score[l])
           R == ByScore(score, n)
<1>1. \A k, l \in D : <<k, l>> \in R <=> Up(k, l) \/ (~ Up(l, k) /\ k < l)
  BY DEF ByScore
<1>2. \A k, l, m \in D : /\ ~ Up(k, k) /\ (Up(k, l) => ~ Up(l, k))
                         /\ ~ Up(l, k) /\ ~ Up(m, l) => ~ Up(m, k)
  BY AboveOrders
<1>3. D \subseteq Nat
  OBVIOUS
<1> HIDE DEF D, Up, R
<1>4. \A k \in D : <<k, k>> \notin R
  BY <1>1, <1>2, <1>3
<1>5. \A k, l \in D : k # l => <<k, l>> \in R \/ <<l, k>> \in R
  BY <1>1, <1>2, <1>3
<1>6. ASSUME NEW k \in D, NEW l \in D, NEW m \in D, <<k, l>> \in R, <<l, m>> \in R
      PROVE  <<k, m>> \in R
  <2>1. k \in Nat /\ l \in Nat /\ m \in Nat
    BY <1>3
  <2>2. (Up(k, l) \/ (~ Up(l, k) /\ k < l)) /\ (Up(l, m) \/ (~ Up(m, l) /\ l < m))
    BY <1>1, <1>6
  <2>3. ~ Up(l, k) /\ ~ Up(m, l) /\ ~ Up(m, k)
    BY <1>2, <2>2
  <2>4. CASE Up(k, m)
    BY <2>4, <1>1
  <2>5. CASE ~ Up(k, m)
    <3>1. ~ Up(k, l)
      BY <2>3, <2>5, <1>2
    <3>2. ~ Up(l, m)
      BY <2>3, <2>5, <1>2
    <3>3. k < m
      BY <3>1, <3>2, <2>1, <2>2
    <3> QED
      BY <3>3, <2>3, <1>1
  <2> QED
    BY <2>4, <2>5
<1> QED
  BY <1>4, <1>5, <1>6 DEF Orders, D, R

LEMMA ListOfRows ==
    ASSUME NEW list \in RowLists
    PROVE  /\ list \in Seq(Rows) /\ Len(list) \in 0 .. Fetch /\ DOMAIN list = 1 .. Len(list)
           /\ \A k, l \in DOMAIN list : list[k] = list[l] => k = l
<1>1. PICK n \in 0 .. Fetch : list \in [1 .. n -> Rows]
  BY DEF RowLists
<1>2. n \in Nat
  BY <1>1, RetrievalAssumption
<1>3. list \in Seq(Rows) /\ Len(list) = n
  BY <1>1, <1>2
<1> QED
  BY <1>1, <1>2, <1>3 DEF RowLists

LEMMA RankOf ==
    ASSUME NEW list \in RowLists, NEW row
    PROVE  \/ Rank(list, row) = 0 /\ ~ Contains(list, row)
           \/ Rank(list, row) \in 1 .. Fetch /\ Contains(list, row)
<1> DEFINE I == {i \in 1 .. Len(list) : list[i] = row}
<1>1. Rank(list, row) = IF I # {} THEN Min(I) ELSE 0
  BY DEF Rank, SelectInSeq
<1>2. Len(list) \in 0 .. Fetch /\ Fetch \in Nat
  BY ListOfRows, RetrievalAssumption
<1>3. I \subseteq Nat /\ \A i \in I : i \in 1 .. Fetch
  BY <1>2
<1>4. Contains(list, row) <=> I # {}
  BY DEF Contains
<1> HIDE DEF I
<1> QED
  BY <1>1, <1>3, <1>4, FirstOf

\* Every row found is in one of the lists, and none is there twice.
LEMMA CandidatesAreFound ==
    ASSUME NEW dense \in RowLists, NEW sparse \in RowLists
    PROVE  LET found == Candidates(dense, sparse)
           IN  /\ found \in Seq(Rows)
               /\ \A k \in DOMAIN found : Contains(dense, found[k]) \/ Contains(sparse, found[k])
               /\ \A k, l \in DOMAIN found : found[k] = found[l] => k = l
<1> DEFINE P == {k \in DOMAIN sparse : ~ Contains(dense, sparse[k])}
           rest == Pick(sparse, P)
           found == dense \o rest
           n == Len(dense)
<1>1. /\ dense \in Seq(Rows) /\ DOMAIN dense = 1 .. n /\ n \in Nat
      /\ \A k, l \in 1 .. n : dense[k] = dense[l] => k = l
  <2>1. dense \in Seq(Rows)
    BY ListOfRows
  <2> QED
    BY <2>1, ListOfRows
<1>2. /\ sparse \in Seq(Rows) /\ DOMAIN sparse = 1 .. Len(sparse) /\ Len(sparse) \in Nat
      /\ \A k, l \in DOMAIN sparse : sparse[k] = sparse[l] => k = l
  <2>1. sparse \in Seq(Rows)
    BY ListOfRows
  <2> QED
    BY <2>1, ListOfRows
<1>3. P \in SUBSET DOMAIN sparse /\ \A k \in P : ~ Contains(dense, sparse[k])
  OBVIOUS
<1> HIDE DEF P, n
<1>4. rest \in Seq(Rows) /\ \E at : Picked(rest, sparse, P, at)
  BY <1>2, <1>3, PickPicks
<1>5. PICK at : Picked(rest, sparse, P, at)
  BY <1>4
<1> DEFINE m == Len(rest)
<1> HIDE DEF rest
<1>6. m \in Nat /\ DOMAIN rest = 1 .. m
  BY <1>4
<1>7. /\ \A k \in 1 .. m : /\ at[k] \in P /\ at[k] \in DOMAIN sparse /\ at[k] \in Nat
                           /\ rest[k] = sparse[at[k]]
      /\ \A k, l \in 1 .. m : k < l => at[k] < at[l]
  BY <1>2, <1>3, <1>5 DEF Picked
<1>8. ASSUME NEW k \in 1 .. m, NEW l \in 1 .. m, rest[k] = rest[l]
      PROVE  k = l
  <2>1. at[k] = at[l] /\ at[k] \in Nat
    BY <1>2, <1>7, <1>8
  <2>2. ~ (k < l) /\ ~ (l < k)
    BY <2>1, <1>7
  <2> QED
    BY <2>2, <1>6
<1>9. /\ \A k \in 1 .. n : Contains(dense, dense[k])
      /\ \A k \in 1 .. m : Contains(sparse, rest[k]) /\ ~ Contains(dense, rest[k])
  BY <1>1, <1>2, <1>3, <1>7 DEF Contains, n
<1> HIDE DEF m
<1>10. /\ found \in Seq(Rows) /\ DOMAIN found = 1 .. n + m
       /\ \A k \in 1 .. n : found[k] = dense[k]
       /\ \A k \in n + 1 .. n + m : found[k] = rest[k - n] /\ k - n \in 1 .. m
  <2>1. /\ found \in Seq(Rows) /\ Len(found) = n + m
        /\ \A k \in 1 .. n + m : found[k] = IF k <= n THEN dense[k] ELSE rest[k - n]
    BY <1>1, <1>4, <1>6 DEF n, m
  <2> HIDE DEF found
  <2> QED
    BY <1>1, <1>6, <2>1
<1> HIDE DEF found
<1>11. ASSUME NEW k \in DOMAIN found
       PROVE  \/ k \in 1 .. n /\ found[k] = dense[k]
              \/ k - n \in 1 .. m /\ k > n /\ found[k] = rest[k - n]
  <2>1. k \in 1 .. n + m
    BY <1>10
  <2>2. k \in 1 .. n \/ k \in n + 1 .. n + m
    BY <1>1, <1>6, <2>1
  <2>3. CASE k \in 1 .. n
    BY <2>3, <1>10
  <2>4. CASE k \in n + 1 .. n + m
    <3>1. k > n
      BY <2>4, <1>1, <1>6
    <3> QED
      BY <2>4, <3>1, <1>10
  <2> QED
    BY <2>2, <2>3, <2>4
<1>12. \A k \in DOMAIN found : Contains(dense, found[k]) \/ Contains(sparse, found[k])
  BY <1>9, <1>11
<1>13. ASSUME NEW k \in DOMAIN found, NEW l \in DOMAIN found, found[k] = found[l]
       PROVE  k = l
  <2>1. k \in Nat /\ l \in Nat
    BY <1>1, <1>6, <1>10
  <2>2. CASE k \in 1 .. n /\ found[k] = dense[k] /\ l \in 1 .. n /\ found[l] = dense[l]
    BY <2>2, <1>1, <1>13
  <2>3. CASE /\ k - n \in 1 .. m /\ found[k] = rest[k - n]
             /\ l - n \in 1 .. m /\ found[l] = rest[l - n]
    <3>1. k - n = l - n
      BY <2>3, <1>8, <1>13
    <3> QED
      BY <3>1, <2>1, <1>1
  <2>4. CASE k \in 1 .. n /\ found[k] = dense[k] /\ l - n \in 1 .. m /\ found[l] = rest[l - n]
    BY <2>4, <1>9, <1>13
  <2>5. CASE k - n \in 1 .. m /\ found[k] = rest[k - n] /\ l \in 1 .. n /\ found[l] = dense[l]
    BY <2>5, <1>9, <1>13
  <2> QED
    BY <2>2, <2>3, <2>4, <2>5, <1>11
<1>14. Candidates(dense, sparse) = found
  BY DEF Candidates, found, rest, P
<1> QED
  BY <1>10, <1>12, <1>13, <1>14

Score(dense, sparse, row) == rrf_score(Rank(dense, row), Rank(sparse, row))

\* fused has the rows found, each once, and a row above another comes before it.
IsFused(fused, dense, sparse) ==
    /\ fused \in Seq(Rows)
    /\ \A k \in DOMAIN fused : Contains(dense, fused[k]) \/ Contains(sparse, fused[k])
    /\ \A k, l \in DOMAIN fused : fused[k] = fused[l] => k = l
    /\ \A k, l \in DOMAIN fused :
          Above(Score(dense, sparse, fused[k]), Score(dense, sparse, fused[l])) => k < l

LEMMA FusedIsFused ==
    ASSUME NEW dense \in RowLists, NEW sparse \in RowLists
    PROVE  IsFused(Fused(dense, sparse), dense, sparse)
<1> DEFINE found == Candidates(dense, sparse)
           n == Len(found)
           score == [k \in DOMAIN found |->
                        rrf_score(Rank(dense, found[k]), Rank(sparse, found[k]))]
           places == DOMAIN found
           order == Sorted(places, {p \in places \X places :
                        \/ Above(score[p[1]], score[p[2]])
                        \/ ~ Above(score[p[2]], score[p[1]]) /\ p[1] < p[2]})
           R == ByScore(score, n)
           fused == [k \in DOMAIN found |-> found[order[k]]]
<1>1. Fused(dense, sparse) = fused
  BY DEF Fused
<1>2. /\ found \in Seq(Rows)
      /\ \A k \in DOMAIN found : Contains(dense, found[k]) \/ Contains(sparse, found[k])
      /\ \A k, l \in DOMAIN found : found[k] = found[l] => k = l
  BY CandidatesAreFound
<1> HIDE DEF found
<1>3. DOMAIN found = 1 .. n /\ n \in Nat
  BY <1>2
<1>4. /\ score \in [1 .. n -> Fractions]
      /\ \A k \in DOMAIN found : score[k] = Score(dense, sparse, found[k])
  <2>1. \A row : Rank(dense, row) \in 0 .. Fetch /\ Rank(sparse, row) \in 0 .. Fetch
    BY RankOf, RetrievalAssumption
  <2>2. \A row : rrf_score(Rank(dense, row), Rank(sparse, row)) \in Fractions
    BY <2>1, ScoresAreFractions
  <2> QED
    BY <1>3, <2>2 DEF Score
<1>5. order = Sorted(1 .. n, R)
  BY <1>3 DEF ByScore
<1> HIDE DEF score, n, order
<1>6. Orders(R, 1 .. n)
  BY <1>3, <1>4, ByScoreOrders
<1>7. IsFiniteSet(1 .. n) /\ Cardinality(1 .. n) = n
  BY <1>3, FS_Interval
<1>8. IsList(order, 1 .. n, R)
  BY <1>5, <1>6, <1>7, SortedLists
<1>9. /\ order \in [1 .. n -> 1 .. n] /\ DOMAIN order = 1 .. n
      /\ \A k, l \in 1 .. n : k < l <=> <<order[k], order[l]>> \in R
      /\ \A k, l \in 1 .. n : order[k] = order[l] => k = l
  BY <1>7, <1>8 DEF IsList
<1>10. /\ fused \in Seq(Rows) /\ DOMAIN fused = 1 .. n
       /\ \A k \in 1 .. n : fused[k] = found[order[k]] /\ order[k] \in DOMAIN found
  <2>1. fused \in [1 .. n -> Rows]
    BY <1>2, <1>3, <1>9
  <2> HIDE DEF fused
  <2>2. fused \in Seq(Rows)
    BY <2>1, <1>3
  <2> QED
    BY <2>1, <2>2, <1>3, <1>9 DEF fused
<1> HIDE DEF fused
<1>11. ASSUME NEW k \in DOMAIN fused, NEW l \in DOMAIN fused,
              Above(Score(dense, sparse, fused[k]), Score(dense, sparse, fused[l]))
       PROVE  k < l
  <2>1. Above(score[order[k]], score[order[l]])
    BY <1>4, <1>10, <1>11
  <2>2. <<order[k], order[l]>> \in R
    BY <2>1, <1>9, <1>10 DEF ByScore
  <2> QED
    BY <2>2, <1>9, <1>10
<1>12. /\ \A k \in DOMAIN fused : Contains(dense, fused[k]) \/ Contains(sparse, fused[k])
       /\ \A k, l \in DOMAIN fused : fused[k] = fused[l] => k = l
  <2>1. \A k \in DOMAIN fused : Contains(dense, fused[k]) \/ Contains(sparse, fused[k])
    BY <1>2, <1>10
  <2>2. ASSUME NEW k \in DOMAIN fused, NEW l \in DOMAIN fused, fused[k] = fused[l]
        PROVE  k = l
    <3>1. order[k] = order[l]
      BY <1>2, <1>10, <2>2
    <3> QED
      BY <3>1, <1>9, <1>10
  <2> QED
    BY <2>1, <2>2
<1>13. IsFused(fused, dense, sparse)
  BY <1>10, <1>11, <1>12 DEF IsFused
<1> QED
  BY <1>1, <1>13

LEMMA BothComeFirst ==
    ASSUME NEW dense \in RowLists, NEW sparse \in RowLists
    PROVE  AgreementWins(dense, sparse)
<1> DEFINE fused == Fused(dense, sparse)
           Both(row) == Contains(dense, row) /\ Contains(sparse, row)
<1>1. IsFused(fused, dense, sparse)
  BY FusedIsFused
<1> HIDE DEF fused
<1>2. ASSUME NEW k \in DOMAIN fused, NEW l \in DOMAIN fused, Both(fused[k]), ~ Both(fused[l])
      PROVE  k < l
  <2> DEFINE i == Rank(dense, fused[k])
             j == Rank(sparse, fused[k])
             a == Rank(dense, fused[l])
             b == Rank(sparse, fused[l])
  <2>1. i \in 1 .. Fetch /\ j \in 1 .. Fetch
    BY <1>2, RankOf
  <2>2. Contains(dense, fused[l]) \/ Contains(sparse, fused[l])
    BY <1>1 DEF IsFused
  <2>3. (a \in 1 .. Fetch /\ b = 0) \/ (a = 0 /\ b \in 1 .. Fetch)
    BY <1>2, <2>2, RankOf
  <2> HIDE DEF i, j, a, b
  <2>4. Above(rrf_score(i, j), rrf_score(a, b))
    BY <2>1, <2>3, AgreementScoresHigher
  <2>5. Above(Score(dense, sparse, fused[k]), Score(dense, sparse, fused[l]))
    BY <2>4 DEF Score, i, j, a, b
  <2> QED
    BY <1>1, <2>5 DEF IsFused
<1> QED
  BY <1>2 DEF AgreementWins, fused

\* Whatever the two searches return, and whatever RrfK and Fetch, a row that both
\* found comes before every row that one of them found (hybrid.py:113-148).
THEOREM AgreementComesFirst ==
    /\ \A dense, sparse \in RowLists : AgreementWins(dense, sparse)
    /\ IngestSpec => []RankingIsSound
<1>1. \A dense, sparse \in RowLists : AgreementWins(dense, sparse)
  BY BothComeFirst
<1>2. RankingIsSound
  BY <1>1 DEF RankingIsSound
<1> QED
  BY <1>1, <1>2, PTL

\* No row of the list comes twice.
Distinct(list) == \A k, l \in DOMAIN list : list[k].id = list[l].id => k = l

LEMMA TopOfFused ==
    ASSUME NEW dense \in RowLists, NEW sparse \in RowLists
    PROVE  Top(dense, sparse) \in Seq(Rows) /\ Distinct(Top(dense, sparse))
<1> DEFINE fused == Fused(dense, sparse)
           m == Min({TopK, Len(fused)})
<1>1. IsFused(fused, dense, sparse)
  BY FusedIsFused
<1> HIDE DEF fused
<1>2. fused \in Seq(Rows) /\ \A k, l \in DOMAIN fused : fused[k] = fused[l] => k = l
  BY <1>1 DEF IsFused
<1>3. m \in Nat /\ m <= Len(fused)
  <2>1. TopK \in Nat /\ Len(fused) \in Nat
    BY <1>2, RetrievalAssumption
  <2>2. \E x \in {TopK, Len(fused)} : \A y \in {TopK, Len(fused)} : x <= y
    BY <2>1
  <2>3. m \in {TopK, Len(fused)} /\ \A y \in {TopK, Len(fused)} : m <= y
    BY <2>2 DEF Min
  <2> QED
    BY <2>1, <2>3
<1> HIDE DEF m
<1> DEFINE top == SubSeq(fused, 1, m)
<1>4. top \in Seq(Rows) /\ DOMAIN top = 1 .. m /\ \A k \in 1 .. m : top[k] = fused[k]
  BY <1>2, <1>3
<1>5. \A k \in 1 .. m : k \in DOMAIN fused /\ fused[k] \in Rows
  BY <1>2, <1>3
<1> HIDE DEF top
<1>6. Distinct(top)
  BY <1>2, <1>4, <1>5, RetrievalAssumption DEF Distinct
<1> QED
  BY <1>4, <1>6 DEF Top, fused, m, top

LEMMA SetAsList ==
    ASSUME NEW S, IsFiniteSet(S)
    PROVE  /\ SetToSeq(S) \in [1 .. Cardinality(S) -> S]
           /\ \A k, l \in 1 .. Cardinality(S) : SetToSeq(S)[k] = SetToSeq(S)[l] => k = l
<1>1. PICK n \in Nat : ExistsBijection(1 .. n, S)
  BY FS_NatBijection
<1>2. Cardinality(S) = n
  BY <1>1, FS_CountingElements
<1>3. PICK f \in Bijection(1 .. n, S) : TRUE
  BY <1>1 DEF ExistsBijection
<1>4. f \in [1 .. n -> S] /\ IsInjective(f)
  BY <1>3 DEF Bijection, Injection, IsInjective
<1>5. SetToSeq(S) \in [1 .. n -> S] /\ IsInjective(SetToSeq(S))
  BY <1>2, <1>4 DEF SetToSeq
<1> QED
  BY <1>2, <1>5 DEF IsInjective

LEMMA NothingComesTwice ==
    ASSUME NEW dense \in RowLists, NEW sparse \in RowLists
    PROVE  ReturnsAreDistinct(dense, sparse)
<1> DEFINE top == Top(dense, sparse)
           parents == {row \in Rows : row.id \in ParentIds(top)}
           more == SetToSeq(parents)
           all == top \o more
           long == Pick(all, {k \in DOMAIN all : all[k].chars >= MinChars})
           n == Len(top)
           m == Cardinality(parents)
<1>1. top \in Seq(Rows) /\ Distinct(top)
  BY TopOfFused
<1> HIDE DEF top
<1>2. n \in Nat /\ DOMAIN top = 1 .. n /\ \A k \in 1 .. n : top[k] \in Rows
  BY <1>1
<1>3. /\ IsFiniteSet(parents) /\ m \in Nat /\ parents \subseteq Rows
      /\ \A row \in parents : \A k \in 1 .. n : row.id # top[k].id
  <2>1. IsFiniteSet(parents)
    BY RetrievalAssumption, FS_Subset
  <2>2. \A row \in parents : row.id \notin {top[k].id : k \in DOMAIN top}
    BY DEF ParentIds
  <2> QED
    BY <2>1, <2>2, <1>2, FS_CardinalityType
<1> HIDE DEF parents
<1>4. /\ more \in [1 .. m -> parents]
      /\ \A k, l \in 1 .. m : more[k] = more[l] => k = l
  BY <1>3, SetAsList
<1> HIDE DEF more, m
<1>5. more \in Seq(Rows) /\ Len(more) = m /\ DOMAIN more = 1 .. m
  <2>1. more \in [1 .. m -> Rows]
    BY <1>3, <1>4
  <2> QED
    BY <2>1, <1>3
<1> HIDE DEF n
<1>6. /\ all \in Seq(Rows) /\ DOMAIN all = 1 .. n + m
      /\ \A k \in 1 .. n : all[k] = top[k]
      /\ \A k \in n + 1 .. n + m : all[k] = more[k - n] /\ k - n \in 1 .. m
  <2>1. /\ all \in Seq(Rows) /\ Len(all) = n + m
        /\ \A k \in 1 .. n + m : all[k] = IF k <= n THEN top[k] ELSE more[k - n]
    BY <1>1, <1>2, <1>5 DEF n
  <2> HIDE DEF all
  <2> QED
    BY <1>2, <1>3, <2>1
<1> HIDE DEF all
<1>7. ASSUME NEW k \in DOMAIN all
      PROVE  \/ k \in 1 .. n /\ all[k] = top[k]
             \/ k - n \in 1 .. m /\ all[k] = more[k - n] /\ more[k - n] \in parents
  <2>1. k \in 1 .. n \/ k \in n + 1 .. n + m
    BY <1>2, <1>3, <1>6
  <2> QED
    BY <2>1, <1>4, <1>6
<1>8. Distinct(all)
  <2> SUFFICES ASSUME NEW k \in DOMAIN all, NEW l \in DOMAIN all, all[k].id = all[l].id
               PROVE  k = l
    BY DEF Distinct
  <2>1. k \in Nat /\ l \in Nat
    BY <1>2, <1>3, <1>6
  <2>2. CASE k \in 1 .. n /\ all[k] = top[k] /\ l \in 1 .. n /\ all[l] = top[l]
    BY <2>2, <1>1, <1>2 DEF Distinct
  <2>3. CASE /\ k - n \in 1 .. m /\ all[k] = more[k - n] /\ more[k - n] \in parents
             /\ l - n \in 1 .. m /\ all[l] = more[l - n] /\ more[l - n] \in parents
    <3>1. more[k - n] = more[l - n]
      BY <2>3, <1>3, RetrievalAssumption
    <3>2. k - n = l - n
      BY <2>3, <3>1, <1>4
    <3> QED
      BY <3>2, <2>1, <1>2
  <2>4. CASE /\ k \in 1 .. n /\ all[k] = top[k]
             /\ all[l] = more[l - n] /\ more[l - n] \in parents
    BY <2>4, <1>3
  <2>5. CASE /\ l \in 1 .. n /\ all[l] = top[l]
             /\ all[k] = more[k - n] /\ more[k - n] \in parents
    BY <2>5, <1>3
  <2> QED
    BY <2>2, <2>3, <2>4, <2>5, <1>7
<1> DEFINE P == {k \in DOMAIN all : all[k].chars >= MinChars}
<1>9. P \in SUBSET DOMAIN all
  OBVIOUS
<1>10. \A k \in P : all[k].chars >= MinChars
  OBVIOUS
<1>11. ASSUME NEW k \in DOMAIN all, ~ (k \in P)
       PROVE  all[k].chars < MinChars
  <2>0. all[k] \in Rows
    <3>1. all \in Seq(Rows) /\ k \in DOMAIN all
      BY <1>6
    <3> QED
      BY ONLY <3>1
  <2>1. all[k].chars \in Nat /\ MinChars \in Nat
    BY <2>0, RetrievalAssumption
  <2>2. ~ (all[k].chars >= MinChars)
    BY <1>11
  <2> QED
    BY <2>1, <2>2
<1>12. long = Pick(all, P)
  OBVIOUS
<1> HIDE DEF P, long
<1>13. long \in Seq(Rows) /\ \E at : Picked(long, all, P, at)
  BY <1>6, <1>9, <1>12, PickPicks
<1>14. PICK at : Picked(long, all, P, at)
  BY <1>13
<1>15. /\ DOMAIN long = 1 .. Len(long) /\ Len(long) \in Nat
       /\ \A k \in DOMAIN long : /\ at[k] \in P /\ at[k] \in DOMAIN all /\ at[k] \in Nat
                                 /\ long[k] = all[at[k]]
       /\ \A k, l \in DOMAIN long : k < l => at[k] < at[l]
       /\ \A p \in P : \E k \in DOMAIN long : at[k] = p
  <2>1. DOMAIN long = 1 .. Len(long) /\ Len(long) \in Nat
    BY <1>13
  <2>2. \A k \in DOMAIN all : k \in Nat
    BY <1>2, <1>3, <1>6
  <2> QED
    BY <2>1, <2>2, <1>9, <1>14 DEF Picked
<1>16. Distinct(long)
  <2> SUFFICES ASSUME NEW k \in DOMAIN long, NEW l \in DOMAIN long, long[k].id = long[l].id
               PROVE  k = l
    BY DEF Distinct
  <2>1. at[k] = at[l] /\ at[k] \in Nat
    BY <1>8, <1>15 DEF Distinct
  <2>2. ~ (k < l) /\ ~ (l < k)
    BY <2>1, <1>15
  <2> QED
    BY <2>2, <1>15
<1>17. hybrid_retrieve(dense, sparse, Rows) = IF long = <<>> THEN all ELSE long
  BY DEF hybrid_retrieve, LongOnes, top, all, more, parents, long, P
<1>18. CASE long = <<>>
  <2>1. DOMAIN <<>> = {}
    OBVIOUS
  <2>2. P = {}
    BY <2>1, <1>15, <1>18
  <2>3. \A k \in DOMAIN top : top[k].chars < MinChars
    <3>1. \A k \in DOMAIN top : k \in DOMAIN all /\ all[k] = top[k]
      BY <1>2, <1>3, <1>6
    <3> QED
      BY <2>2, <3>1, <1>11
  <2> QED
    BY <2>3, <1>8, <1>17, <1>18 DEF ReturnsAreDistinct, Distinct, top
<1>19. CASE long # <<>>
  <2>1. \A k \in DOMAIN long : ~ (long[k].chars < MinChars)
    <3>1. \A k \in DOMAIN long : long[k].chars >= MinChars /\ long[k].chars \in Nat
      BY <1>10, <1>13, <1>15, RetrievalAssumption
    <3> QED
      BY <3>1, RetrievalAssumption
  <2> QED
    BY <2>1, <1>16, <1>17, <1>19 DEF ReturnsAreDistinct, Distinct
<1> QED
  BY <1>18, <1>19

\* Whatever the two searches return, no row comes back twice, neither as a result
\* and as its parent nor as the parent of two, and a heading alone only if there is
\* nothing else (hybrid.py:151-221).
THEOREM ResultsComeOnce ==
    /\ \A dense, sparse \in RowLists : ReturnsAreDistinct(dense, sparse)
    /\ IngestSpec => []ResultsAreDistinct
<1>1. \A dense, sparse \in RowLists : ReturnsAreDistinct(dense, sparse)
  BY NothingComesTwice
<1>2. ResultsAreDistinct
  BY <1>1 DEF ResultsAreDistinct
<1> QED
  BY <1>1, <1>2, PTL

-----------------------------------------------------------------------------
(* The catalog.                                                            *)

LEMMA ReferencesStep == ReferencesResolve /\ [IngestNext]_ingestVars => ReferencesResolve'
<1> SUFFICES ASSUME ReferencesResolve, [IngestNext]_ingestVars PROVE ReferencesResolve'
  OBVIOUS
<1>1. CASE UpsertEntities /\ catalog' # catalog
  <2>1. PICK e \in Extracts :
          catalog' = [components |-> catalog.components \cup (e.components \ e.invalid),
                      failures |-> catalog.failures \cup (e.failures \ e.invalid),
                      harnesses |-> catalog.harnesses \cup e.harnesses,
                      links |-> catalog.links \cup KnownLinks(e),
                      benchmarks |-> catalog.benchmarks \cup Benchmarks(e)]
    BY <1>1 DEF UpsertEntities
  <2>2. ASSUME NEW l \in catalog'.links
        PROVE  l[1] \in catalog'.components /\ l[2] \in catalog'.failures
    BY <2>1 DEF ReferencesResolve, KnownLinks
  <2>3. ASSUME NEW b \in catalog'.benchmarks
        PROVE  b[2] \in catalog'.harnesses \cup {NoId}
    BY <2>1 DEF ReferencesResolve, Benchmarks
  <2> QED BY <2>2, <2>3 DEF ReferencesResolve
<1>2. CASE Clean
  BY <1>2 DEF Clean, Empty, ReferencesResolve
<1>3. CASE UNCHANGED catalog
  BY <1>3 DEF ReferencesResolve
<1> QED
  BY <1>1, <1>2, <1>3
  DEF IngestNext, StartRun, UpsertDocument, UpsertChunks, StopRun, Edit, ingestVars, corpus

\* Every stored link and benchmark resolves, whatever the model extracted
\* (entity_extractor.py:332-342, 357-369).
THEOREM CatalogResolves == IngestSpec => []ReferencesResolve
<1>1. IngestInit => ReferencesResolve
  BY DEF IngestInit, Empty, ReferencesResolve
<1> QED BY <1>1, ReferencesStep, PTL DEF IngestSpec

-----------------------------------------------------------------------------
(* Upserts.                                                                *)

\* The hashes of the chunks of a version, of whichever run and summaries.
HashesOf(v) ==
    LET cs == chunk_elements(v.elements)
    IN  {<<cs[k].kind, cs[k].body, cs[k].meta>> : k \in 1 .. Len(cs)}

\* A version that was loaded is present in its document, hash by hash.
LoadedIsPresent == \A x \in loaded : HashesOf(x[2]) \subseteq Present(x[1])

\* Rows differ between runs in their ids and summaries, not in their hashes.
LEMMA RowHashes ==
    ASSUME NEW v, NEW doc, NEW g
    PROVE  /\ \A c \in RowsOf(v, doc, g) : c.hash \in HashesOf(v) /\ c.doc = doc
           /\ \A h \in HashesOf(v) : \E c \in RowsOf(v, doc, g) : c.hash = h
<1> DEFINE cs == chunk_elements(v.elements)
           Id(k) == IF k = 0 THEN NoId ELSE <<count.runs, proc.at, k>>
           Row(k) == [id |-> Id(k), doc |-> doc, kind |-> cs[k].kind, body |-> cs[k].body,
                      parent |-> Id(cs[k].parent), size |-> cs[k].size,
                      hash |-> ContentHash(cs[k], g),
                      section |-> IF cs[k].parent = 0 THEN <<>> ELSE cs[cs[k].parent].body]
           Hash(k) == <<cs[k].kind, cs[k].body, cs[k].meta>>
<1>1. RowsOf(v, doc, g) = {Row(k) : k \in 1 .. Len(cs)}
  BY Zenon DEF RowsOf
<1>2. HashesOf(v) = {Hash(k) : k \in 1 .. Len(cs)}
  BY Zenon DEF HashesOf
<1>3. \A k : Row(k).hash = Hash(k) /\ Row(k).doc = doc
  BY DEF ContentHash
<1> HIDE DEF Row, Hash, cs
<1> QED BY <1>1, <1>2, <1>3

LEMMA LoadedStep == LoadedIsPresent /\ [IngestNext]_ingestVars => LoadedIsPresent'
<1> SUFFICES ASSUME LoadedIsPresent, [IngestNext]_ingestVars PROVE LoadedIsPresent'
  OBVIOUS
<1>1. CASE UpsertChunks
  <2> DEFINE d == proc.doc
             v == proc.version
  <2>1. PICK g \in Glosses :
            chunks' = chunks \cup {c \in RowsOf(v, d, g) : c.hash \notin Present(d)}
    BY <1>1 DEF UpsertChunks
  <2>2. loaded' = loaded \cup {<<d, v>>} /\ chunks \subseteq chunks'
    BY <1>1, <2>1 DEF UpsertChunks
  <2>3. ASSUME NEW x \in loaded' PROVE HashesOf(x[2]) \subseteq Present(x[1])'
    <3>1. CASE x \in loaded
      <4>1. HashesOf(x[2]) \subseteq Present(x[1])
        BY <3>1 DEF LoadedIsPresent
      <4> QED BY <2>2, <4>1 DEF Present
    <3>2. CASE x = <<d, v>>
      <4> SUFFICES ASSUME NEW h \in HashesOf(v) PROVE \E c \in chunks' : c.doc = d /\ c.hash = h
        BY <3>2 DEF Present
      <4>1. CASE h \in Present(d)
        BY <2>2, <4>1 DEF Present
      <4>2. CASE h \notin Present(d)
        <5>1. PICK c \in RowsOf(v, d, g) : c.hash = h /\ c.doc = d
          BY RowHashes
        <5> QED BY <2>1, <4>2, <5>1
      <4> QED BY <4>1, <4>2
    <3> QED BY <2>2, <3>1, <3>2
  <2> QED BY <2>3 DEF LoadedIsPresent
<1>2. CASE Clean
  BY <1>2 DEF Clean, LoadedIsPresent
<1>3. CASE UNCHANGED <<chunks, loaded>>
  BY <1>3 DEF LoadedIsPresent, Present
<1> QED
  BY <1>1, <1>2, <1>3
  DEF IngestNext, StartRun, UpsertDocument, UpsertEntities, StopRun, Edit, ingestVars, corpus

LEMMA IdempotentStep ==
    LoadedIsPresent /\ [IngestNext]_ingestVars =>
        [~ (chunks' \subseteq chunks) => <<proc.doc, proc.version>> \notin loaded]_chunks
<1> SUFFICES ASSUME LoadedIsPresent, [IngestNext]_ingestVars,
                    <<proc.doc, proc.version>> \in loaded
             PROVE  chunks' \subseteq chunks
  OBVIOUS
<1> DEFINE d == proc.doc
           v == proc.version
<1>1. CASE UpsertChunks
  <2>1. PICK g \in Glosses :
            chunks' = chunks \cup {c \in RowsOf(v, d, g) : c.hash \notin Present(d)}
    BY <1>1 DEF UpsertChunks
  <2>2. HashesOf(v) \subseteq Present(d)
    BY DEF LoadedIsPresent
  <2>3. \A c \in RowsOf(v, d, g) : c.hash \in HashesOf(v)
    BY RowHashes
  <2> QED BY <2>1, <2>2, <2>3
<1>2. CASE Clean
  BY <1>2 DEF Clean
<1>3. CASE UNCHANGED chunks
  BY <1>3
<1> QED
  BY <1>1, <1>2, <1>3
  DEF IngestNext, StartRun, UpsertDocument, UpsertEntities, StopRun, Edit, ingestVars, corpus

\* A version whose chunks a document holds is never stored again, whatever the
\* model's summaries and however many runs, crashes and edits (db.py:64-110).
THEOREM UpsertingTwiceAddsNothing == IngestSpec => UpsertsAreIdempotent
<1>1. IngestInit => LoadedIsPresent
  BY DEF IngestInit, LoadedIsPresent
<1> QED BY <1>1, LoadedStep, IdempotentStep, PTL DEF IngestSpec, UpsertsAreIdempotent

-----------------------------------------------------------------------------
(* The runs.                                                               *)

Running == proc.pc \in {"document", "chunks", "entities"}

\* Where a run may be.
Position ==
    /\ count.runs \in Nat
    /\ disk \in [{Files[i] : i \in DOMAIN Files} -> Versions]
    /\ proc \in [pc : {"stopped", "document", "chunks", "entities", "complete"},
                 at : 0 .. Len(Files), version : Versions \cup {NoId}, doc : {proc.doc}]
    /\ Running <=> proc.at # 0
    /\ proc.pc \in {"chunks", "entities"} => proc.version \in Versions

\* The steps, by what they do to the position.
LEMMA NextFileIsAPosition ==
    ASSUME proc.at \in 0 .. Len(Files)
    PROVE  \/ proc.at = Len(Files) /\ NextFile = [Stopped EXCEPT !.pc = "complete"]
           \/ /\ proc.at + 1 \in 1 .. Len(Files)
              /\ NextFile = [Stopped EXCEPT !.pc = "document", !.at = proc.at + 1]
<1>1. Len(Files) \in Nat
  BY IngestionAssumption
<1> QED
  BY <1>1 DEF NextFile

LEMMA PositionStep == Position /\ [IngestNext]_ingestVars => Position'
<1> SUFFICES ASSUME Position, [IngestNext]_ingestVars PROVE Position'
  OBVIOUS
<1>0. Len(Files) \in Nat
  BY IngestionAssumption
<1>1. ASSUME proc' = NextFile, count'.runs \in Nat, UNCHANGED disk
      PROVE  Position'
  <2>1. proc.at \in 0 .. Len(Files)
    BY DEF Position
  <2>2. CASE NextFile = [Stopped EXCEPT !.pc = "complete"]
    BY <1>0, <1>1, <2>2 DEF Position, Running, Stopped
  <2>3. CASE /\ proc.at + 1 \in 1 .. Len(Files)
             /\ NextFile = [Stopped EXCEPT !.pc = "document", !.at = proc.at + 1]
    <3>1. proc' = [pc |-> "document", at |-> proc.at + 1, version |-> NoId, doc |-> NoId]
      BY <1>1, <2>3 DEF Stopped
    <3>2. /\ proc'.at # 0 /\ proc'.at \in 0 .. Len(Files) /\ proc'.pc = "document"
          /\ proc'.version = NoId /\ proc'.doc = NoId
      BY <1>0, <2>1, <2>3, <3>1
    <3> QED
      BY <1>1, <3>1, <3>2 DEF Position, Running
  <2> QED
    BY <2>1, <2>2, <2>3, NextFileIsAPosition
<1>2. CASE StartRun
  <2>1. count'.runs \in Nat
    BY <1>2 DEF StartRun, Position
  <2> QED
    BY <1>1, <1>2, <2>1 DEF StartRun
<1>3. CASE UpsertDocument
  <2>1. /\ proc.pc = "document" /\ count' = count /\ disk' = disk
        /\ \E id : proc' = WithDocument(disk[File], id)
    BY <1>3 DEF UpsertDocument
  <2>2. PICK id : proc' = WithDocument(disk[File], id)
    BY <2>1
  <2>3. proc.at \in DOMAIN Files /\ disk[File] \in Versions
    BY <1>0, <2>1, IngestionAssumption DEF Position, Running, File
  <2> QED
    BY <2>1, <2>2, <2>3 DEF Position, Running, WithDocument
<1>4. CASE UpsertChunks
  BY <1>4 DEF UpsertChunks, Position, Running
<1>5. CASE UpsertEntities
  BY <1>1, <1>5 DEF UpsertEntities, Position
<1>6. CASE StopRun
  BY <1>0, <1>6 DEF StopRun, Position, Running, Stopped
<1>7. CASE Edit
  <2>1. count'.runs = count.runs /\ proc' = proc
    BY <1>7 DEF Edit, Position
  <2>2. disk' \in [{Files[i] : i \in DOMAIN Files} -> Versions]
    BY <1>7 DEF Edit, Position
  <2> QED
    BY <2>1, <2>2 DEF Position, Running
<1>8. CASE Clean
  BY <1>8 DEF Clean, Position, Running
<1>9. CASE UNCHANGED ingestVars
  BY <1>9 DEF ingestVars, Position, Running
<1> QED
  BY <1>2, <1>3, <1>4, <1>5, <1>6, <1>7, <1>8, <1>9 DEF IngestNext

-----------------------------------------------------------------------------
(* Headings and what hangs on them.                                        *)

\* The hash of a stored chunk is that of its kind and its content.
HashesAreContent == \A c \in chunks : c.hash = <<c.kind, c.body, c.hash[3]>>

\* The rows of a version: their ids are of this run and this file, one each, and
\* the section of a row is a heading among them.
LEMMA RowsHangTogether ==
    ASSUME NEW v, v.elements \in Seq(Element), NEW doc, NEW g
    PROVE  /\ \A c \in RowsOf(v, doc, g) :
                 /\ c.doc = doc /\ c.hash = <<c.kind, c.body, c.hash[3]>>
                 /\ \E k \in Nat : c.id = <<count.runs, proc.at, k>>
                 /\ c.parent # NoId =>
                       \E h \in RowsOf(v, doc, g) : h.kind = "heading" /\ h.body = c.section
           /\ \A c, d \in RowsOf(v, doc, g) : c.id = d.id => c = d
<1> DEFINE cs == chunk_elements(v.elements)
           Id(k) == IF k = 0 THEN NoId ELSE <<count.runs, proc.at, k>>
           Row(k) == [id |-> Id(k), doc |-> doc, kind |-> cs[k].kind, body |-> cs[k].body,
                      parent |-> Id(cs[k].parent), size |-> cs[k].size,
                      hash |-> ContentHash(cs[k], g),
                      section |-> IF cs[k].parent = 0 THEN <<>> ELSE cs[cs[k].parent].body]
           R == RowsOf(v, doc, g)
<1>1. R = {Row(k) : k \in 1 .. Len(cs)}
  BY Zenon DEF RowsOf
<1>2. Len(cs) \in Nat /\ \A k \in 1 .. Len(cs) : Heads(cs, cs[k].parent)
  BY ChunkingLosesNothing DEF Parented
<1>3. \A k \in 1 .. Len(cs) :
          /\ Row(k).doc = doc /\ Row(k).hash = <<cs[k].kind, cs[k].body, cs[k].meta>>
          /\ Row(k).kind = cs[k].kind /\ Row(k).body = cs[k].body
          /\ Row(k).id = <<count.runs, proc.at, k>>
          /\ cs[k].parent = 0 => Row(k).parent = NoId
          /\ cs[k].parent # 0 => Row(k).section = cs[cs[k].parent].body
  BY DEF ContentHash
<1> HIDE DEF Row, R, cs
<1>4. ASSUME NEW k \in 1 .. Len(cs), Row(k).parent # NoId
      PROVE  \E h \in R : h.kind = "heading" /\ h.body = Row(k).section
  <2>1. cs[k].parent \in 1 .. Len(cs) /\ cs[cs[k].parent].kind = "heading"
    BY <1>2, <1>3, <1>4 DEF Heads
  <2>2. Row(cs[k].parent) \in R
    BY <1>1, <2>1
  <2>3. /\ Row(cs[k].parent).kind = "heading"
        /\ Row(cs[k].parent).body = Row(k).section
    BY <1>2, <1>3, <2>1
  <2> QED
    BY <2>2, <2>3
<1>5. ASSUME NEW c \in R
      PROVE  /\ c.doc = doc /\ c.hash = <<c.kind, c.body, c.hash[3]>>
             /\ \E k \in Nat : c.id = <<count.runs, proc.at, k>>
             /\ c.parent # NoId => \E h \in R : h.kind = "heading" /\ h.body = c.section
  <2>1. PICK k \in 1 .. Len(cs) : c = Row(k)
    BY <1>1
  <2>2. k \in Nat
    BY <1>2
  <2> QED
    BY <1>3, <1>4, <2>1, <2>2
<1>6. ASSUME NEW c \in R, NEW d \in R, c.id = d.id
      PROVE  c = d
  <2>1. PICK k \in 1 .. Len(cs) : c = Row(k)
    BY <1>1
  <2>2. PICK l \in 1 .. Len(cs) : d = Row(l)
    BY <1>1
  <2>3. <<count.runs, proc.at, k>> = <<count.runs, proc.at, l>>
    BY <1>3, <1>6, <2>1, <2>2
  <2> QED
    BY <2>1, <2>2, <2>3
<1> QED
  BY <1>5, <1>6 DEF R

\* The version a run is about to chunk is one of the files'.
LEMMA VersionIsElements ==
    ASSUME Position, proc.pc = "chunks"
    PROVE  proc.version \in Versions /\ proc.version.elements \in Seq(Element)
BY IngestionAssumption DEF Position

LEMMA HashesStep == Position /\ HashesAreContent /\ [IngestNext]_ingestVars => HashesAreContent'
<1> SUFFICES ASSUME Position, HashesAreContent, [IngestNext]_ingestVars PROVE HashesAreContent'
  OBVIOUS
<1>1. CASE UpsertChunks
  <2> DEFINE R(g) == RowsOf(proc.version, proc.doc, g)
  <2>1. PICK g \in Glosses : chunks' = chunks \cup {c \in R(g) : c.hash \notin Present(proc.doc)}
    BY <1>1 DEF UpsertChunks
  <2>2. \A c \in R(g) : c.hash = <<c.kind, c.body, c.hash[3]>>
    BY <1>1, VersionIsElements, RowsHangTogether DEF UpsertChunks
  <2> HIDE DEF R
  <2> QED
    BY <2>1, <2>2 DEF HashesAreContent
<1>2. CASE Clean
  BY <1>2 DEF Clean, HashesAreContent
<1>3. CASE UNCHANGED chunks
  BY <1>3 DEF HashesAreContent
<1> QED
  BY <1>1, <1>2, <1>3
  DEF IngestNext, StartRun, UpsertDocument, UpsertEntities, StopRun, Edit, ingestVars, corpus

LEMMA OrphansStep ==
    Position /\ HashesAreContent /\ OrphansHaveATwin /\ [IngestNext]_ingestVars
        => OrphansHaveATwin'
<1> SUFFICES ASSUME Position, HashesAreContent, OrphansHaveATwin, [IngestNext]_ingestVars
             PROVE  OrphansHaveATwin'
  OBVIOUS
<1>1. CASE UpsertChunks
  <2> DEFINE R(g) == RowsOf(proc.version, proc.doc, g)
  <2>1. PICK g \in Glosses : chunks' = chunks \cup {c \in R(g) : c.hash \notin Present(proc.doc)}
    BY <1>1 DEF UpsertChunks
  <2>2. /\ \A c \in R(g) : c.doc = proc.doc /\ c.hash = <<c.kind, c.body, c.hash[3]>>
        /\ \A c \in R(g) : c.parent # NoId =>
              \E h \in R(g) : h.kind = "heading" /\ h.body = c.section
    BY <1>1, VersionIsElements, RowsHangTogether DEF UpsertChunks
  <2> HIDE DEF R
  <2>3. ASSUME NEW c \in chunks', c.parent # NoId
        PROVE  \E h \in chunks' : h.doc = c.doc /\ h.kind = "heading" /\ h.body = c.section
    <3>1. CASE c \in chunks
      BY <2>1, <2>3, <3>1 DEF OrphansHaveATwin
    <3>2. CASE c \in R(g)
      <4>1. PICK h \in R(g) : h.kind = "heading" /\ h.body = c.section
        BY <2>2, <2>3, <3>2
      <4>2. CASE h.hash \notin Present(proc.doc)
        BY <2>1, <2>2, <3>2, <4>1, <4>2
      <4>3. CASE h.hash \in Present(proc.doc)
        <5>1. PICK x \in chunks : x.doc = proc.doc /\ x.hash = h.hash
          BY <4>3 DEF Present
        <5>2. <<x.kind, x.body, x.hash[3]>> = <<h.kind, h.body, h.hash[3]>>
          BY <2>2, <5>1 DEF HashesAreContent
        <5>3. x.kind = "heading" /\ x.body = c.section
          BY <4>1, <5>2
        <5> QED
          BY <2>1, <2>2, <3>2, <5>1, <5>3
      <4> QED
        BY <4>2, <4>3
    <3> QED
      BY <2>1, <2>3, <3>1, <3>2
  <2> QED
    BY <2>3 DEF OrphansHaveATwin
<1>2. CASE Clean
  BY <1>2 DEF Clean, OrphansHaveATwin
<1>3. CASE UNCHANGED chunks
  BY <1>3 DEF OrphansHaveATwin
<1> QED
  BY <1>1, <1>2, <1>3
  DEF IngestNext, StartRun, UpsertDocument, UpsertEntities, StopRun, Edit, ingestVars, corpus

LEMMA PositionInit == IngestInit => Position
<1>1. Len(Files) \in Nat
  BY IngestionAssumption
<1> QED
  BY <1>1 DEF IngestInit, Position, Running, Stopped

\* A chunk whose heading was there under an older id still has that heading in its
\* document, however many runs, crashes and edits (db.py:64-110).
THEOREM HeadingsStay == IngestSpec => []OrphansHaveATwin
<1>1. IngestInit => Position /\ HashesAreContent /\ OrphansHaveATwin
  BY PositionInit DEF IngestInit, HashesAreContent, OrphansHaveATwin
<1> QED
  BY <1>1, PositionStep, HashesStep, OrphansStep, PTL DEF IngestSpec

-----------------------------------------------------------------------------
(* What a run that completes has done.                                     *)

\* The document of a file is there, and every chunk of version v in it.
Stored(f, v) ==
    \E d \in documents : d.hash = DocHash(f, v) /\ HashesOf(v) \subseteq Present(d.id)

\* While nobody disturbs the run, the files before its position are stored, the
\* one it is at as far as it has come.
Progress ==
    ~ disturbed =>
        /\ proc.pc = "complete" => \A i \in 1 .. Len(Files) : Stored(Files[i], disk[Files[i]])
        /\ Running => \A i \in 1 .. proc.at - 1 : Stored(Files[i], disk[Files[i]])
        /\ proc.pc \in {"chunks", "entities"} =>
              /\ proc.version = disk[File]
              /\ \E d \in documents : d.id = proc.doc /\ d.hash = DocHash(File, proc.version)
        /\ proc.pc = "entities" => HashesOf(proc.version) \subseteq Present(proc.doc)

LEMMA ChunksAreStored ==
    ASSUME NEW g, chunks' = chunks \cup {c \in RowsOf(proc.version, proc.doc, g) :
                                            c.hash \notin Present(proc.doc)}
    PROVE  \A h \in HashesOf(proc.version) : \E c \in chunks' : c.doc = proc.doc /\ c.hash = h
<1> DEFINE v == proc.version
           d == proc.doc
<1> SUFFICES ASSUME NEW h \in HashesOf(v)
             PROVE  \E c \in chunks' : c.doc = d /\ c.hash = h
  OBVIOUS
<1>1. CASE h \in Present(d)
  BY <1>1 DEF Present
<1>2. CASE h \notin Present(d)
  <2>1. PICK c \in RowsOf(v, d, g) : c.hash = h /\ c.doc = d
    BY RowHashes
  <2> QED BY <1>2, <2>1
<1> QED
  BY <1>1, <1>2

LEMMA ProgressStep ==
    Position /\ Progress /\ [IngestNext]_ingestVars => Progress'
<1> SUFFICES ASSUME Position, Progress, [IngestNext]_ingestVars, ~ disturbed'
             PROVE  /\ proc'.pc = "complete" =>
                          \A i \in 1 .. Len(Files) : Stored(Files[i], disk[Files[i]])'
                    /\ Running' => \A i \in 1 .. proc'.at - 1 : Stored(Files[i], disk[Files[i]])'
                    /\ proc'.pc \in {"chunks", "entities"} =>
                          /\ proc'.version = disk'[Files[proc'.at]]
                          /\ \E d \in documents' :
                                d.id = proc'.doc /\ d.hash = DocHash(File, proc.version)'
                    /\ proc'.pc = "entities" =>
                          \A h \in HashesOf(proc.version)' :
                             \E c \in chunks' : c.doc = proc'.doc /\ c.hash = h
  BY DEF Progress, File, Present
<1>0. Len(Files) \in Nat
  BY IngestionAssumption
<1>k. ASSUME documents \subseteq documents', chunks \subseteq chunks', disk' = disk,
             NEW i, Stored(Files[i], disk[Files[i]])
      PROVE  Stored(Files[i], disk[Files[i]])'
  <2> DEFINE f == Files[i]
             v == disk[Files[i]]
  <2>1. Stored(f, v)
    BY <1>k
  <2>2. PICK d \in documents : d.hash = DocHash(f, v) /\ HashesOf(v) \subseteq Present(d.id)
    BY <2>1 DEF Stored
  <2>3. Present(d.id) \subseteq Present(d.id)'
    BY <1>k DEF Present
  <2>4. v' = v /\ DocHash(f, v)' = DocHash(f, v) /\ HashesOf(v)' = HashesOf(v)
    BY <1>k DEF DocHash, HashesOf
  <2> QED
    BY <1>k, <2>2, <2>3, <2>4 DEF Stored
<1>1. CASE StartRun
  <2>1. /\ proc' = NextFile /\ ~ Running /\ proc.at = 0
    BY <1>1 DEF StartRun, Position, Running
  <2>2. CASE Len(Files) = 0 /\ proc' = [Stopped EXCEPT !.pc = "complete"]
    BY <2>2 DEF Stopped, Running
  <2>3. CASE proc' = [Stopped EXCEPT !.pc = "document", !.at = 0 + 1]
    <3>1. proc'.pc = "document" /\ proc'.at = 1
      BY <2>3 DEF Stopped
    <3> QED
      BY <3>1
  <2> QED
    BY <1>0, <2>1, <2>2, <2>3, NextFileIsAPosition
<1>2. CASE UpsertDocument
  <2> DEFINE v == disk[File]
             fresh == <<count.runs, proc.at>>
             known == {d \in documents : d.hash = DocHash(File, v)}
  <2>1. /\ proc.pc = "document" /\ disk' = disk /\ chunks' = chunks /\ disturbed' = disturbed
        /\ documents \subseteq documents' /\ proc.at \in 1 .. Len(Files)
    BY <1>0, <1>2 DEF UpsertDocument, Position, Running
  <2>2. \E d \in documents' : proc' = WithDocument(v, d.id) /\ d.hash = DocHash(File, v)
    <3>1. CASE known # {}
      <4>1. (\E d \in known : proc' = WithDocument(v, d.id)) /\ documents' = documents
        BY <1>2, <3>1 DEF UpsertDocument
      <4> QED
        BY <4>1
    <3>2. CASE known = {}
      <4>1. /\ documents' = documents \cup {[id |-> fresh, hash |-> DocHash(File, v)]}
            /\ proc' = WithDocument(v, fresh)
        BY <1>2, <3>2 DEF UpsertDocument
      <4> DEFINE x == [id |-> fresh, hash |-> DocHash(File, v)]
      <4>2. x.id = fresh /\ x.hash = DocHash(File, v) /\ x \in documents'
        BY <4>1
      <4> HIDE DEF x, fresh
      <4> QED
        BY <4>1, <4>2
    <3> QED
      BY <3>1, <3>2
  <2>3. PICK d \in documents' : proc' = WithDocument(v, d.id) /\ d.hash = DocHash(File, v)
    BY <2>2
  <2>4. /\ proc'.pc = "chunks" /\ proc'.at = proc.at /\ proc'.version = v /\ proc'.doc = d.id
        /\ File' = File /\ DocHash(File, proc.version)' = DocHash(File, v)
    BY <2>1, <2>3 DEF Position, WithDocument, File, DocHash
  <2>5. \A i \in 1 .. proc.at - 1 : Stored(Files[i], disk[Files[i]])
    BY <2>1 DEF Progress, Running
  <2>6. \A i \in 1 .. proc'.at - 1 : Stored(Files[i], disk[Files[i]])'
    BY <1>k, <2>1, <2>4, <2>5
  <2> QED
    BY <2>1, <2>3, <2>4, <2>6 DEF File
<1>3. CASE UpsertChunks
  <2>1. PICK g \in Glosses :
            chunks' = chunks \cup {c \in RowsOf(proc.version, proc.doc, g) :
                                      c.hash \notin Present(proc.doc)}
    BY <1>3 DEF UpsertChunks
  <2>2. \A h \in HashesOf(proc.version) :
            \E c \in chunks' : c.doc = proc.doc /\ c.hash = h
    BY <2>1, ChunksAreStored
  <2>3. /\ proc.pc = "chunks" /\ disk' = disk /\ documents' = documents
        /\ disturbed' = disturbed /\ chunks \subseteq chunks'
        /\ proc'.pc = "entities" /\ proc'.at = proc.at /\ proc'.version = proc.version
        /\ proc'.doc = proc.doc
    BY <1>3, <2>1 DEF UpsertChunks, Position
  <2>4. HashesOf(proc.version)' = HashesOf(proc.version)
    BY <2>3 DEF HashesOf
  <2>5. DocHash(File, proc.version)' = DocHash(File, proc.version)
    BY <2>3 DEF DocHash, File
  <2>6. \A i \in 1 .. proc'.at - 1 : Stored(Files[i], disk[Files[i]])'
    BY <1>k, <2>3 DEF Progress, Running
  <2>7. /\ proc.version = disk[File]
        /\ \E d \in documents : d.id = proc.doc /\ d.hash = DocHash(File, proc.version)
    BY <2>3 DEF Progress
  <2> QED
    BY <2>2, <2>3, <2>4, <2>5, <2>6, <2>7 DEF File
<1>4. CASE UpsertEntities
  <2>1. /\ proc.pc = "entities" /\ disk' = disk /\ documents' = documents /\ chunks' = chunks
        /\ disturbed' = disturbed /\ proc' = NextFile /\ proc.at \in 1 .. Len(Files)
    BY <1>0, <1>4 DEF UpsertEntities, Position, Running
  <2>2. /\ proc.version = disk[File] /\ HashesOf(proc.version) \subseteq Present(proc.doc)
        /\ \E d \in documents : d.id = proc.doc /\ d.hash = DocHash(File, proc.version)
        /\ \A i \in 1 .. proc.at - 1 : Stored(Files[i], disk[Files[i]])
    BY <2>1 DEF Progress, Running
  <2>3. Stored(Files[proc.at], disk[Files[proc.at]])
    BY <2>2 DEF Stored, File
  <2>4. \A i \in 1 .. proc.at : Stored(Files[i], disk[Files[i]])
    <3>1. \A i \in 1 .. proc.at : i \in 1 .. proc.at - 1 \/ i = proc.at
      BY <2>1
    <3> QED
      BY <2>2, <2>3, <3>1
  <2>5. \A i \in 1 .. proc.at : Stored(Files[i], disk[Files[i]])'
    BY <1>k, <2>1, <2>4
  <2>6. CASE proc.at = Len(Files) /\ proc' = [Stopped EXCEPT !.pc = "complete"]
    BY <2>5, <2>6 DEF Stopped, Running
  <2>7. CASE proc' = [Stopped EXCEPT !.pc = "document", !.at = proc.at + 1]
    <3>1. proc'.pc = "document" /\ proc'.at - 1 = proc.at
      BY <2>1, <2>7 DEF Stopped
    <3> QED
      BY <2>5, <3>1
  <2> QED
    BY <1>0, <2>1, <2>6, <2>7, NextFileIsAPosition
<1>5. CASE StopRun
  BY <1>5 DEF StopRun, Stopped, Running
<1>6. CASE Edit \/ Clean
  BY <1>6 DEF Edit, Clean
<1>7. CASE UNCHANGED ingestVars
  <2>1. /\ disk' = disk /\ documents' = documents /\ chunks' = chunks
        /\ disturbed' = disturbed /\ proc' = proc
    BY <1>7 DEF ingestVars, corpus
  <2>2. \A i : Stored(Files[i], disk[Files[i]]) => Stored(Files[i], disk[Files[i]])'
    BY <1>k, <2>1
  <2>3. /\ HashesOf(proc.version)' = HashesOf(proc.version)
        /\ DocHash(File, proc.version)' = DocHash(File, proc.version)
        /\ Running' = Running
    BY <2>1 DEF HashesOf, DocHash, File, Running
  <2> QED
    BY <2>1, <2>2, <2>3 DEF Progress, Present, File
<1> QED
  BY <1>1, <1>2, <1>3, <1>4, <1>5, <1>6, <1>7 DEF IngestNext

Includes(c, x) == x \in {c.body[k] : k \in DOMAIN c.body}

\* What is stored of a version are all its elements.
LEMMA StoredIsComplete ==
    ASSUME HashesAreContent, NEW v, v.elements \in Seq(Element), NEW d,
           HashesOf(v) \subseteq Present(d), NEW i \in DOMAIN v.elements
    PROVE  \E c \in chunks : c.doc = d /\ Includes(c, v.elements[i].content)
<1> DEFINE es == v.elements
           cs == chunk_elements(v.elements)
           Hash(k) == <<cs[k].kind, cs[k].body, cs[k].meta>>
<1>1. Parented(cs) /\ \A j \in 1 .. Len(es) : Holds(cs, es[j].content)
  BY ChunkingLosesNothing
<1>2. HashesOf(v) = {Hash(k) : k \in 1 .. Len(cs)}
  BY Zenon DEF HashesOf
<1>3. i \in 1 .. Len(es)
  OBVIOUS
<1> HIDE DEF cs
<1>4. PICK k \in 1 .. Len(cs) : \E l \in 1 .. Len(cs[k].body) : cs[k].body[l] = es[i].content
  BY <1>1, <1>3 DEF Holds
<1>5. PICK c \in chunks : c.doc = d /\ c.hash = Hash(k)
  BY <1>2 DEF Present
<1>6. <<c.kind, c.body, c.hash[3]>> = <<cs[k].kind, cs[k].body, cs[k].meta>>
  BY <1>5 DEF HashesAreContent
<1>7. c.body = cs[k].body
  BY <1>6
<1>8. DOMAIN cs[k].body = 1 .. Len(cs[k].body)
  <2>1. cs[k] \in ChunkRows
    BY <1>1 DEF Parented
  <2>2. cs[k].body \in Seq(STRING)
    BY <2>1 DEF ChunkRows
  <2> QED
    BY <2>2
<1> QED
  BY <1>4, <1>5, <1>7, <1>8 DEF Includes

LEMMA CompleteIsComplete ==
    Position /\ HashesAreContent /\ Progress => CompleteRunIsComplete
<1> SUFFICES ASSUME Position, HashesAreContent, Progress, proc.pc = "complete", ~ disturbed,
                    NEW f \in DOMAIN disk
             PROVE  \E d \in documents :
                      /\ d.hash = DocHash(f, disk[f])
                      /\ \A i \in DOMAIN disk[f].elements : \E c \in chunks :
                            c.doc = d.id /\ Includes(c, disk[f].elements[i].content)
  BY DEF CompleteRunIsComplete, Includes
<1>1. disk[f] \in Versions /\ \E i \in DOMAIN Files : f = Files[i]
  BY DEF Position
<1>2. PICK i \in 1 .. Len(Files) : f = Files[i]
  BY <1>1, IngestionAssumption
<1>3. Stored(f, disk[f])
  BY <1>2 DEF Progress
<1>4. PICK d \in documents : d.hash = DocHash(f, disk[f]) /\ HashesOf(disk[f]) \subseteq Present(d.id)
  BY <1>3 DEF Stored
<1>5. disk[f].elements \in Seq(Element)
  BY <1>1, IngestionAssumption
<1> DEFINE v == disk[f]
<1> HIDE DEF v
<1>6. \A j \in DOMAIN v.elements : \E c \in chunks :
          c.doc = d.id /\ Includes(c, v.elements[j].content)
  <2>1. v.elements \in Seq(Element) /\ HashesOf(v) \subseteq Present(d.id)
    BY <1>4, <1>5 DEF v
  <2> QED
    BY <2>1, StoredIsComplete
<1> QED
  BY <1>4, <1>6 DEF v

\* A run that completes over files nobody touches has every element of every file
\* in a chunk of its document, whatever the runs before it left (run.py:25-57).
THEOREM CompletionIsHonest == IngestSpec => []CompleteRunIsComplete
<1>1. IngestInit => Position /\ HashesAreContent /\ Progress
  BY PositionInit DEF IngestInit, HashesAreContent, Progress, Stopped, Running
<1> QED
  BY <1>1, PositionStep, HashesStep, ProgressStep, CompleteIsComplete, PTL DEF IngestSpec

-----------------------------------------------------------------------------
(* The keys of the tables.                                                 *)

\* Drawn before the run came to the file it is at, ...
Before(r, i) == r < count.runs \/ (r = count.runs /\ (Running => i < proc.at))

\* ... or at it.
Here(r, i) == r = count.runs /\ i = proc.at

IdsArePast ==
    /\ \A d \in documents :
          /\ d.id \in Nat \X Nat
          /\ \/ Before(d.id[1], d.id[2])
             \/ proc.pc \in {"chunks", "entities"} /\ Here(d.id[1], d.id[2])
    /\ \A c \in chunks :
          /\ c.id \in Nat \X Nat \X Nat
          /\ Before(c.id[1], c.id[2]) \/ (proc.pc = "entities" /\ Here(c.id[1], c.id[2]))

KeysAreUnique ==
    /\ \A d, e \in documents : d.id = e.id \/ d.hash = e.hash => d = e
    /\ \A c, d \in chunks : c.id = d.id => c = d

\* What was drawn before, or here, stays before when the run goes on.
LEMMA BeforeMoves ==
    ASSUME Position, NEW r \in Nat, NEW i \in Nat, Before(r, i) \/ Here(r, i), Len(Files) \in Nat,
           \/ proc' = Stopped /\ count'.runs = count.runs
           \/ Running /\ proc' = NextFile /\ count'.runs = count.runs
    PROVE  Before(r, i)'
<1>1. count.runs \in Nat /\ proc.at \in Nat
  BY DEF Position
<1>2. r <= count.runs
  BY <1>1 DEF Before, Here
<1>3. CASE ~ Running'
  <2>1. count'.runs = count.runs
    OBVIOUS
  <2> QED
    BY <1>1, <1>2, <1>3, <2>1 DEF Before
<1>4. CASE Running'
  <2>1. /\ proc' = NextFile /\ Running /\ count'.runs = count.runs
        /\ NextFile = [Stopped EXCEPT !.pc = "document", !.at = proc.at + 1]
    BY <1>4, NextFileIsAPosition DEF Running, Stopped, Position
  <2>2. proc'.at = proc.at + 1
    BY <2>1 DEF Stopped
  <2> QED
    BY <1>1, <1>2, <1>4, <2>1, <2>2 DEF Before, Here
<1> QED
  BY <1>3, <1>4

LEMMA KeysStep ==
    Position /\ IdsArePast /\ KeysAreUnique /\ [IngestNext]_ingestVars
        => IdsArePast' /\ KeysAreUnique'
<1> SUFFICES ASSUME Position, IdsArePast, KeysAreUnique, [IngestNext]_ingestVars
             PROVE  IdsArePast' /\ KeysAreUnique'
  OBVIOUS
<1>0. /\ Len(Files) \in Nat /\ count.runs \in Nat /\ proc.at \in Nat
      /\ \A d \in documents : d.id \in Nat \X Nat /\ d.id[1] \in Nat /\ d.id[2] \in Nat
      /\ \A c \in chunks : c.id \in Nat \X Nat \X Nat /\ c.id[1] \in Nat /\ c.id[2] \in Nat
  BY IngestionAssumption DEF Position, IdsArePast
<1>1. CASE StartRun
  <2>1. /\ count'.runs = count.runs + 1 /\ documents' = documents /\ chunks' = chunks
        /\ ~ Running
    BY <1>1 DEF StartRun, corpus, Position, Running
  <2>2. ASSUME NEW r \in Nat, NEW i \in Nat, r <= count.runs
        PROVE  Before(r, i)'
    BY <1>0, <2>1, <2>2 DEF Before
  <2>3. \A r \in Nat : \A i : Before(r, i) => r <= count.runs
    BY <1>0 DEF Before
  <2>4. IdsArePast'
    <3>1. \A d \in documents : Before(d.id[1], d.id[2])
      BY <2>1 DEF IdsArePast, Running
    <3>2. \A c \in chunks : Before(c.id[1], c.id[2])
      BY <2>1 DEF IdsArePast, Running
    <3> QED
      BY <1>0, <2>1, <2>2, <2>3, <3>1, <3>2 DEF IdsArePast
  <2> QED
    BY <2>1, <2>4 DEF KeysAreUnique
<1>2. CASE UpsertDocument
  <2> DEFINE v == disk[File]
             fresh == <<count.runs, proc.at>>
             known == {d \in documents : d.hash = DocHash(File, v)}
             new == [id |-> fresh, hash |-> DocHash(File, v)]
  <2>1. /\ proc.pc = "document" /\ chunks' = chunks /\ count' = count
        /\ proc'.at = proc.at /\ proc'.pc = "chunks"
        /\ \/ documents' = documents
           \/ known = {} /\ documents' = documents \cup {new}
    BY <1>2 DEF UpsertDocument, WithDocument, Position
  <2>2. new.id = fresh /\ new.hash = DocHash(File, v) /\ fresh \in Nat \X Nat
        /\ fresh[1] = count.runs /\ fresh[2] = proc.at
    BY <1>0
  <2>3. \A r, i : Before(r, i)' = Before(r, i) /\ Here(r, i)' = Here(r, i)
    BY <2>1 DEF Before, Here, Running
  <2>4. ASSUME NEW d \in documents
        PROVE  d.id # fresh /\ Before(d.id[1], d.id[2])
    <3>1. Before(d.id[1], d.id[2])
      BY <2>1 DEF IdsArePast
    <3>2. ~ Here(d.id[1], d.id[2])
      BY <1>0, <2>1, <3>1 DEF Before, Here, Running
    <3> QED
      BY <2>2, <3>1, <3>2 DEF Here
  <2> HIDE DEF new, fresh
  <2>5. IdsArePast'
    <3>1. ASSUME NEW d \in documents'
          PROVE  /\ d.id \in Nat \X Nat
                 /\ Before(d.id[1], d.id[2])' \/ Here(d.id[1], d.id[2])'
      <4>1. CASE d \in documents
        BY <1>0, <2>3, <2>4, <4>1
      <4>2. CASE d = new
        BY <2>2, <2>3, <4>2 DEF Here
      <4> QED
        BY <2>1, <4>1, <4>2
    <3>2. \A c \in chunks' : c.id \in Nat \X Nat \X Nat /\ Before(c.id[1], c.id[2])'
      BY <2>1, <2>3 DEF IdsArePast
    <3> QED
      BY <2>1, <3>1, <3>2 DEF IdsArePast
  <2>6. KeysAreUnique'
    <3>1. CASE documents' = documents
      BY <2>1, <3>1 DEF KeysAreUnique
    <3>2. CASE known = {} /\ documents' = documents \cup {new}
      <4>1. \A d \in documents : d.id # new.id /\ d.hash # new.hash
        BY <2>2, <2>4, <3>2
      <4> QED
        BY <2>1, <3>2, <4>1 DEF KeysAreUnique
    <3> QED
      BY <2>1, <3>1, <3>2
  <2> QED
    BY <2>5, <2>6
<1>3. CASE UpsertChunks
  <2> DEFINE R(g) == RowsOf(proc.version, proc.doc, g)
  <2>1. PICK g \in Glosses : chunks' = chunks \cup {c \in R(g) : c.hash \notin Present(proc.doc)}
    BY <1>3 DEF UpsertChunks
  <2>2. /\ proc.pc = "chunks" /\ documents' = documents /\ count' = count
        /\ proc'.at = proc.at /\ proc'.pc = "entities"
    BY <1>3 DEF UpsertChunks, Position
  <2>3. /\ \A c \in R(g) : \E k \in Nat : c.id = <<count.runs, proc.at, k>>
        /\ \A c, d \in R(g) : c.id = d.id => c = d
    BY <2>2, VersionIsElements, RowsHangTogether
  <2> HIDE DEF R
  <2>4. \A r, i : Before(r, i)' = Before(r, i) /\ Here(r, i)' = Here(r, i)
    BY <2>2 DEF Before, Here, Running
  <2>5. ASSUME NEW c \in R(g)
        PROVE  c.id \in Nat \X Nat \X Nat /\ Here(c.id[1], c.id[2])
    <3>1. PICK k \in Nat : c.id = <<count.runs, proc.at, k>>
      BY <2>3
    <3> QED
      BY <1>0, <3>1 DEF Here
  <2>6. ASSUME NEW c \in chunks
        PROVE  Before(c.id[1], c.id[2]) /\ ~ Here(c.id[1], c.id[2])
    <3>1. Before(c.id[1], c.id[2])
      BY <2>2 DEF IdsArePast
    <3> QED
      BY <1>0, <2>2, <3>1 DEF Before, Here, Running
  <2>7. IdsArePast'
    <3>1. \A d \in documents : d.id \in Nat \X Nat
                               /\ (Before(d.id[1], d.id[2])' \/ Here(d.id[1], d.id[2])')
      BY <2>4 DEF IdsArePast
    <3>2. \A c \in chunks' : c.id \in Nat \X Nat \X Nat
                             /\ (Before(c.id[1], c.id[2])' \/ Here(c.id[1], c.id[2])')
      BY <1>0, <2>1, <2>4, <2>5, <2>6
    <3> QED
      BY <2>2, <3>1, <3>2 DEF IdsArePast
  <2>8. KeysAreUnique'
    <3>1. ASSUME NEW c \in chunks', NEW d \in chunks', c.id = d.id
          PROVE  c = d
      <4>1. CASE c \in chunks /\ d \in chunks
        BY <3>1, <4>1 DEF KeysAreUnique
      <4>2. CASE c \in R(g) /\ d \in R(g)
        BY <2>3, <3>1, <4>2
      <4>3. CASE c \in chunks /\ d \in R(g)
        BY <2>5, <2>6, <3>1, <4>3
      <4>4. CASE c \in R(g) /\ d \in chunks
        BY <2>5, <2>6, <3>1, <4>4
      <4> QED
        BY <2>1, <4>1, <4>2, <4>3, <4>4
    <3> QED
      BY <2>2, <3>1 DEF KeysAreUnique
  <2> QED
    BY <2>7, <2>8
<1>4. CASE UpsertEntities \/ StopRun
  <2>1. /\ documents' = documents /\ chunks' = chunks /\ count' = count
        /\ proc' = Stopped \/ (Running /\ proc' = NextFile)
    BY <1>4 DEF UpsertEntities, StopRun, corpus, Running
  <2>2. ASSUME NEW r \in Nat, NEW i \in Nat, Before(r, i) \/ Here(r, i)
        PROVE  Before(r, i)'
    BY <1>0, <2>1, <2>2, BeforeMoves
  <2>3. IdsArePast'
    BY <1>0, <2>1, <2>2 DEF IdsArePast
  <2> QED
    BY <2>1, <2>3 DEF KeysAreUnique
<1>5. CASE Clean
  BY <1>5 DEF Clean, IdsArePast, KeysAreUnique
<1>6. CASE Edit \/ UNCHANGED ingestVars
  <2>1. /\ documents' = documents /\ chunks' = chunks /\ count'.runs = count.runs
        /\ proc' = proc
    <3>1. CASE Edit
      BY <3>1 DEF Edit, corpus, Position
    <3>2. CASE UNCHANGED ingestVars
      BY <3>2 DEF ingestVars, corpus
    <3> QED
      BY <1>6, <3>1, <3>2
  <2>2. \A r, i : Before(r, i)' = Before(r, i) /\ Here(r, i)' = Here(r, i)
    BY <2>1 DEF Before, Here, Running
  <2> QED
    BY <2>1, <2>2 DEF IdsArePast, KeysAreUnique
<1> QED
  BY <1>1, <1>2, <1>3, <1>4, <1>5, <1>6 DEF IngestNext

LEMMA IngestionTyped == Position /\ KeysAreUnique => TypeOK
  BY DEF Position, KeysAreUnique, TypeOK

\* The tables keep their keys: no document is inserted twice and no chunk meets the
\* conflict upsert_chunks provides for (db.py:32-61, 95).
THEOREM IngestionTypeCorrect == IngestSpec => []TypeOK
<1>1. IngestInit => Position /\ IdsArePast /\ KeysAreUnique
  BY PositionInit DEF IngestInit, IdsArePast, KeysAreUnique
<1> QED
  BY <1>1, PositionStep, KeysStep, IngestionTyped, PTL DEF IngestSpec
=============================================================================
