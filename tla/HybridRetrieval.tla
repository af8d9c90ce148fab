---------------------------- MODULE HybridRetrieval ----------------------------
(***************************************************************************)
(* hybrid_retrieve of app/retrieval/hybrid.py as a function of what the    *)
(* database returns: the rows of the dense and of the sparse search, best  *)
(* first, and the parents stored.  It keeps no state between two calls.    *)
(*                                                                         *)
(* A row is its id, its length and the parent its metadata names.  Scores  *)
(* are the exact fractions the code's floats stand for.                    *)
(***************************************************************************)
EXTENDS Lists

CONSTANTS
    RrfK,      \* _RRF_K
    Fetch,     \* _DENSE_FETCH and _SPARSE_FETCH
    TopK,      \* top_k
    MinChars,  \* 100, the length of a chunk worth returning
    NoParent,
    Rows       \* the rows of table chunks

ASSUME RetrievalAssumption ==
    /\ RrfK \in Nat \ {0} /\ Fetch \in Nat \ {0} /\ TopK \in Nat
    /\ Fetch < RrfK + 2
    /\ IsFiniteSet(Rows) /\ \A row \in Rows : row.chars \in Nat
    /\ MinChars \in Nat
    /\ \A row, other \in Rows : row.id = other.id => row = other

-----------------------------------------------------------------------------

\* The rank of a row in a list, 0 if it is not there (a dense_rank of None).
Rank(list, row) == SelectInSeq(list, LAMBDA x : x = row)

Fraction(n, d) == [num |-> n, den |-> d]

\* a > b
Above(a, b) == a.num * b.den > b.num * a.den

\* Mutant: the constant that levels the ranks is left out.
rrf_score_bare(i, j) ==
    IF i # 0 /\ j # 0 THEN Fraction(i + j, i * j) ELSE Fraction(1, i + j)

\* _rrf_score of the ranks i and j, not both 0: the sum of 1 / (RrfK + rank).
rrf_score(i, j) ==
    IF i # 0 /\ j # 0 THEN Fraction(2 * RrfK + i + j, (RrfK + i) * (RrfK + j))
    ELSE Fraction(1, RrfK + i + j)

\* The keys of rrf_map in the order they are inserted.
Candidates(dense, sparse) ==
    dense \o Pick(sparse, {k \in DOMAIN sparse : ~ Contains(dense, sparse[k])})

\* scored.sort(reverse=True), which is stable: equal scores keep their order.
Fused(dense, sparse) ==
    LET found == Candidates(dense, sparse)
        score == [k \in DOMAIN found |->
                     rrf_score(Rank(dense, found[k]), Rank(sparse, found[k]))]
        Before(k, l) == Above(score[k], score[l]) \/ (~ Above(score[l], score[k]) /\ k < l)
        places == DOMAIN found
        order == Sorted(places, {p \in places \X places : Before(p[1], p[2])})
    IN  [k \in DOMAIN found |-> found[order[k]]]

\* scored[:top_k]
Top(dense, sparse) ==
    LET fused == Fused(dense, sparse) IN SubSeq(fused, 1, Min({TopK, Len(fused)}))

\* Mutant: parents that are in the results already are fetched again.
ParentIdsAll(top) == {top[k].parent : k \in DOMAIN top} \ {NoParent}

\* parent_ids, read from the metadata of the rows.
ParentIds(top) ==
    ({top[k].parent : k \in DOMAIN top} \ {NoParent}) \ {top[k].id : k \in DOMAIN top}

\* `filtered if filtered else combined`
LongOnes(list) ==
    LET long == Pick(list, {k \in DOMAIN list : list[k].chars >= MinChars})
    IN  IF long = <<>> THEN list ELSE long

\* What the call returns, in one of the orders _fetch_parents may answer in.
hybrid_retrieve(dense, sparse, stored) ==
    LET top == Top(dense, sparse)
    IN  LongOnes(top \o SetToSeq({row \in stored : row.id \in ParentIds(top)}))

-----------------------------------------------------------------------------

\* What a search returns: LIMIT Fetch rows of the table, none of them twice.
RowLists ==
    {list \in UNION {[1 .. n -> Rows] : n \in 0 .. Fetch} :
        \A k, l \in DOMAIN list : list[k] = list[l] => k = l}

\* The rows found by both searches come first.
AgreementWins(dense, sparse) ==
    LET fused == Fused(dense, sparse)
        Both(row) == Contains(dense, row) /\ Contains(sparse, row)
    IN  \A k, l \in DOMAIN fused : Both(fused[k]) /\ ~ Both(fused[l]) => k < l

\* No row comes twice, and headings alone only when nothing else was found.
ReturnsAreDistinct(dense, sparse) ==
    LET got == hybrid_retrieve(dense, sparse, Rows)
        top == Top(dense, sparse)
    IN  /\ \A k, l \in DOMAIN got : got[k].id = got[l].id => k = l
        /\ (\E k \in DOMAIN got : got[k].chars < MinChars) =>
              \A k \in DOMAIN top : top[k].chars < MinChars
=============================================================================
