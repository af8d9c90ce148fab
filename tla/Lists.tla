--------------------------------- MODULE Lists ---------------------------------
(***************************************************************************)
(* Sorting and filtering, by position: what list.sort, a comprehension     *)
(* with `if` and Array.filter return.                                      *)
(***************************************************************************)
EXTENDS Integers, SequencesExt

\* The elements of S in the order R: the k-th is the one k - 1 others come before.
Sorted(S, R) ==
    [k \in 1 .. Cardinality(S) |->
        CHOOSE x \in S : Cardinality({y \in S : <<y, x>> \in R}) = k - 1]

\* The elements of s at the positions P, in the order of s.
Pick(s, P) ==
    LET at == Sorted(P, {p \in P \X P : p[1] < p[2]})
    IN  [k \in DOMAIN at |-> s[at[k]]]
=============================================================================
