--------------------------- MODULE MCSessionMemory ---------------------------
(* Two requests of a session and four exchanges: with one exchange kept     *)
(* verbatim and a cap of two, both folds and capped writes follow one       *)
(* another.                                                                 *)
EXTENDS SessionMemory, TLC

CONSTANTS r1, r2

RequestSymmetry == Permutations(Procs)
=============================================================================
