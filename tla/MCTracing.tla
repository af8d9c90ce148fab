------------------------------ MODULE MCTracing ------------------------------
(* Two questions asked at once, two retries each: their LangSmith calls can  *)
(* trip the breaker together, with either of them in flight.                 *)
EXTENDS Tracing, TLC

CONSTANTS c1, c2, harnesses, chunks

MCTables == {harnesses, chunks}
MCAllowed == {harnesses}

\* A statement on the catalog, one that joins a table outside it, one that is
\* not a SELECT.
MCStatements ==
    {[flaws |-> {}, refs |-> {harnesses}],
     [flaws |-> {}, refs |-> {harnesses, chunks}],
     [flaws |-> {"no SELECT", "semicolon"}, refs |-> {}]}

CallSymmetry == Permutations(Calls)
=============================================================================
