-------------------------------- MODULE Corpus --------------------------------
(***************************************************************************)
(* What the answers are drawn from: the tables an ingestion writes, and    *)
(* the search that reads them.  Chunking and ranking are functions of      *)
(* their inputs; what they promise for all of them depends on no step and  *)
(* is evaluated once, in the state before the first run.                   *)
(***************************************************************************)
EXTENDS Ingestion, HybridRetrieval

BeforeAnyRun == count.runs = 0

\* Every buffer packs well, whatever the lengths of its texts (chunker.py 97-155).
PackingIsSound == BeforeAnyRun => \A b \in Buffers : PacksWell(b)

\* Whatever the two searches return, a row that both found comes before every row
\* that one of them found, wherever in its list that one was: RrfK is large enough
\* for Fetch (hybrid.py 113-148).
RankingIsSound ==
    BeforeAnyRun => \A dense, sparse \in RowLists : AgreementWins(dense, sparse)

\* Whatever they return, no row comes back twice, as a result and as a parent, and
\* a heading-only row only if there is nothing else (hybrid.py 151-221).
ResultsAreDistinct ==
    BeforeAnyRun => \A dense, sparse \in RowLists : ReturnsAreDistinct(dense, sparse)
=============================================================================
