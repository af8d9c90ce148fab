------------------------------- MODULE MCCorpus -------------------------------
(* Two files of a page each.  One has a table and is edited between or during  *)
(* the runs; the packing and the ranking are checked for all short inputs.        *)
EXTENDS Corpus, TLC

CONSTANTS f1, f2, g1, g2

MCFiles == <<f1, f2>>

E(kind, content, meta, tokens) ==
    [kind |-> kind, content |-> content, meta |-> meta, tokens |-> tokens]

Intro == E("heading", "intro", "p1", 1)
Start == E("text", "start", "p1", 2)
End   == E("text", "end", "p1", 2)
Moved == E("text", "end", "p2", 2)
Added == E("text", "added", "p1", 4)
Cost  == E("table", "cost", "p2", 3)

MCVersions ==
    {[title |-> "notes", elements |-> <<Intro, Start, End, Cost>>],
     [title |-> "notes", elements |-> <<Intro, Start, Moved, Cost>>],
     [title |-> "notes", elements |-> <<Intro, Start, Added, End, Cost>>],
     [title |-> "report", elements |-> <<Cost, Intro, End>>]}

\* Up to four texts of these lengths, the last one longer than the target.
MCBuffers ==
    UNION {[1 .. n -> {E("text", "t", "p1", l) : l \in {0, 1, 2, 4, 5, 6}}] : n \in 0 .. 4}

\* A complete extract, and one of a component without a category, a benchmark
\* without its harness and links to both.
MCExtracts ==
    {[components |-> {"a"}, failures |-> {"x"}, harnesses |-> {"h"}, invalid |-> {},
      links |-> {<<"a", "x">>}, benchmarks |-> {<<"b", "h">>}],
     [components |-> {"a", "c"}, failures |-> {}, harnesses |-> {}, invalid |-> {"c"},
      links |-> {<<"a", "x">>, <<"c", "x">>}, benchmarks |-> {<<"b", "i">>}]}

\* Two rows with a parent, one of them a heading's.
MCRows == {[id |-> 1, chars |-> 120, parent |-> NoParent],
           [id |-> 2, chars |-> 120, parent |-> 1],
           [id |-> 3, chars |-> 40, parent |-> NoParent],
           [id |-> 4, chars |-> 120, parent |-> 3]}
=============================================================================
