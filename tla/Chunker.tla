-------------------------------- MODULE Chunker --------------------------------
(***************************************************************************)
(* chunk_elements of ingestion/chunker.py as a function of the elements a  *)
(* parser found: a heading, a table or a figure is a chunk of its own, the *)
(* texts between them are packed into windows of at most Target tokens.    *)
(*                                                                         *)
(* An element is its kind, its content, its metadata and the length of the *)
(* content in tokens.  A chunk has the contents of its elements, the       *)
(* metadata of the first of them, and names its parent by position.        *)
(***************************************************************************)
EXTENDS Integers, SequencesExt

CONSTANTS
    Target, Overlap,   \* target_tokens, overlap_tokens
    Buffers            \* texts to pack, to check PacksWell

ASSUME ChunkerAssumption == Target \in Nat \ {0} /\ Overlap \in 0 .. Target

ElementType == {"text", "table", "figure", "heading"}

\* What a parser finds.
Element == [kind : ElementType, content : STRING, meta : STRING, tokens : Nat]

ASSUME BuffersAssumption == Buffers \subseteq Seq(Element)

-----------------------------------------------------------------------------

\* The tokens of the texts b[i], ..., b[j - 1].
Total(b, i, j) == FoldLeft(LAMBDA n, e : n + e.tokens, 0, SubSeq(b, i, j - 1))

\* Mutant: the text that exceeds the target is taken in as well.
WindowEndOver(b, i) ==
    Max({i + 1} \cup {j \in i + 1 .. Len(b) + 1 : Total(b, i, j - 1) <= Target})

\* Where the window that starts at i ends: as many texts as fit, at least one.
WindowEnd(b, i) ==
    Max({i + 1} \cup {j \in i + 1 .. Len(b) + 1 : Total(b, i, j) <= Target})

\* Where the next window starts: at the last text from which on Overlap tokens
\* are left, unless the texts longer than Overlap push the search past it.
Restart(b, i, j) ==
    LET small == {k \in i .. j - 1 : b[k].tokens <= Overlap}
        from  == Max({i + 1, j - Cardinality(small)})
        tails == {k \in from .. j - 1 : Total(b, k, j) >= Overlap}
    IN  IF tails = {} THEN j ELSE Max(tails)

\* The windows <<i, j>> of a buffer, texts i up to j - 1 each.
Windows(b) ==
    LET from[i \in 1 .. Len(b) + 1] ==
            IF i > Len(b) THEN <<>>
            ELSE LET j == WindowEnd(b, i) IN <<<<i, j>>>> \o from[Restart(b, i, j)]
    IN  from[1]

-----------------------------------------------------------------------------

Chunk(kind, es, parent) ==
    [kind |-> kind, body |-> [k \in 1 .. Len(es) |-> es[k].content], meta |-> es[1].meta,
     parent |-> parent, size |-> Total(es, 1, Len(es) + 1)]

\* flush_text_buffer
Flush(st) ==
    LET w == Windows(st.buffer)
        Text(k) == Chunk("text", SubSeq(st.buffer, w[k][1], w[k][2] - 1), st.heading)
    IN  [st EXCEPT !.chunks = @ \o [k \in 1 .. Len(w) |-> Text(k)], !.buffer = <<>>]

\* One turn of `for elem in elements`.
Take(st, e) ==
    LET flushed == Flush(st)
    IN  CASE e.kind = "text"    -> [st EXCEPT !.buffer = Append(@, e)]
          [] e.kind = "heading" ->
               [flushed EXCEPT !.chunks = Append(@, Chunk("heading", <<e>>, 0)),
                               !.heading = Len(flushed.chunks) + 1]
          [] OTHER ->
               [flushed EXCEPT !.chunks = Append(@, Chunk(e.kind, <<e>>, st.heading))]

chunk_elements(es) ==
    Flush(FoldLeft(Take, [chunks |-> <<>>, heading |-> 0, buffer |-> <<>>], es)).chunks

-----------------------------------------------------------------------------

\* What packing promises, for the windows of b: they cover every text in order
\* with no gap, every one starts later than the one before, and none holds more
\* than Target tokens unless it is a single text.
PacksWell(b) ==
    LET w == Windows(b)
    IN  b # <<>> =>
        /\ w # <<>> /\ w[1][1] = 1 /\ w[Len(w)][2] = Len(b) + 1
        /\ \A k \in 1 .. Len(w) - 1 :
              /\ w[k][1] < w[k + 1][1] /\ w[k + 1][1] <= w[k][2]
              /\ w[k][2] <= w[k + 1][2]
        /\ \A k \in 1 .. Len(w) :
              Total(b, w[k][1], w[k][2]) <= Target \/ w[k][2] = w[k][1] + 1
=============================================================================
