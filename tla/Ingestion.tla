------------------------------- MODULE Ingestion -------------------------------
(***************************************************************************)
(* python -m ingestion.run (ingestion/run.py, db.py, entity_extractor.py)  *)
(* and scripts/clean_db.py, over the tables they write.  A run takes the   *)
(* files one by one; each database transaction is a step.  Nothing catches *)
(* an exception: a file that does not parse, a model or an embedding that  *)
(* fails, a crash, all stop the run between two steps, and an operator     *)
(* starts it again.  Files are edited and tables truncated meanwhile.      *)
(*                                                                         *)
(* The tables' constraints are not in the repository.  Whether a foreign   *)
(* key refuses a chunk whose document is gone is left open.                *)
(***************************************************************************)
EXTENDS Chunker

CONSTANTS
    Files,      \* the files of the directory, in order
    Versions,   \* contents a file may have: [title, elements]
    Glosses,    \* summaries the model may write of a table
    Extracts,   \* what store_entities may be called with
    NoId,       \* no parent, no document
    MaxRuns, MaxEdits, MaxCleans   \* bounds of the model

ASSUME IngestionAssumption ==
    /\ Files \in Seq({Files[i] : i \in DOMAIN Files})
    /\ \A v \in Versions : v.elements \in Seq(Element)
    /\ MaxRuns \in Nat /\ MaxEdits \in Nat /\ MaxCleans \in Nat

VARIABLES
    disk,       \* per file, its present contents
    documents,  \* table documents: [id, hash]
    chunks,     \* table chunks
    catalog,    \* the catalog: [components, failures, harnesses, links, benchmarks]
    proc,       \* the run: its position and locals
    count,      \* runs, edits and truncations so far
    loaded,     \* history: the [doc, version] whose chunks have been committed
    disturbed   \* history: a file edited or the tables truncated since the run began

corpus == <<documents, chunks, catalog>>

ingestVars == <<disk, corpus, proc, count, loaded, disturbed>>

-----------------------------------------------------------------------------

Stopped == [pc |-> "stopped", at |-> 0, version |-> NoId, doc |-> NoId]

File == Files[proc.at]

\* _doc_hash: the path, the title and the type, not the contents.
DocHash(f, v) == <<f, v.title>>

\* Mutant: the run goes on past the last file.
PastTheLast ==
    IF proc.at > Len(Files) THEN [Stopped EXCEPT !.pc = "complete"]
    ELSE [Stopped EXCEPT !.pc = "document", !.at = proc.at + 1]

\* The next turn of `for i, f in enumerate(files, 1)`.
NextFile ==
    IF proc.at = Len(Files) THEN [Stopped EXCEPT !.pc = "complete"]
    ELSE [Stopped EXCEPT !.pc = "document", !.at = proc.at + 1]

\* Mutant: a document that is there is taken to be done.
WithDocumentSkipping(v, id) ==
    IF \E d \in documents : d.id = id THEN NextFile
    ELSE [proc EXCEPT !.pc = "chunks", !.version = v, !.doc = id]

WithDocument(v, id) == [proc EXCEPT !.pc = "chunks", !.version = v, !.doc = id]

\* Mutant: the hash of a table covers its summary.
ContentHashOfAll(c, gloss) == <<c.kind, c.body, IF c.kind = "table" THEN gloss ELSE c.meta>>

\* _hash: the kind, the content and the metadata of the first element, taken before
\* a table's summary is put in front of it.  The code joins the contents to one
\* string: two lists of contents that join to the same are told apart here only.
ContentHash(c, gloss) == <<c.kind, c.body, c.meta>>

\* The rows of chunk_elements for a document.  Ids are drawn anew in every run;
\* section is the heading the parent id was drawn for, whether stored or not.
RowsOf(v, doc, gloss) ==
    LET cs == chunk_elements(v.elements)
        Id(k) == IF k = 0 THEN NoId ELSE <<count.runs, proc.at, k>>
    IN  {[id |-> Id(k), doc |-> doc, kind |-> cs[k].kind, body |-> cs[k].body,
          parent |-> Id(cs[k].parent), size |-> cs[k].size,
          hash |-> ContentHash(cs[k], gloss),
          section |-> IF cs[k].parent = 0 THEN <<>> ELSE cs[cs[k].parent].body]
         : k \in 1 .. Len(cs)}

\* Mutant: chunks of any document count as present.
PresentAnywhere(doc) == {c.hash : c \in chunks}

\* existing, in upsert_chunks
Present(doc) == {c.hash : c \in {x \in chunks : x.doc = doc}}

\* Mutant: links are stored as extracted.
LinksAsExtracted(e) == e.links

\* Both ends have been stored in this transaction, with an id each.
KnownLinks(e) ==
    {l \in e.links : l[1] \in e.components \ e.invalid /\ l[2] \in e.failures \ e.invalid}

\* harness_name_to_id.get(b.harness_name): NULL unless it is of the same extract.
Benchmarks(e) ==
    {<<b[1], IF b[2] \in e.harnesses THEN b[2] ELSE NoId>> : b \in e.benchmarks}

-----------------------------------------------------------------------------

Empty == [components |-> {}, failures |-> {}, harnesses |-> {}, links |-> {}, benchmarks |-> {}]

IngestInit ==
    /\ disk \in [{Files[i] : i \in DOMAIN Files} -> Versions]
    /\ documents = {} /\ chunks = {} /\ catalog = Empty
    /\ proc = Stopped
    /\ count = [runs |-> 0, edits |-> 0, cleans |-> 0]
    /\ loaded = {} /\ disturbed = FALSE

\* uv run python -m ingestion.run
StartRun ==
    /\ proc.pc \in {"stopped", "complete"}
    /\ count.runs < MaxRuns
    /\ count' = [count EXCEPT !.runs = @ + 1]
    /\ proc' = NextFile
    /\ disturbed' = FALSE
    /\ UNCHANGED <<disk, corpus, loaded>>

\* parsed = parse(f); upsert_document(parsed): found by its hash, or inserted.
UpsertDocument ==
    LET v == disk[File]
        fresh == <<count.runs, proc.at>>
        known == {d \in documents : d.hash = DocHash(File, v)}
    IN  /\ proc.pc = "document"
        /\ IF known # {}
           THEN /\ \E d \in known : proc' = WithDocument(v, d.id)
                /\ UNCHANGED documents
           ELSE /\ documents' = documents \cup {[id |-> fresh, hash |-> DocHash(File, v)]}
                /\ proc' = WithDocument(v, fresh)
        /\ UNCHANGED <<disk, chunks, catalog, count, loaded, disturbed>>

\* chunk_elements, embed_chunks, then upsert_chunks: one transaction.
UpsertChunks ==
    /\ proc.pc = "chunks"
    /\ \E g \in Glosses :
          chunks' = chunks \cup {c \in RowsOf(proc.version, proc.doc, g) :
                                    c.hash \notin Present(proc.doc)}
    /\ loaded' = loaded \cup {<<proc.doc, proc.version>>}
    /\ proc' = [proc EXCEPT !.pc = "entities"]
    /\ UNCHANGED <<disk, documents, catalog, count, disturbed>>

\* extract_entities, then upsert_entities: one transaction; then the next file.  A run
\* with --skip-entities leaves the catalog as it is, as an empty extract would.
UpsertEntities ==
    /\ proc.pc = "entities"
    /\ \/ UNCHANGED catalog
       \/ \E e \in Extracts :
             catalog' = [components |-> catalog.components \cup (e.components \ e.invalid),
                         failures |-> catalog.failures \cup (e.failures \ e.invalid),
                         harnesses |-> catalog.harnesses \cup e.harnesses,
                         links |-> catalog.links \cup KnownLinks(e),
                         benchmarks |-> catalog.benchmarks \cup Benchmarks(e)]
    /\ proc' = NextFile
    /\ UNCHANGED <<disk, documents, chunks, count, loaded, disturbed>>

\* An exception or a crash: the transaction that was open is rolled back.
StopRun ==
    /\ proc.pc \in {"document", "chunks", "entities"}
    /\ proc' = Stopped
    /\ UNCHANGED <<disk, corpus, count, loaded, disturbed>>

\* Somebody edits a file.
Edit ==
    /\ count.edits < MaxEdits
    /\ count' = [count EXCEPT !.edits = @ + 1]
    /\ \E f \in DOMAIN disk, v \in Versions :
          v # disk[f] /\ disk' = [disk EXCEPT ![f] = v]
    /\ disturbed' = TRUE
    /\ UNCHANGED <<corpus, proc, loaded>>

\* python scripts/clean_db.py --yes: all tables in one transaction.
Clean ==
    /\ count.cleans < MaxCleans
    /\ count' = [count EXCEPT !.cleans = @ + 1]
    /\ documents' = {} /\ chunks' = {} /\ catalog' = Empty
    /\ loaded' = {} /\ disturbed' = TRUE
    /\ UNCHANGED <<disk, proc>>

IngestNext ==
    \/ StartRun \/ UpsertDocument \/ UpsertChunks \/ UpsertEntities
    \/ StopRun \/ Edit \/ Clean

IngestSpec == IngestInit /\ [][IngestNext]_ingestVars

-----------------------------------------------------------------------------

\* The types of the variables that change; the ids are keys, so that no insert
\* meets the ON CONFLICT (chunk_id) it provides for (db.py:95).
TypeOK ==
    /\ disk \in [{Files[i] : i \in DOMAIN Files} -> Versions]
    /\ proc.pc \in {"stopped", "document", "chunks", "entities", "complete"}
    /\ proc.at \in 0 .. Len(Files)
    /\ proc.version \in Versions \cup {NoId}
    /\ \A d, e \in documents : d.id = e.id \/ d.hash = e.hash => d = e
    /\ \A c, d \in chunks : c.id = d.id => c = d

\* A run that completes, over files nobody touches and whatever the runs before it
\* left behind, leaves every element of every file in a chunk of its document.
CompleteRunIsComplete ==
    proc.pc = "complete" /\ ~ disturbed =>
        \A f \in DOMAIN disk : \E d \in documents :
            /\ d.hash = DocHash(f, disk[f])
            /\ \A i \in DOMAIN disk[f].elements : \E c \in chunks :
                  c.doc = d.id /\ disk[f].elements[i].content \in {c.body[k] : k \in DOMAIN c.body}

\* "idempotent upserts for documents and chunks" (db.py:1): a version whose chunks
\* the document holds is not stored again, in this run or another.
UpsertsAreIdempotent ==
    [][~ (chunks' \subseteq chunks) => <<proc.doc, proc.version>> \notin loaded]_chunks

\* A chunk whose parent was never stored (its heading was there already, under the
\* id of an earlier run) still has that heading in its document.
OrphansHaveATwin ==
    \A c \in chunks : c.parent # NoId =>
        \E h \in chunks : h.doc = c.doc /\ h.kind = "heading" /\ h.body = c.section

\* Every stored link joins a stored component and a stored failure mode, every
\* benchmark a stored harness or none, although what the model extracts need not.
ReferencesResolve ==
    /\ \A l \in catalog.links : l[1] \in catalog.components /\ l[2] \in catalog.failures
    /\ \A b \in catalog.benchmarks : b[2] \in catalog.harnesses \cup {NoId}
=============================================================================
