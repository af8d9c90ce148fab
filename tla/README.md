# Specifications of the harness-engineering RAG service

TLA+ modules for the service in `src/`: what its request handlers share, how
they interleave and fail, and what holds all the same. TLC checks the modules on
small instances; TLAPS proves every safety property of the passing runs for every instance.

## The system

A question comes in over HTTP (`app/api/routes.py`), passes a per-user rate
limit, is read against the conversation so far, and walks a LangGraph pipeline
(`app/agents/supervisor.py`): classify and rewrite, embed, look up the answer
cache, count against a rate limit, retrieve and/or query SQL, synthesize, store
in the cache, append to the conversation. Over `POST /api/query/stream` the
client sees server-sent events on the way. The service runs one worker per
container and scales by containers (`serve.py`), so everything handlers share
is in Redis, reached over REST without transactions; inside a container the
handlers interleave at every `await`.

| Component | State | Operations | Hard behaviour | What makes it correct |
|---|---|---|---|---|
| Rate limiter `retrieval/rate_limiter.py` | a sorted set with a TTL per bucket | `check_rate_limit` = prune, count, add, expire | the commands of concurrent calls interleave; a call may stop between two | bounded overshoot; nothing in the window is forgotten; after `reset_in` a stamp of the refusing set has left |
| Answer cache `retrieval/cache.py`, `cache_verify.py` | entries, an index set, exact keys, two counters | `cache_get_exact`, `cache_get`, `cache_set`, the admin's clear | three structures with no transaction; TTLs one by one; reaping on old evidence | relevant answers only; cleared is never served; only dead entries are reaped; each request counted once |
| Conversation memory `retrieval/session_memory.py` | per session: recent turns, rolling summary | `load_memory`, `append_turns` | read-modify-write around a model call; two keys; summarizer failures | folding loses nothing; a load misses nothing; order |
| Supervisor `agents/supervisor.py` | per request: `AgentState` | ten graph nodes, `ask`, `ask_stream` | a node's failure changes the path of the others; shared bucket and cache | the cache stays context-free |
| Query routes `api/routes.py` | per request: locals of the generator | `query`, `query_stream` | fast path, deadline, disconnect, an exception at any `await` | well-formed streams; honest metrics; no stuck pipeline |
| Rewriter, synthesizer, summarizer | none | model calls | may fail, or answer anything | (by their outcomes, in the modules above) |
| Hybrid retrieval `retrieval/hybrid.py` | none (Postgres) | rank fusion, parent expansion, length filter | the constant against the rows fetched; a parent that is a result already | agreement wins; no duplicates |
| SQL agent `sql/agent.py` | the cached schema; per call: attempt, statement, messages | generate, validate, execute, retry, explain | what the loop leaves behind when it ends; a thread outlives a cancelled call | the retries told to the caller say what an answer rests on |
| Tracing `observability/tracing.py` | process-wide breaker; a run per call | post, end, patch around a call | calls in flight when the breaker trips; cancellation | tracing never changes a result; trips on time; stays quiet |
| Metrics `observability/metrics.py` | in-process samples | `record_query`, snapshot | - | every request recorded once (in `QueryRoutes`) |
| Ingestion `ingestion/`, `scripts/clean_db.py` | Postgres documents, chunks, catalog; the run's position | parse, chunk, embed, upsert per file; truncate | three transactions per file and a stop between any two; files edited, tables truncated | a completed run is complete; re-runs add nothing; references resolve |
| Chat page `frontend/src/app/chat/page.tsx`, `lib/` | React state, streams, localStorage with a fallback in memory | submit, abort, select, delete, stream events | callbacks of a stream after the user moved on; writes that fail | a session keeps its own questions; one answer at a time; the form comes back |

Components interact by calls (route -> pipeline -> stores), by the stores they
share (every handler reads what others wrote), and by the event stream. The
hazards list of `PROJECT.json` names the places where that is hard to test.

## Modules

| Module | Models | Composition |
|---|---|---|
| `RateLimiter` | `check_rate_limit`, one Redis command per action | |
| `SemanticCache` | the cache's three operations and `DELETE /api/cache`, one Redis command per action | |
| `SessionMemory` | `load_memory`, `append_turns`, one Redis command or model call per action | |
| `Supervisor` | the graph, one node per action, and the events of `ask_stream` | over an abstract cache, memory and bucket |
| `QueryRoutes` | the two query routes around it | EXTENDS `Supervisor` |
| `SqlAgent` | `text_to_sql`, one await per action | |
| `Tracing` | `@traced` around it, and the circuit breaker | EXTENDS `SqlAgent`; refines it |
| `Chunker` | `chunk_elements`, as operators | |
| `Ingestion` | ingestion runs and the truncation, one transaction per action | EXTENDS `Chunker` |
| `Lists` | sorting and filtering, as `list.sort` and `Array.filter` do them | |
| `HybridRetrieval` | `hybrid_retrieve`, as operators | EXTENDS `Lists` |
| `Corpus` | what the two modules before it promise together | EXTENDS `Ingestion`, `HybridRetrieval` |
| `ChatPage` | the chat page of a tab, its streams and its sessions | EXTENDS `Lists` |
| `MC...` | the model values and small sets of the runs | EXTEND the module they check |
| `RateLimiterProofs`, `SemanticCacheProofs`, `SessionMemoryProofs`, `QueryRoutesProofs`, `TracingProofs`, `CorpusProofs`, `ChatPageProofs` | theorems | EXTEND the module and TLAPS |
| `ListProofs` | lemmas on `Lists`, on induction and on least and greatest numbers | EXTENDS `Lists`, TLAPS |

**RateLimiter.** `zset`, `expiresAt` are the Redis key, `pc`, `bucket`, `now` a
call in progress. `Begin` reads the clock, then `Prune`, `Count`, `Add`, `Expire`
(or `Reject`) are the commands in the order of the code; the decision is taken on
the value `Count` read. Time is a shared discrete clock, `Tick` also fires TTLs.
`Abort` ends a call anywhere. `unrenewed` is a history variable: stamps no EXPIRE
has followed.

**SemanticCache.** `live`, `index`, `exact`, `hits`, `misses` are the Redis keys,
`content` what each entry says, `op[p]` the record of a handler: its next command
and its locals. A text stands for its normalized form, an embedding for its
similarities (`Sim`). SMEMBERS, each MGET batch, each SREM, SET and INCR is a
step; the clear's loop deletes one key per step. EXPIRE has no effect because any
key may expire at any time. The history variables `answered` and `purged` count
answered requests and remember what a finished clear listed.

**SessionMemory.** One session (sessions share no key), counted in exchanges: the
code only ever appends and slices an even number of messages. Whether the token
budget is exceeded is left open. A summary is the set of exchanges it covers; the
summarizer may cover what it is given, return an empty text, or raise.
`forgotten` collects what the hard cap, a TTL or an empty summary drops, `raced`
becomes TRUE when two appends overlap.

**Supervisor, QueryRoutes.** `req[r]` holds the pipeline state and the route's locals.
The cache is a set of answers with the text they are found by, the memory a set of
exchanges per session, the bucket a set of requests: a lookup, a store or an append is
one step here, what it can do in detail is the matter of the other modules. The
limiter's count and its add are two steps, `RateLimit` and `RateAdd`, so that the shared
bucket is overshot here as in `RateLimiter`. A lookup may miss although there is an
answer (an expired key, a verifier's no, an exception). A text is a question; a
follow-up's `meaning` may differ from its text. The rewriter either resolves it or
raises; a wrong resolution by the model is not represented, nor is the rewriting of a
question that needs none. `stream[r]` is what the client has been sent, without the
progress notices (`status`), consecutive tokens or sources as one; every event is a
step. `QueryRoutes` adds arrival (the per-user limiter's verdict is left open), the
memory load, the fast path, `done` and `error`, the record of the metrics, the deadline
and the disconnect. What builds an event or a response may raise (`BuildRaises`): a
stream then reports an error, while `POST /query`, which builds its response after its
`finally` clause, answers 500 to a request recorded as a success (routes.py:122-139). A
deadline that fires while the generator is suspended at a `yield` cancels its consumer
instead; the stream then ends as in `Disconnect`.

**SqlAgent, Tracing.** `job[c]` is the coroutine of a call: its next await, the attempt,
the statement, the failed attempts its messages hold (`told`) and what it comes to
(`out`). A statement is what the static check sees of it: the flaws `validate_sql` looks
for, and the names its pattern finds after FROM and JOIN (agent.py:96-99). What the
database reads for it is not modelled, and no property says that only the tables of the
catalog are read: a second table after a comma, or a quoted name, is nothing the pattern
finds. Looking for the cached schema and building it are two steps, so that a call may
build, and fail, after another has built it. `ran` remembers what the database was
handed, also by a thread whose call has been cancelled. `Tracing` puts the wrapper
around it in the same steps, as the code does: `Call` builds and posts a run in the step
the function starts in, `Proceed` ends and patches it in the step the function ends in.
`breaker` is the module's two globals, `run` what LangSmith knows. Each LangSmith call
may fail or not. Two things are assumed and stated in the header of `Tracing`: tracing
is switched on (off, the wrapper is the function, tracing.py:163), and the result can be
printed: `str(result)` is taken outside `_safe_end` (tracing.py:183), and one that
raised would turn an answer into an exception. That of an `SQLResult` does not.
`hybrid_retrieve` and the query rewriter carry the same decorator and share the breaker.

`AnswersShowWhatRan` says what the loop leaves behind when it ends: up to
`_MAX_RETRIES` retries an answer shows the rows of the statement it names. With one more
there are none, and the code explains "The query returned 0 rows" about the statement
that passed the check before, even one the database refused (agent.py:223-228, 260-268).
Nothing but the number of retries tells the caller.

*Refinement.* `SqlAgent` by itself is what the decorator promises: "the wrapped
function always runs and its result/exception is returned/propagated unchanged".
`TracedIsUntraced` is `INSTANCE SqlAgent WITH job <- CallerView`, where `CallerView`
has, as the result of a call, what the wrapper gave its caller (`returned`), not what
the function came to.

**Chunker, Ingestion.** A file is its title and its elements, an element its kind,
content, metadata and length in tokens. The metadata of a chunk is that of its first
element, as in the code, and part of its hash. The code joins the contents before it
hashes them: two lists of contents that join to the same string are told apart here and
not there. `Chunker` packs them as the code does: the windows' start is what line 152
leaves of the three rules before it. `proc` is the position of the run,
`UpsertDocument`, `UpsertChunks` and `UpsertEntities` are its three transactions,
`StopRun` is an exception or a crash anywhere. Ids are drawn anew in each run, so that
the parent of a new chunk may be the id of a heading that was skipped as present:
`OrphansHaveATwin` says the heading is there under another. A run with `--skip-entities`
leaves the catalog alone. What the model extracts is any of a set of extracts, with
invalid categories and links to what was not extracted. The tables' constraints are not
in the repository: whether a foreign key refuses a chunk whose document was truncated
away is left open (`StopRun` covers that it does). A run over no files is complete when
it starts, as a loop over an empty list is.

**Lists.** `Sorted` names the k-th element of a set as the one that k - 1 others come
before, `Pick` keeps the positions of a list that a filter keeps. Both say what the
library functions return and not how; they are not recursive, so that they can be
proved about.

**HybridRetrieval, Corpus.** Operators on the rows two searches return, with exact
fractions for the scores. `ParentIds` is read from the metadata, as
hybrid.py:155 does. Ingestion stores the parent in a column and never in the
metadata, so with the rows it writes the set is always empty, and the comments at
hybrid.py:218-219 and README.md:57 ("parent-chunk expansion") describe something
that does not happen; the operators check the expansion as written. What chunking and
ranking promise depends on no step; `Corpus` states it of the state before any run,
where TLC evaluates it once for every input of `Buffers` and `RowLists`.

**ChatPage.** `page` is the React state, `stream[q]` the connection of a question,
`stored` and `fallback` the two places of the sessions. A connection is read on after
`done` and after `error` (`"answered"`, api.ts:142-146): another `error` (`ErrorEvent`)
or a break (`Break`) then calls `onError` for a question that is settled. Every callback
is a step; they act on the messages that are on the screen, and write under the session
the question was asked in. Where that makes a property fail, a history variable names
the race and the property excludes it, no more: `"strayed"`, a stream that ended after
its session was left (page.tsx:485: the messages of one conversation are stored over
another's), and `"late"`, a connection that breaks, or sends an `error`, after its
answer and with the next question under way (api.ts:142-163, page.tsx:491-508: the flag
and the abort controller of that question are cleared, and a third can be asked).
`StreamingEnds` excludes the response that ends with no event (api.ts:86). Without these
conjuncts TLC shows each of the three behaviours. `kept`, the questions a session must
hold, loses at a reload those that were only in the fallback in memory, and no others.
Leaving the page does not abort its streams; their callbacks then act on a page that is
gone, so `Reopen` closes them here.

Not in any model: the text of prompts, answers and logs; JSON that does not parse;
the Redis client's retries; the token budget's arithmetic (`_estimate_tokens`).

## Runs

| Run | Bounds | Shows |
|---|---|---|
| `limiter` | 2 handlers, 1 bucket, limit 2, window 3, 7 ticks | `OvershootBounded`, `NoStampForgottenInWindow`, `ResetInFreesASlot`, under every interleaving and abort |
| `cache` | 2 handlers, 3 texts, 2 entries, 3 operations, batches of 1 | `ServedIsRelevant`, `ClearedIsNeverServed`, `MissIsJustified`, `RequestsCountedOnce`, `ReapsOnlyDead` |
| `memory` | 2 requests, 4 exchanges, 1 kept, cap 2 | `FoldingLosesNothing`, `LoadsSeeEverything`, `TurnsInOrder` |
| `routes` | 2 requests, 1 user, 1 conversation and none, 2 texts, limit 1 | `CacheIsContextFree`, `StreamsAreWellFormed`, `MetricsMatchTheStream`, `PipelineAnswersAreSeen`, `PipelinesEnd` |
| `traced_sql` | 2 calls, 3 statements, 2 retries, threshold 3 | `RetriesBounded`, `AnswersShowWhatRan`, `TripsAtThreshold`, `OpenRunsAreExcused`, `QuietOnceTripped`, `TracedIsUntraced` |
| `corpus` | 2 files of 4 contents, 3 runs, 1 edit, 1 truncation; buffers of up to 4 texts; searches of up to 3 rows | `CompleteRunIsComplete`, `UpsertsAreIdempotent`, `OrphansHaveATwin`, `ReferencesResolve`; `PackingIsSound`, `RankingIsSound`, `ResultsAreDistinct` |
| `chat_page` | 2 sessions, 2 questions | `SessionsKeepTheirOwn`, `OneStreamAtATime`, `StreamingEnds` |
| `stale_mapping` | as `cache` | violated: `DeletesOnlyDanglingMapping` |
| `lost_exchange` | as `memory`, 2 exchanges | violated: `AppendedIsRemembered` |
| `shared_bucket` | 2 requests of 2 users | violated: `LimitedByOwnRequests` |
| `cached_refusal` | 2 requests of a conversation | violated: `CachedAnswersAreSynthesized` |
| `raw_follow_up` | 2 requests of a conversation | violated: `FollowUpsAreResolved` |

Why the bounds are enough. *Limiter*: buckets share nothing; two handlers are the least
that can both pass a check; the window and the clock are long enough for stamps of
several ages, for both handlers to be late, and for a TTL of two windows to fire.
*Cache*: the similarities of the three texts lie at every boundary: identical, equal to
the trusted threshold (9), equal to the floor (7), and one pair below the floor (5);
three operations are a store, a second store or a clear, and a lookup, two of them at
any time at once; batches of one make every MGET take several steps. *Memory*: with one
exchange kept and a cap of two, four appends fold, fold again and hit the cap. *Routes*:
with a limit of one and two requests every path is taken by one while the other has
left, or is leaving, something in the cache, the bucket or the memory. *Traced SQL*: two
calls make at most six LangSmith calls, so that three failures in a row come from one
call or from both, and find either in flight; two retries are a first, a middle and a
last attempt. The code's `_MAX_RETRIES` of 3 is covered by the theorems. *Corpus*: three
runs are one that stops, one that completes it, and one over an edited file; the edit
puts a text in the middle of a page, so that its windows move, under a heading that
stays, or moves a text to another page and changes nothing but its metadata. The lengths
of the texts (0, 1, 2, 4, 5, 6) lie on both sides of the overlap (2) and of the target
(5), so that a single text longer than a window occurs. `Buffers` and `Rows` are the
inputs TLC tries; the proofs take any set of buffers and any table. `RrfK` and `Fetch`
are the smallest at the edge of `RetrievalAssumption`; the code's 60 and 20 are inside
it. *Chat page*: two questions are the least that overlap, two sessions the least to be
left for one another; a third question multiplies the states beyond the time a run has,
and the theorems hold for any number. `MaxOps`, `MaxExchanges`, `MaxTime`, `MaxRuns`,
`MaxEdits`, `MaxCleans`, `MaxSessions` and `MaxQuestions` are bounds of the models only.
Deadlock checking is off where the bounded operations, requests, calls or runs run out
(`cache`, `routes`, `traced_sql`, `corpus`, `chat_page`).

The five violated properties each quote what a comment of the code says; the
`findings` of `PROJECT.json` tell the behaviour TLC shows.

**Fairness.** `QueryRoutes` and `ChatPage` assume some. In `QueryRoutes` a timer that is
due fires (`Deadline`), and a generator that waits for nothing but its client goes on
(`Finish`, `Fail`) or is cancelled. `BuildRaises` has none: a response is built or not.
No fairness is assumed of Redis, the database or a model: each may never answer.
`PipelinesEnd` says that a time comes when every stream that got as far as the pipeline
is over (`<>[]`, there being finitely many requests); the deadline takes it out of the
nodes, and `Finish` and `Fail` out of what is left. It speaks of the pipeline because
the code's deadline does: `load_memory`, `cache_get_exact` and the fast path's
`append_turns` are awaited outside it (routes.py:192, 196, 208) and can hold a stream
beyond the 120 seconds of the comment at routes.py:34-36. In `ChatPage` a connection
ends (`Finish`: the response ends, or the connection breaks), which is what that
deadline gives the browser but for those stuck calls; of the events before it, and of
the user, nothing is assumed.

## Proofs

| Theorem | States |
|---|---|
| `LimiterTypes` | `Spec => []TypeOK` |
| `LimiterOvershootBounded` | `Spec => []OvershootBounded` |
| `LimiterForgetsNothingInWindow` | `Spec => NoStampForgottenInWindow` |
| `LimiterTellsWhenToRetry` | `Spec => ResetInFreesASlot` |
| `CacheTypes` | `Spec => []TypeOK` |
| `ReapingIsSafe` | `Spec => ReapsOnlyDead` |
| `ServedAnswersAreRelevant`, `ClearingIsFinal`, `MissesAreJustified` | `ServedIsRelevant`, `ClearedIsNeverServed`, `MissIsJustified` |
| `CountsAreHonest` | `RequestsCountedOnce` |
| `MemoryTypes` | `Spec => []TypeOK` |
| `FoldingIsLossless`, `LoadsMissNothing`, `TurnsStayInOrder` | `FoldingLosesNothing`, `LoadsSeeEverything`, `TurnsInOrder` |
| `RouteTypes` | `Spec => []TypeOK`: no text is missing where one is a key |
| `CacheStaysContextFree` | `Spec => []CacheIsContextFree` |
| `MetricsAgree` | `Spec => []MetricsMatchTheStream` |
| `StreamsStayWellFormed` | `Spec => []StreamsAreWellFormed` |
| `FollowUpsSeeTheirPast` | `Spec => []PipelineAnswersAreSeen` |
| `TracingTypes` | `Spec => []TypeOK`, the bound on attempts with it |
| `RetriesAreBounded`, `AnswersAreTold` | `RetriesBounded`, `AnswersShowWhatRan` of the traced agent |
| `BreakerTrips`, `OpenRuns`, `QuietForGood` | `TripsAtThreshold`, `OpenRunsAreExcused`, `QuietOnceTripped` |
| `TracingIsTransparent` | `Spec => TracedIsUntraced`, the refinement |
| `IngestionTypeCorrect` | `IngestSpec => []TypeOK`, the keys of the tables with it |
| `CatalogResolves`, `UpsertingTwiceAddsNothing` | `ReferencesResolve`, `UpsertsAreIdempotent` of `Ingestion` |
| `HeadingsStay`, `CompletionIsHonest` | `OrphansHaveATwin`, `CompleteRunIsComplete` |
| `EveryBufferPacksWell` | `PackingIsSound` |
| `ChunkingLosesNothing` | every element of a document is in a chunk, every parent is a heading |
| `AgreementScoresHigher` | a row of both searches scores above every row of one |
| `AgreementComesFirst`, `ResultsComeOnce` | `RankingIsSound`, `ResultsAreDistinct` |
| `PageTypeCorrect` | `PageSpec => []TypeOK` |
| `OneAnswerStreams`, `SessionsAreTheirOwn` | `OneStreamAtATime`, `SessionsKeepTheirOwn` |

All are for any number of handlers, requests, sessions, buckets, texts, entries, calls,
statements, files, runs, rows and questions, from the named assumptions on the constants
alone (`LimiterAssumption`, `CacheAssumption`, `MemoryAssumption`, `PipelineAssumption`,
`RoutesAssumption`, `AgentAssumption`, `BreakerAssumption`, `ChunkerAssumption`,
`BuffersAssumption`, `IngestionAssumption`, `RetrievalAssumption`, `ChatAssumption`).
They say of what kind a constant is, that limits, windows and batches are not zero, and
of three pairs how they compare: `HardCap > KeepRecent` (10 and 2 exchanges in the
code), `Overlap <= Target` (64 and 512 tokens), `Fetch < RrfK + 2` (20 and 60).

*Overshoot.* `OvershootBounded` is not inductive: a stamp is added long after the
count it rests on. `AdmittedBounded` also counts the calls that have passed the
check and not yet added: the stamps plus those calls are at most
`Limit - 1 + Cardinality(Procs)`. `Count` lets a call pass only below the limit,
when at most `Cardinality(Procs)` calls, this one included, are on the way;
`Add` turns a call into at most one stamp.

*Nothing forgotten.* `RenewedOutlivesWindow` says a stamp an EXPIRE has followed
leaves the window before the key's TTL fires: the TTL is set to two windows after
a clock reading that is no earlier than the stamp.

*Told when to retry.* Only `Reject` ends a call with a `reset_in`; by then the oldest
stamp of the set, a window after it was taken, is out of the inclusive range, and where
the clamp to zero applies it is out already.

*Reaping.* `ReapsOnlyDead` is a property of steps, and rests on `IndexInv`: an
entry that is named anywhere (in the index, in an exact key, in a handler's hands)
has been drawn by a store; an entry a store has drawn and not yet written is known
to that store alone; and a handler about to take members out of the index holds
only members whose value has been missing since it read them, because a drawn key
is written once and a dead one never comes back.

*What is served.* `AnswerInv` follows one operation from its first read to its answer
(`Sound`): the text it asks for, the evidence for the entry it is about to serve, the
keys a store has yet to write, the entries a lookup did not find or found too far, the
entries a clear had listed before the lookup began. Each is a fact about the past that
stays true because the contents of a drawn entry never change and a dead one does not
come back; so `IndexInv` is what makes it inductive.

*A cache without conversations.* What `CacheStore` writes was decided three nodes
earlier. `RouteInv` carries it there: past the classifier a request with no
conversation has its own message as its question (`Asks`), and an answer that
reaches the store without being a hit or having a conversation was written for
that message (`Writes`).

*Metrics.* `LedgerInv` adds what holds before a request closes: it is not recorded
and has not seen `error`; it has seen `done` only on the fast path, where the hit
is known. With that each way to close (`Closing`) records what the
client of a stream saw.

*Order of events.* Every step of a request appends at most a few events to its stream
(the lemmas on what a step does to its own stream), so `StreamInv` only has to say where
a token may not have been sent yet (`Silent`), where `done` has, and that a closed stream
has a terminal event unless its client left. *Follow-ups.* `SeenInv` holds of an
answered request that its exchange is in the memory, or lost to a failed append or a TTL
(`Kept`), and of every request that what it knows of are delivered answers (`Follows`);
nothing is delivered before it is in the memory.

*Memory.* The three properties hold as long as no two appends overlap (`raced`), and
so does the part of the invariant they need, `SafeState`: every exchange appended is
in the turns, in the summary or in `forgotten`, and each operation in progress
(`SafeOp`) holds in its locals what it is about to write, or what it will have read.
`Drift` is the lemma that carries an operation's part over the steps of the others:
they replace the summary by one that covers it.

*Agent and tracing.* `JobOK` says of a call, at each await, how many failures it has
told, and that what is about to be explained is the rows of a statement that ran, or,
when every attempt has failed and the last before it ran, no rows (`Founded`).
`TraceInv` adds that an open run belongs to a call with a `RunTree`, that the breaker is
`Sound`, and that `returned` is what the functions came to. The last conjunct is the
refinement: `CallerView` equals `job`, every step of `Tracing` is a step of one call of
the agent or a stutter.

*Upserts.* `LoadedIsPresent`: the content hashes of a version that has been loaded
into a document are among those present. Rows of two runs differ in ids and summaries
and not in hashes (`RowHashes`), so a second load finds them all and adds nothing.

*Completed runs.* `Progress`: while nothing disturbs a run, the files before its position
are stored, and the one it is at as far as it has come. A step adds rows and takes none
away, so what is stored stays stored; `HashesAreContent` turns hashes into elements.
`KeysAreUnique` rests on `IdsArePast`: an id is of an earlier run or an earlier file.
`OrphansHaveATwin` is inductive with the same two: the rows of a version hang together
(`RowsHangTogether`), and a heading that was skipped was present.

*Packing.* `chunk_elements` and its windows are folds and a recursive function. Their
recursion is unfolded from its definition, along the sets 1 .. k it goes through
(`TakeFold`, `SumFold`, `WindowsFold`), and induction over the naturals is the lemma
`NatInduct`, which takes the property as a set and follows from the well-foundedness of
`<`. With them a window ends where its sum is last within the target (`WindowEndIsLast`),
always moves, and restarts inside itself; the rest is an induction from the last window
backwards (`WindowsPack`), and one from the first element onwards (`TakeKeeps`).

*Ranks.* Two shares of at least 1/(RrfK + Fetch) exceed one of at most
1/(RrfK + 1) exactly when Fetch < RrfK + 2. The sort compares by cross-multiplication
and by position where that ties, which is a strict total order (`ByScoreOrders`), so
that `SortedLists` says of the result that every row found is in it once and a higher
score comes first. A parent that is fetched is no result (`ParentIds`), and ids are keys.

*Chat page.* `PageInv` says of the sessions the page reads (`View`) that each holds its
own questions in order, and every one in `kept`; of localStorage, which a page without
its fallback would read, the first half of that (`Files`). The screen is such a session
too and has on it every question that streams for it (`Screen`), and a question is in
`kept` once its stream was answered (`Phases`). All of it holds until a race is named in
`disturbed`; the types and `OneStreamAtATime` hold beyond that. The stored list is in
the invariant because a write that failed leaves it older than the fallback, and a
reload goes back to it, with those questions of `kept` that are in it.

Model-checked only: the liveness properties `PipelinesEnd` and `StreamingEnds` (and with
them anything about ENABLED), which are beyond the prover, and the five violations, which
are counterexamples. All other properties of the runs are theorems. The named
assumptions are what the proofs take for granted, and TLC evaluates them in every run.

## Not modelled

- *Document parsers* (`ingestion/parsers/`): layout heuristics over what the PDF,
  DOCX and HTML libraries return. One call, no state, no order of steps to get wrong.
- *Metrics' percentiles*, the *health, metrics and statistics endpoints*, and
  `cache_stats`: they only read, or compute on a bounded deque.
- *Synthesizer and rewriter beyond their outcomes*: prompts, the JSON they parse, the
  Confidence line held back at the end of a stream; all are about the text of an answer.
- *The embeddings of ingestion* (batches, retries of the client, cost), *practitioners*
  (an upsert by name that nothing refers to) and the truncation of long documents.
- *What an edit leaves behind*: the code never deletes a chunk, so the chunks of an
  old version stay and are retrieved with the new ones. Nothing promises otherwise.
- *A file that does not parse* stops every run at its place (run.py:31, nothing
  catches the exception): the files after it are never reached.
  `CompleteRunIsComplete` is about runs that complete.
- *What an answer rests on*: a worker that fails is an empty result
  (supervisor.py:120-154), and the answer written without it is cached like any other;
  a summary the model returns empty replaces the one before (session_memory.py:105),
  which `SessionMemory` lets happen and counts as forgotten.
- *Which tables a statement reads*: the model sees the names the check's pattern finds
  and no more; see `SqlAgent`.
- *Rounding of `Retry-After`* (routes.py:102) down to seconds; the model's clock has
  the limiter's own resolution. `POST /api/query` records every answer as a miss
  (routes.py:126): `MetricsMatchTheStream` states the hit flag for streams only.
- *Two tabs of the chat page*: each writes the whole list of sessions and the later
  write wins.
- *The tables' constraints* and indexes: they are not in the repository.
- *Landing pages, service wiring, evaluation and smoke tests*: presentation, settings
  and offline clients.
