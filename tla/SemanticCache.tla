---------------------------- MODULE SemanticCache ----------------------------
(***************************************************************************)
(* The answer cache of app/retrieval/cache.py and the admin's clear of     *)
(* app/api/routes.py, at the grain of one Redis command per step.  Redis   *)
(* holds three structures that no transaction ties together:               *)
(*                                                                         *)
(*   cache:entry:<uuid>  an answer with the query it answers               *)
(*   cache:index         the set of entry keys the semantic scan reads     *)
(*   cache:exact:<hash>  normalized query text -> entry key                *)
(*                                                                         *)
(* Entries and exact keys expire one by one.  The TTL slides on every hit, *)
(* and an expiry may come at any moment here, so EXPIRE has no effect in   *)
(* the model.  A query is its normalized text; an embedding is known only  *)
(* by its similarity to the others.                                        *)
(***************************************************************************)
EXTENDS Integers, FiniteSets

CONSTANTS
    Procs,      \* request handlers and admin calls in flight
    Texts,      \* normalized query texts
    Entries,    \* the uuids cache_set can draw
    Sim,        \* cosine of the embeddings of two texts, on an integer scale
    Trust,      \* settings.cache_trust_threshold
    Floor,      \* settings.cache_floor_threshold
    Batch,      \* _MGET_BATCH
    NoEntry,    \* "no such key"
    NoText,     \* the text of an operation that has none
    MaxOps      \* bound of the model: operations started

ASSUME CacheAssumption ==
    /\ Sim \in [Texts \X Texts -> Nat]
    /\ Trust \in Nat
    /\ Floor \in Nat
    /\ Batch \in Nat \ {0}
    /\ MaxOps \in Nat
    /\ NoEntry \notin Entries
    /\ NoText \notin Texts

VARIABLES
    live,       \* Redis: the entry keys that exist
    index,      \* Redis: cache:index
    exact,      \* Redis: cache:exact:*, per text
    hits,       \* Redis: cache:hits
    misses,     \* Redis: cache:misses
    content,    \* per uuid drawn, what its entry says; [about, keys]
    op,         \* per handler, its operation: the next command and the locals
    ops,        \* operations started
    answered,   \* history: requests whose lookup returned
    purged      \* history: entries listed by a clear that has returned

redisVars == <<live, index, exact, hits, misses>>
vars      == <<redisVars, content, op, ops, answered, purged>>

\* The content of a uuid nobody has drawn yet.
Undrawn == [about |-> NoText, keys |-> {}]

\* A handler with nothing to do.  text is the text looked up or stored,
\* fallback the standalone text a probe falls through to, entry the entry key
\* held (mapped, best or new), seen the listed index members, pending the keys
\* still to read, write or delete, found the members MGET had a value for, and
\* before the history of purged when the operation started.
Idle == [pc |-> "idle", text |-> NoText, fallback |-> NoText, probing |-> FALSE,
         entry |-> NoEntry, seen |-> {}, pending |-> {}, found |-> {},
         verified |-> FALSE, before |-> {}]

-----------------------------------------------------------------------------

AtRest(p) == op[p].pc \in {"idle", "served", "missed", "stored", "cleared"}

At(p, l) == op[p].pc = l

Become(p, o) == op' = [op EXCEPT ![p] = o]

Goto(p, l) == Become(p, [op[p] EXCEPT !.pc = l])

Likeness(t, e) == Sim[t, content[e].about]

\* Mutant: `sim < best_sim`.
Worst(t, es) == {e \in es : \A f \in es : Likeness(t, f) >= Likeness(t, e)}

\* The candidates the ranking can end with: `sim > best_sim` keeps the first of
\* the most similar entries, in the order SMEMBERS happened to list them.
Best(t, es) == {e \in es : \A f \in es : Likeness(t, f) <= Likeness(t, e)}

\* Mutant: the reaping drops every member the scan listed.
Listed(p) == op[p].seen

\* The members of the index whose value was gone when MGET read them.
Orphans(p) == op[p].seen \ op[p].found

\* One MGET reads the next keys of the list, at most Batch of them.
Batches(ks) ==
    {b \in SUBSET ks : Cardinality(b) = Batch \/ (b = ks /\ Cardinality(b) < Batch)}

-----------------------------------------------------------------------------

Init ==
    /\ live = {} /\ index = {}
    /\ exact = [t \in Texts |-> NoEntry]
    /\ hits = 0 /\ misses = 0
    /\ content = [e \in Entries |-> Undrawn]
    /\ op = [p \in Procs |-> Idle]
    /\ ops = 0 /\ answered = 0 /\ purged = {}

Start(p) ==
    /\ AtRest(p)
    /\ ops < MaxOps
    /\ ops' = ops + 1
    /\ UNCHANGED <<redisVars, answered, purged>>

-----------------------------------------------------------------------------
(* Lookups: cache_get_exact, cache_get.                                    *)

\* A request with no conversation probes its raw text first and falls through
\* to cache_get on the standalone one; any other request goes to cache_get.
Lookup(p, raw, standalone, probe) ==
    /\ Start(p)
    /\ Become(p, [Idle EXCEPT !.pc = "mapping", !.probing = probe, !.before = purged,
                              !.text = IF probe THEN raw ELSE standalone,
                              !.fallback = standalone])
    /\ UNCHANGED content

\* Mutants, here and below: slips a change to the code could make, each checked
\* to break a property.  The fall-through loses the text:
NotExactNoText(o) ==
    [o EXCEPT !.pc = IF o.probing THEN "mapping" ELSE "scan",
              !.probing = FALSE, !.text = NoEntry, !.entry = NoEntry]

\* cache_get_exact returns None: the route's probe continues with cache_get on
\* the standalone text, cache_get itself with the semantic scan.
NotExact(o) ==
    [o EXCEPT !.pc = IF o.probing THEN "mapping" ELSE "scan",
              !.probing = FALSE, !.text = o.fallback, !.entry = NoEntry]

\* Mutant: an exact lookup that finds no mapping records a miss of its own.
GetMappingCountingMiss(p) ==
    LET e == exact[op[p].text]
    IN  /\ At(p, "mapping")
        /\ misses' = IF e = NoEntry THEN misses + 1 ELSE misses
        /\ Become(p, IF e = NoEntry THEN NotExact(op[p])
                     ELSE [op[p] EXCEPT !.pc = "entry", !.entry = e])
        /\ UNCHANGED <<live, index, exact, hits, content, ops, answered, purged>>

\* mapped = await r.get(ekey)
GetMapping(p) ==
    LET e == exact[op[p].text]
    IN  /\ At(p, "mapping")
        /\ Become(p, IF e = NoEntry THEN NotExact(op[p])
                     ELSE [op[p] EXCEPT !.pc = "entry", !.entry = e])
        /\ UNCHANGED <<redisVars, content, ops, answered, purged>>

\* raw = await r.get(mapped)
GetEntry(p) ==
    /\ At(p, "entry")
    /\ Goto(p, IF op[p].entry \in live THEN "hit" ELSE "srem")
    /\ UNCHANGED <<redisVars, content, ops, answered, purged>>

\* await r.srem(_INDEX_KEY, mapped)
RemoveStale(p) ==
    /\ At(p, "srem")
    /\ index' = index \ {op[p].entry}
    /\ Goto(p, "delete")
    /\ UNCHANGED <<live, exact, hits, misses, content, ops, answered, purged>>

\* await r.delete(ekey): whatever the key maps to by now.
DeleteMapping(p) ==
    /\ At(p, "delete")
    /\ exact' = [exact EXCEPT ![op[p].text] = NoEntry]
    /\ Become(p, NotExact(op[p]))
    /\ UNCHANGED <<live, index, hits, misses, content, ops, answered, purged>>

\* entry_keys = list(await r.smembers(_INDEX_KEY))
Scan(p) ==
    /\ At(p, "scan")
    /\ Become(p, [op[p] EXCEPT !.pc = IF index = {} THEN "miss" ELSE "mget",
                               !.seen = index, !.pending = index])
    /\ UNCHANGED <<redisVars, content, ops, answered, purged>>

\* values = await _mget_all(r, entry_keys), batch after batch.
Mget(p) ==
    /\ At(p, "mget")
    /\ \E b \in Batches(op[p].pending) :
          LET rest == op[p].pending \ b
              got  == op[p].found \cup (b \cap live)
          IN  Become(p, [op[p] EXCEPT !.found = got, !.pending = rest,
                                      !.pc = IF rest # {} THEN "mget"
                                             ELSE IF got = op[p].seen THEN "rank"
                                             ELSE "reap"])
    /\ UNCHANGED <<redisVars, content, ops, answered, purged>>

\* await r.srem(_INDEX_KEY, *orphans)
Reap(p) ==
    /\ At(p, "reap")
    /\ index' = index \ Orphans(p)
    /\ Goto(p, "rank")
    /\ UNCHANGED <<live, exact, hits, misses, content, ops, answered, purged>>

\* Mutant: the gray band is accepted without the verifier.
BandUnverified(likeness) == IF likeness >= Floor THEN "hit" ELSE "miss"

\* The bands: accept, ask the verifier, or miss.
Band(likeness) ==
    CASE likeness >= Trust -> "hit"
      [] likeness < Trust /\ likeness >= Floor -> "verify"
      [] OTHER -> "miss"

\* The ranking of the entries read.
Rank(p) ==
    /\ At(p, "rank")
    /\ \/ op[p].found = {} /\ Goto(p, "miss")
       \/ \E e \in Best(op[p].text, op[p].found) :
             Become(p, [op[p] EXCEPT !.entry = e,
                                     !.pc = Band(Likeness(op[p].text, e))])
    /\ UNCHANGED <<redisVars, content, ops, answered, purged>>

\* accept = await verify(query, best_entry["answer"]): a call to the model.
Verify(p) ==
    /\ At(p, "verify")
    /\ \E ok \in BOOLEAN :
          Become(p, [op[p] EXCEPT !.verified = ok,
                                  !.pc = IF ok THEN "hit" ELSE "miss"])
    /\ UNCHANGED <<redisVars, content, ops, answered, purged>>

\* await r.expire(...); await r.incr(_HITS_KEY): the copy read before is served.
Hit(p) ==
    /\ At(p, "hit")
    /\ hits' = hits + 1
    /\ answered' = answered + 1
    /\ Goto(p, "served")
    /\ UNCHANGED <<live, index, exact, misses, content, ops, purged>>

\* await r.incr(_MISSES_KEY)
Miss(p) ==
    /\ At(p, "miss")
    /\ misses' = misses + 1
    /\ answered' = answered + 1
    /\ Goto(p, "missed")
    /\ UNCHANGED <<live, index, exact, hits, content, ops, purged>>

-----------------------------------------------------------------------------
(* Stores: cache_set.                                                      *)

\* entry_key = f"cache:entry:{uuid4()}": a key nobody has used.
Store(p, t, aliases) ==
    /\ Start(p)
    /\ \E e \in Entries :
          /\ content[e] = Undrawn
          /\ content' = [content EXCEPT ![e] = [about |-> t, keys |-> {t} \cup aliases]]
          /\ Become(p, [Idle EXCEPT !.pc = "set", !.entry = e,
                                    !.pending = {t} \cup aliases])

\* await r.set(entry_key, payload, ex=ttl)
SetEntry(p) ==
    /\ At(p, "set")
    /\ live' = live \cup {op[p].entry}
    /\ Goto(p, "sadd")
    /\ UNCHANGED <<index, exact, hits, misses, content, ops, answered, purged>>

\* await r.sadd(_INDEX_KEY, entry_key)
AddToIndex(p) ==
    /\ At(p, "sadd")
    /\ index' = index \cup {op[p].entry}
    /\ Goto(p, "keys")
    /\ UNCHANGED <<live, exact, hits, misses, content, ops, answered, purged>>

\* await r.set(_exact_key(q), entry_key, ex=ttl), for each q of a Python set.
SetExactKey(p) ==
    /\ At(p, "keys")
    /\ \E q \in op[p].pending :
          /\ exact' = [exact EXCEPT ![q] = op[p].entry]
          /\ Become(p, IF op[p].pending = {q} THEN [Idle EXCEPT !.pc = "stored"]
                       ELSE [op[p] EXCEPT !.pending = @ \ {q}])
    /\ UNCHANGED <<live, index, hits, misses, content, ops, answered, purged>>

-----------------------------------------------------------------------------
(* DELETE /api/cache.                                                      *)

Clear(p) ==
    /\ Start(p)
    /\ Become(p, [Idle EXCEPT !.pc = "list"])
    /\ UNCHANGED content

\* keys = r.smembers("cache:index")
ListKeys(p) ==
    /\ At(p, "list")
    /\ Become(p, [op[p] EXCEPT !.pc = IF index = {} THEN "delIndex" ELSE "delEntries",
                               !.seen = index, !.pending = index])
    /\ UNCHANGED <<redisVars, content, ops, answered, purged>>

\* Mutant: only the index is cleared.
DeleteNoEntry(p) ==
    /\ At(p, "delEntries")
    /\ Goto(p, "delIndex")
    /\ UNCHANGED <<redisVars, content, ops, answered, purged>>

\* for k in keys: r.delete(k)
DeleteEntry(p) ==
    /\ At(p, "delEntries")
    /\ \E e \in op[p].pending :
          /\ live' = live \ {e}
          /\ Become(p, [op[p] EXCEPT !.pending = @ \ {e},
                                     !.pc = IF op[p].pending = {e} THEN "delIndex" ELSE @])
    /\ UNCHANGED <<index, exact, hits, misses, content, ops, answered, purged>>

\* r.delete("cache:index"): what was added since the listing goes too.
DeleteIndex(p) ==
    /\ At(p, "delIndex")
    /\ index' = {}
    /\ Goto(p, "delHits")
    /\ UNCHANGED <<live, exact, hits, misses, content, ops, answered, purged>>

\* r.delete("cache:hits")
DeleteHits(p) ==
    /\ At(p, "delHits")
    /\ hits' = 0
    /\ Goto(p, "delMisses")
    /\ UNCHANGED <<live, index, exact, misses, content, ops, answered, purged>>

\* r.delete("cache:misses"), and the call returns.
DeleteMisses(p) ==
    /\ At(p, "delMisses")
    /\ misses' = 0
    /\ purged' = purged \cup op[p].seen
    /\ Become(p, [Idle EXCEPT !.pc = "cleared"])
    /\ UNCHANGED <<live, index, exact, hits, content, ops, answered>>

-----------------------------------------------------------------------------

\* A Redis or model call raises, the handler is cancelled, or its container
\* stops, between two commands.
Abort(p) ==
    /\ ~ AtRest(p)
    /\ Become(p, Idle)
    /\ UNCHANGED <<redisVars, content, ops, answered, purged>>

\* The TTL of an entry, or of an exact key, runs out.
ExpireEntry(e) ==
    /\ e \in live
    /\ live' = live \ {e}
    /\ UNCHANGED <<index, exact, hits, misses, content, op, ops, answered, purged>>

ExpireKey(t) ==
    /\ exact[t] # NoEntry
    /\ exact' = [exact EXCEPT ![t] = NoEntry]
    /\ UNCHANGED <<live, index, hits, misses, content, op, ops, answered, purged>>

LookupStep(p) ==
    \/ \E t, u \in Texts : Lookup(p, t, u, TRUE)
    \/ \E t \in Texts : Lookup(p, t, t, FALSE)
    \/ GetMapping(p) \/ GetEntry(p) \/ RemoveStale(p) \/ DeleteMapping(p)
    \/ Scan(p) \/ Mget(p) \/ Reap(p) \/ Rank(p) \/ Verify(p) \/ Hit(p) \/ Miss(p)

StoreStep(p) ==
    \/ \E t, u \in Texts : Store(p, t, {u})
    \/ SetEntry(p) \/ AddToIndex(p) \/ SetExactKey(p)

ClearStep(p) ==
    \/ Clear(p) \/ ListKeys(p) \/ DeleteEntry(p) \/ DeleteIndex(p)
    \/ DeleteHits(p) \/ DeleteMisses(p)

Next ==
    \/ \E p \in Procs : LookupStep(p) \/ StoreStep(p) \/ ClearStep(p) \/ Abort(p)
    \/ \E e \in Entries : ExpireEntry(e)
    \/ \E t \in Texts : ExpireKey(t)

Spec == Init /\ [][Next]_vars

-----------------------------------------------------------------------------

PcValues ==
    {"idle", "mapping", "entry", "srem", "delete", "scan", "mget", "reap", "rank",
     "verify", "hit", "miss", "served", "missed", "set", "sadd", "keys", "stored",
     "list", "delEntries", "delIndex", "delHits", "delMisses", "cleared"}

OpType ==
    [pc : PcValues, text : Texts \cup {NoText}, fallback : Texts \cup {NoText},
     probing : BOOLEAN, entry : Entries \cup {NoEntry}, seen : SUBSET Entries,
     pending : SUBSET (Entries \cup Texts), found : SUBSET Entries,
     verified : BOOLEAN, before : SUBSET Entries]

Drawn == {e \in Entries : content[e] # Undrawn}

\* The types of the variables.
TypeOK ==
    /\ live \in SUBSET Entries /\ index \in SUBSET Entries
    /\ exact \in [Texts -> Entries \cup {NoEntry}]
    /\ hits \in Nat /\ misses \in Nat /\ ops \in Nat /\ answered \in Nat
    /\ content \in [Entries -> [about : Texts \cup {NoText}, keys : SUBSET Texts]]
    /\ op \in [Procs -> OpType]
    /\ purged \in SUBSET Entries

\* A step outside a clear takes no entry that exists out of the index.
ReapsDead ==
    (index \ index') \cap live' # {} => \E p \in Procs : At(p, "delIndex")

\* The reaping of the index acts on the evidence of an earlier GET or MGET, and
\* still never takes out an entry that exists: stores may add entries between
\* the read and the SREM, but a key that was read as gone never comes back.
ReapsOnlyDead == [][ReapsDead]_vars

\* Every served answer is relevant to the question, whatever stores, expiries
\* and clears ran since the entry was read: the question is a text the answer
\* was stored under, or it is similar enough, with the verifier's word when
\* the similarity is below the trusted band.
ServedIsRelevant ==
    \A p \in Procs : At(p, "served") =>
        \/ op[p].text \in content[op[p].entry].keys
        \/ Likeness(op[p].text, op[p].entry) >= Trust
        \/ Likeness(op[p].text, op[p].entry) >= Floor /\ op[p].verified

\* A clear that has returned is final for the entries it listed: a request that
\* starts afterwards is never served one of them, by text or by similarity.
ClearedIsNeverServed ==
    \A p \in Procs : At(p, "served") => op[p].entry \notin op[p].before

\* A miss is real: an entry of the index a lookup listed that is still there is
\* not one the lookup was bound to accept.
MissIsJustified ==
    \A p \in Procs : At(p, "missed") =>
        \A e \in op[p].seen \cap live : Likeness(op[p].text, e) < Trust

\* A request is never counted twice, though the route's probe and the pipeline
\* both look it up (cache.py:105-106, :141-142).
RequestsCountedOnce == hits + misses <= answered

\* What cache.py:125 says of the clean-up, "Mapping outlived its entry": the key
\* the lookup deletes maps to an entry that is gone.
DeletesOnlyDanglingMapping ==
    [][\A p \in Procs : (At(p, "delete") /\ op'[p].pc \in {"mapping", "scan"})
          => exact[op[p].text] \notin live]_vars
=============================================================================
