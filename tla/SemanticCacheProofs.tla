------------------------- MODULE SemanticCacheProofs -------------------------
(* The reaping of the cache's index is safe, for any number of handlers,   *)
(* texts, uuids and similarities: what a lookup found gone stays gone,     *)
(* because the one step that makes an entry appear writes a uuid that no   *)
(* other operation and no Redis structure knows yet.  From the same facts, *)
(* what is served is relevant, what is cleared stays cleared, a miss has   *)
(* overlooked nothing, and the counters count a request once.              *)
EXTENDS SemanticCache, TLAPS

-----------------------------------------------------------------------------
(* The inductive invariant.                                                *)

\* The entries an operation can name.
Names(o) == o.seen \cup o.found \cup {o.entry}

\* The entries Redis names.
Stored == live \cup index \cup {exact[t] : t \in Texts}

\* Every entry that is named has been drawn.
NamedIsDrawn ==
    /\ Stored \subseteq Drawn \cup {NoEntry}
    /\ \A p \in Procs : Names(op[p]) \subseteq Drawn \cup {NoEntry}

\* A uuid whose entry is not written yet is named by its store alone.
UnwrittenIsPrivate ==
    \A p \in Procs : At(p, "set") =>
        /\ op[p].entry \in Entries
        /\ op[p].entry \notin Stored
        /\ \A q \in Procs \ {p} : op[p].entry \notin Names(op[q])

\* What a lookup is about to take out of the index is gone.
Evidence(o, alive) ==
    /\ o.pc = "srem" => o.entry \notin alive
    /\ o.pc = "mget" => (o.seen \ (o.pending \cup o.found)) \cap alive = {}
    /\ o.pc = "reap" => (o.seen \ o.found) \cap alive = {}

EvidenceHolds == \A p \in Procs : Evidence(op[p], live)

\* A lookup has a text until it scans, and a store that has written its entry
\* still holds the key.
Asks(o) ==
    /\ o.pc \in {"mapping", "entry", "srem", "delete"}
          => o.text \in Texts /\ o.fallback \in Texts
    /\ o.pc \in {"sadd", "keys"} => o.entry \in Entries

AllAsk == \A p \in Procs : Asks(op[p])

IndexInv ==
    TypeOK /\ NamedIsDrawn /\ UnwrittenIsPrivate /\ EvidenceHolds /\ AllAsk

-----------------------------------------------------------------------------
(* Every step but three moves one operation on with what is known already. *)

\* The operation p becomes o without drawing or writing an entry.
Moves(p, o) ==
    /\ Become(p, o)
    /\ o \in OpType
    /\ ~ At(p, "set") \/ (o.entry = NoEntry /\ o.seen = {} /\ o.found = {}
                            /\ index' = index /\ exact' = exact)
    /\ o.pc # "set"
    /\ Names(o) \subseteq Stored \cup Names(op[p]) \cup {NoEntry}
    /\ Evidence(o, live') /\ Asks(o)
    /\ content' = content
    /\ live' \subseteq live
    /\ index' \subseteq index \cup (Names(op[p]) \ {NoEntry})
    /\ exact' \in [Texts -> Entries \cup {NoEntry}]
    /\ \A t \in Texts : exact'[t] \in {exact[t], NoEntry, op[p].entry}
    /\ hits' \in Nat /\ misses' \in Nat /\ ops' \in Nat /\ answered' \in Nat
    /\ purged' \in SUBSET Entries

LEMMA MovesKeeps ==
    ASSUME IndexInv, NEW p \in Procs, NEW o, Moves(p, o)
    PROVE  IndexInv'
<1> USE CacheAssumption
<1>1. /\ op' = [op EXCEPT ![p] = o]
      /\ op \in [Procs -> OpType]
      /\ op'[p] = o
      /\ \A q \in Procs \ {p} : op'[q] = op[q]
  BY DEF Moves, Become, IndexInv, TypeOK
<1>2. Drawn' = Drawn
  BY DEF Moves, Drawn
<1>3. TypeOK'
  <2>1. index' \in SUBSET Entries
    BY <1>1 DEF Moves, IndexInv, TypeOK, OpType, Names
  <2> QED
    BY <1>1, <2>1 DEF Moves, IndexInv, TypeOK
<1>4. Stored' \subseteq Stored \cup Names(op[p]) \cup {NoEntry}
  BY DEF Moves, Stored, Names
<1>5. NamedIsDrawn'
  BY <1>1, <1>2, <1>4 DEF Moves, IndexInv, NamedIsDrawn
<1>6. UnwrittenIsPrivate'
  <2> SUFFICES ASSUME NEW q \in Procs, At(q, "set")'
               PROVE  /\ op'[q].entry \in Entries
                      /\ op'[q].entry \notin Stored'
                      /\ \A r \in Procs \ {q} : op'[q].entry \notin Names(op'[r])
    BY DEF UnwrittenIsPrivate, Names
  <2>1. q # p /\ op'[q] = op[q] /\ At(q, "set")
    BY <1>1 DEF Moves, At
  <2>2. /\ op[q].entry \in Entries
        /\ op[q].entry \notin Stored
        /\ \A r \in Procs \ {q} : op[q].entry \notin Names(op[r])
    BY <2>1 DEF IndexInv, UnwrittenIsPrivate
  <2>3. op[q].entry \notin Stored \cup Names(op[p]) \cup {NoEntry}
    BY <2>1, <2>2
  <2> QED
    BY <1>1, <1>4, <2>1, <2>2, <2>3 DEF Moves
<1>7. EvidenceHolds'
  <2> SUFFICES ASSUME NEW q \in Procs
               PROVE  Evidence(op'[q], live')
    BY DEF EvidenceHolds
  <2>1. CASE q = p
    BY <1>1, <2>1 DEF Moves, Evidence
  <2>2. CASE q # p
    BY <1>1, <2>2 DEF Moves, Evidence, IndexInv, EvidenceHolds
  <2> QED
    BY <2>1, <2>2
<1>8. AllAsk'
  BY <1>1 DEF Moves, Asks, IndexInv, AllAsk
<1> QED
  BY <1>3, <1>5, <1>6, <1>7, <1>8 DEF IndexInv

-----------------------------------------------------------------------------
(* Lookups.                                                                *)

LEMMA Typed ==
    ASSUME IndexInv, NEW p \in Procs
    PROVE  op[p] \in OpType /\ Idle \in OpType
BY DEF IndexInv, TypeOK, OpType, Idle, PcValues

\* A lookup that leaves the exact key behind.
LEMMA NotExactTyped ==
    ASSUME NEW o \in OpType, Asks(o), o.pc \in {"mapping", "delete"}
    PROVE  /\ NotExact(o) \in OpType
           /\ NotExact(o).pc \in {"mapping", "scan"}
           /\ Names(NotExact(o)) \subseteq Names(o) \cup {NoEntry}
           /\ Asks(NotExact(o))
BY DEF OpType, PcValues, NotExact, Names, Asks

LEMMA LookupKeeps ==
    ASSUME IndexInv, NEW p \in Procs, LookupStep(p)
    PROVE  IndexInv'
<1> USE CacheAssumption
<1>t. op[p] \in OpType /\ Idle \in OpType /\ op \in [Procs -> OpType]
  BY Typed DEF IndexInv, TypeOK
<1>r. /\ live \in SUBSET Entries /\ index \in SUBSET Entries
      /\ exact \in [Texts -> Entries \cup {NoEntry}]
      /\ hits \in Nat /\ misses \in Nat /\ ops \in Nat /\ answered \in Nat
      /\ purged \in SUBSET Entries
  BY DEF IndexInv, TypeOK
<1>e. Evidence(op[p], live) /\ Asks(op[p])
  BY DEF IndexInv, EvidenceHolds, AllAsk
<1>1. ASSUME NEW t \in Texts, NEW u \in Texts, NEW probe \in BOOLEAN,
             Lookup(p, t, u, probe)
      PROVE  IndexInv'
  <2> DEFINE o == [Idle EXCEPT !.pc = "mapping", !.probing = probe, !.before = purged,
                               !.text = IF probe THEN t ELSE u, !.fallback = u]
  <2>1. o \in OpType
    BY <1>t, <1>r DEF OpType, PcValues
  <2>2. Moves(p, o)
    BY <1>1, <1>r, <2>1
       DEF Lookup, Start, AtRest, At, Moves, redisVars, Idle, Names, Evidence, Asks
  <2> QED BY <2>2, MovesKeeps
<1>2. ASSUME GetMapping(p)
      PROVE  IndexInv'
  <2> DEFINE e == exact[op[p].text]
             o == IF e = NoEntry THEN NotExact(op[p])
                  ELSE [op[p] EXCEPT !.pc = "entry", !.entry = e]
  <2>0. op[p].pc = "mapping" /\ op[p].text \in Texts /\ e \in Entries \cup {NoEntry}
    BY <1>2, <1>e, <1>r DEF GetMapping, At, Asks
  <2>1. o \in OpType /\ o.pc \in {"mapping", "scan", "entry"}
    BY <1>t, <1>e, <2>0, NotExactTyped DEF OpType, PcValues
  <2>3. Asks(o)
    BY <1>t, <1>e, <2>0, NotExactTyped DEF OpType, Asks
  <2>4. Names(o) \subseteq Stored \cup Names(op[p]) \cup {NoEntry}
    <3>1. CASE e = NoEntry
      BY <1>t, <1>e, <2>0, <3>1, NotExactTyped
    <3>2. CASE e # NoEntry
      <4>1. e \in Stored
        BY <2>0 DEF Stored
      <4> QED
        BY <1>t, <3>2, <4>1 DEF OpType, Names
    <3> QED BY <3>1, <3>2
  <2>2. Moves(p, o)
    BY <1>2, <1>r, <2>0, <2>1, <2>3, <2>4
       DEF GetMapping, At, Moves, redisVars, Evidence
  <2> QED BY <2>2, MovesKeeps
<1>3. ASSUME GetEntry(p)
      PROVE  IndexInv'
  <2> DEFINE o == [op[p] EXCEPT !.pc = IF op[p].entry \in live THEN "hit" ELSE "srem"]
  <2>1. o \in OpType
    BY <1>t DEF OpType, PcValues
  <2>2. Moves(p, o)
    BY <1>3, <1>t, <1>r, <1>e, <2>1
       DEF GetEntry, Goto, At, Moves, redisVars, Names, Evidence, Asks, OpType
  <2> QED BY <2>2, MovesKeeps
<1>4. ASSUME RemoveStale(p)
      PROVE  IndexInv'
  <2> DEFINE o == [op[p] EXCEPT !.pc = "delete"]
  <2>1. o \in OpType
    BY <1>t DEF OpType, PcValues
  <2>2. Moves(p, o)
    BY <1>4, <1>t, <1>r, <1>e, <2>1
       DEF RemoveStale, Goto, At, Moves, redisVars, Names, Evidence, Asks, OpType
  <2> QED BY <2>2, MovesKeeps
<1>5. ASSUME DeleteMapping(p)
      PROVE  IndexInv'
  <2> DEFINE o == NotExact(op[p])
  <2>1. o \in OpType /\ o.pc \in {"mapping", "scan"} /\ Asks(o)
        /\ Names(o) \subseteq Names(op[p]) \cup {NoEntry}
    BY <1>5, <1>t, <1>e, NotExactTyped DEF DeleteMapping, At
  <2>2. Moves(p, o)
    BY <1>5, <1>r, <2>1 DEF DeleteMapping, At, Moves, Evidence
  <2> QED BY <2>2, MovesKeeps
<1>6. ASSUME Scan(p)
      PROVE  IndexInv'
  <2> DEFINE o == [op[p] EXCEPT !.pc = IF index = {} THEN "miss" ELSE "mget",
                                !.seen = index, !.pending = index]
  <2>1. o \in OpType
    BY <1>t, <1>r DEF OpType, PcValues
  <2>2. Moves(p, o)
    BY <1>6, <1>t, <1>r, <1>e, <2>1
       DEF Scan, At, Moves, redisVars, Names, Stored, Evidence, Asks, OpType
  <2> QED BY <2>2, MovesKeeps
<1>7. ASSUME Mget(p)
      PROVE  IndexInv'
  <2>1. PICK b \in Batches(op[p].pending) :
          Become(p, [op[p] EXCEPT !.found = op[p].found \cup (b \cap live),
                                  !.pending = op[p].pending \ b,
                                  !.pc = IF op[p].pending \ b # {} THEN "mget"
                                         ELSE IF op[p].found \cup (b \cap live)
                                                   = op[p].seen THEN "rank"
                                         ELSE "reap"])
    BY <1>7 DEF Mget
  <2> DEFINE o == [op[p] EXCEPT !.found = op[p].found \cup (b \cap live),
                                !.pending = op[p].pending \ b,
                                !.pc = IF op[p].pending \ b # {} THEN "mget"
                                       ELSE IF op[p].found \cup (b \cap live)
                                                 = op[p].seen THEN "rank"
                                       ELSE "reap"]
  <2>2. o \in OpType
    BY <1>t, <1>r DEF OpType, PcValues
  <2>3. Names(o) \subseteq Stored \cup Names(op[p])
    BY <1>t DEF Names, Stored, OpType
  <2>4. Evidence(o, live)
    <3>1. op[p].pc = "mget"
      BY <1>7 DEF Mget, At
    <3>2. (op[p].seen \ (op[p].pending \cup op[p].found)) \cap live = {}
      BY <1>e, <3>1 DEF Evidence
    <3>3. (op[p].seen \ ((op[p].pending \ b) \cup (op[p].found \cup (b \cap live))))
             \cap live = {}
      BY <3>2
    <3>4. o.pc # "srem"
      BY <1>t DEF OpType
    <3> QED
      BY <1>t, <3>3, <3>4 DEF Evidence, OpType
  <2>5. Asks(o) /\ o.pc # "set"
    BY <1>t DEF OpType, Asks
  <2>6. Moves(p, o)
    BY <1>7, <1>r, <2>1, <2>2, <2>3, <2>4, <2>5 DEF Mget, At, Moves, redisVars
  <2> QED BY <2>6, MovesKeeps
<1>8. ASSUME Reap(p)
      PROVE  IndexInv'
  <2> DEFINE o == [op[p] EXCEPT !.pc = "rank"]
  <2>1. o \in OpType
    BY <1>t DEF OpType, PcValues
  <2>2. Moves(p, o)
    BY <1>8, <1>t, <1>r, <2>1
       DEF Reap, Goto, At, Moves, redisVars, Names, Evidence, Asks, OpType
  <2> QED BY <2>2, MovesKeeps
<1>9. ASSUME Rank(p)
      PROVE  IndexInv'
  <2>1. CASE Goto(p, "miss")
    <3> DEFINE o == [op[p] EXCEPT !.pc = "miss"]
    <3>1. o \in OpType
      BY <1>t DEF OpType, PcValues
    <3>2. Moves(p, o)
      BY <1>9, <2>1, <1>t, <1>r, <3>1
         DEF Rank, Goto, At, Moves, redisVars, Names, Evidence, Asks, OpType
    <3> QED BY <3>2, MovesKeeps
  <2>2. ASSUME NEW e \in Best(op[p].text, op[p].found),
               Become(p, [op[p] EXCEPT !.entry = e,
                                       !.pc = Band(Likeness(op[p].text, e))])
        PROVE  IndexInv'
    <3> DEFINE o == [op[p] EXCEPT !.entry = e,
                                  !.pc = Band(Likeness(op[p].text, e))]
    <3>0. Band(Likeness(op[p].text, e)) \in {"hit", "verify", "miss"}
      BY DEF Band
    <3>1. e \in op[p].found /\ e \in Entries
      BY <1>t DEF Best, OpType
    <3>2. o \in OpType /\ o.pc \in {"hit", "verify", "miss"}
      BY <1>t, <3>0, <3>1 DEF OpType, PcValues
    <3>3. Names(o) \subseteq Names(op[p])
      BY <1>t, <3>1 DEF Names, OpType
    <3>4. Moves(p, o)
      BY <1>9, <2>2, <1>r, <3>2, <3>3
         DEF Rank, At, Moves, redisVars, Evidence, Asks
    <3> QED BY <3>4, MovesKeeps
  <2> QED BY <1>9, <2>1, <2>2 DEF Rank
<1>10. ASSUME Verify(p)
       PROVE  IndexInv'
  <2>1. PICK ok \in BOOLEAN :
          Become(p, [op[p] EXCEPT !.verified = ok, !.pc = IF ok THEN "hit" ELSE "miss"])
    BY <1>10 DEF Verify
  <2> DEFINE o == [op[p] EXCEPT !.verified = ok, !.pc = IF ok THEN "hit" ELSE "miss"]
  <2>2. o \in OpType
    BY <1>t DEF OpType, PcValues
  <2>3. Moves(p, o)
    BY <1>10, <1>t, <1>r, <2>1, <2>2
       DEF Verify, At, Moves, redisVars, Names, Evidence, Asks, OpType
  <2> QED BY <2>3, MovesKeeps
<1>11. ASSUME Hit(p)
       PROVE  IndexInv'
  <2> DEFINE o == [op[p] EXCEPT !.pc = "served"]
  <2>1. o \in OpType
    BY <1>t DEF OpType, PcValues
  <2>2. Moves(p, o)
    BY <1>11, <1>t, <1>r, <2>1
       DEF Hit, Goto, At, Moves, Names, Evidence, Asks, OpType
  <2> QED BY <2>2, MovesKeeps
<1>12. ASSUME Miss(p)
       PROVE  IndexInv'
  <2> DEFINE o == [op[p] EXCEPT !.pc = "missed"]
  <2>1. o \in OpType
    BY <1>t DEF OpType, PcValues
  <2>2. Moves(p, o)
    BY <1>12, <1>t, <1>r, <2>1
       DEF Miss, Goto, At, Moves, Names, Evidence, Asks, OpType
  <2> QED BY <2>2, MovesKeeps
<1> QED
  BY <1>1, <1>2, <1>3, <1>4, <1>5, <1>6, <1>7, <1>8, <1>9, <1>10, <1>11, <1>12
     DEF LookupStep

-----------------------------------------------------------------------------
(* Stores, clears, aborts and expiries.                                    *)

\* Drawing a uuid: it is new to Redis and to every other operation.
LEMMA StoreKeeps ==
    ASSUME IndexInv, NEW p \in Procs, NEW t \in Texts, NEW u \in Texts,
           Store(p, t, {u})
    PROVE  IndexInv'
<1> USE CacheAssumption
<1>1. PICK e \in Entries :
        /\ content[e] = Undrawn
        /\ content' = [content EXCEPT ![e] = [about |-> t, keys |-> {t} \cup {u}]]
        /\ Become(p, [Idle EXCEPT !.pc = "set", !.entry = e,
                                  !.pending = {t} \cup {u}])
  BY DEF Store
<1> DEFINE o == [Idle EXCEPT !.pc = "set", !.entry = e, !.pending = {t} \cup {u}]
<1>2. /\ UNCHANGED redisVars
      /\ o \in OpType
      /\ o.pc = "set" /\ o.entry = e
      /\ Names(o) = {e}
      /\ op' = [op EXCEPT ![p] = o]
  BY <1>1, Typed DEF Store, Start, Become, OpType, Idle, PcValues, Names
<1>3. op'[p] = o /\ \A q \in Procs \ {p} : op'[q] = op[q]
  BY <1>2 DEF IndexInv, TypeOK
<1>4. TypeOK'
  BY <1>1, <1>2 DEF IndexInv, TypeOK, Store, Start, redisVars, Undrawn
<1>5. e \notin Drawn /\ Drawn' = Drawn \cup {e}
  BY <1>1 DEF Drawn, IndexInv, TypeOK, Undrawn
<1>6. /\ Stored' = Stored
      /\ e \notin Stored
      /\ \A q \in Procs : e \notin Names(op[q])
  BY <1>2, <1>5 DEF Stored, redisVars, IndexInv, NamedIsDrawn
<1>7. NamedIsDrawn'
  BY <1>2, <1>3, <1>5, <1>6 DEF IndexInv, NamedIsDrawn
<1>8. UnwrittenIsPrivate'
  <2> SUFFICES ASSUME NEW q \in Procs, At(q, "set")'
               PROVE  /\ op'[q].entry \in Entries
                      /\ op'[q].entry \notin Stored'
                      /\ \A r \in Procs \ {q} : op'[q].entry \notin Names(op'[r])
    BY DEF UnwrittenIsPrivate, Names
  <2>1. CASE q = p
    BY <1>2, <1>3, <1>6, <2>1
  <2>2. CASE q # p
    <3>1. At(q, "set") /\ op'[q] = op[q]
      BY <1>3, <2>2 DEF At
    <3>2. /\ op[q].entry \in Entries
          /\ op[q].entry \notin Stored
          /\ \A r \in Procs \ {q} : op[q].entry \notin Names(op[r])
      BY <3>1 DEF IndexInv, UnwrittenIsPrivate
    <3>3. op[q].entry # e
      <4>1. e \notin Names(op[q])
        BY <1>6
      <4> QED
        BY <4>1 DEF Names
    <3>4. op[q].entry \notin Names(op'[p])
      BY <1>2, <1>3, <3>3
    <3> QED
      BY <1>3, <1>6, <2>2, <3>1, <3>2, <3>4
  <2> QED
    BY <2>1, <2>2
<1>9. EvidenceHolds' /\ AllAsk'
  <2>1. live' = live
    BY <1>2 DEF redisVars
  <2>2. Evidence(o, live') /\ Asks(o)
    BY <1>2 DEF Evidence, Asks
  <2> QED
    BY <1>3, <2>1, <2>2 DEF IndexInv, EvidenceHolds, AllAsk, Evidence, Asks
<1> QED
  BY <1>4, <1>7, <1>8, <1>9 DEF IndexInv

\* Writing the entry: the one step that makes a key appear.  Nothing that was
\* read as gone can be this key, for nobody else names it.
LEMMA SetEntryKeeps ==
    ASSUME IndexInv, NEW p \in Procs, SetEntry(p)
    PROVE  IndexInv'
<1> USE CacheAssumption
<1> DEFINE e == op[p].entry
           o == [op[p] EXCEPT !.pc = "sadd"]
<1>1. /\ e \in Entries
      /\ e \notin Stored
      /\ \A q \in Procs \ {p} : e \notin Names(op[q])
  BY DEF SetEntry, IndexInv, UnwrittenIsPrivate
<1>2. /\ live' = live \cup {e}
      /\ UNCHANGED <<index, exact, content>>
      /\ op' = [op EXCEPT ![p] = o]
  BY DEF SetEntry, Goto, Become
<1>3. /\ o \in OpType /\ o.pc = "sadd" /\ o.entry = e
      /\ Names(o) = Names(op[p]) /\ e \in Names(op[p])
  BY Typed DEF OpType, PcValues, Names
<1>4. op'[p] = o /\ \A q \in Procs \ {p} : op'[q] = op[q]
  BY <1>2 DEF IndexInv, TypeOK
<1>5. TypeOK'
  BY <1>1, <1>2, <1>3 DEF IndexInv, TypeOK, SetEntry
<1>6. Stored' = Stored \cup {e} /\ Drawn' = Drawn
  BY <1>2 DEF Stored, Drawn
<1>7. NamedIsDrawn'
  BY <1>3, <1>4, <1>6 DEF IndexInv, NamedIsDrawn
<1>8. UnwrittenIsPrivate'
  <2> SUFFICES ASSUME NEW q \in Procs, At(q, "set")'
               PROVE  /\ op'[q].entry \in Entries
                      /\ op'[q].entry \notin Stored'
                      /\ \A r \in Procs \ {q} : op'[q].entry \notin Names(op'[r])
    BY DEF UnwrittenIsPrivate, Names
  <2>1. q # p /\ At(q, "set") /\ op'[q] = op[q]
    BY <1>3, <1>4 DEF At
  <2>2. /\ op[q].entry \in Entries
        /\ op[q].entry \notin Stored
        /\ \A r \in Procs \ {q} : op[q].entry \notin Names(op[r])
    BY <2>1 DEF IndexInv, UnwrittenIsPrivate
  <2>3. op[q].entry # e
    BY <1>1, <2>1 DEF Names
  <2> QED
    BY <1>3, <1>4, <1>6, <2>1, <2>2, <2>3
<1>9. EvidenceHolds'
  <2> SUFFICES ASSUME NEW q \in Procs
               PROVE  Evidence(op'[q], live')
    BY DEF EvidenceHolds
  <2>1. CASE q = p
    BY <1>3, <1>4, <2>1 DEF Evidence
  <2>2. CASE q # p
    BY <1>1, <1>2, <1>4, <2>2 DEF Evidence, Names, IndexInv, EvidenceHolds
  <2> QED
    BY <2>1, <2>2
<1>10. AllAsk'
  BY <1>1, <1>3, <1>4 DEF IndexInv, AllAsk, Asks
<1> QED
  BY <1>5, <1>7, <1>8, <1>9, <1>10 DEF IndexInv

LEMMA StoreStepKeeps ==
    ASSUME IndexInv, NEW p \in Procs, StoreStep(p)
    PROVE  IndexInv'
<1> USE CacheAssumption
<1>t. op[p] \in OpType /\ Idle \in OpType /\ Asks(op[p])
  BY Typed DEF IndexInv, AllAsk
<1>r. /\ live \in SUBSET Entries /\ index \in SUBSET Entries
      /\ exact \in [Texts -> Entries \cup {NoEntry}]
      /\ hits \in Nat /\ misses \in Nat /\ ops \in Nat /\ answered \in Nat
      /\ purged \in SUBSET Entries
  BY DEF IndexInv, TypeOK
<1>1. ASSUME AddToIndex(p)
      PROVE  IndexInv'
  <2> DEFINE o == [op[p] EXCEPT !.pc = "keys"]
  <2>0. op[p].pc = "sadd" /\ op[p].entry \in Entries
    BY <1>1, <1>t DEF AddToIndex, At, Asks
  <2>1. o \in OpType /\ Asks(o)
    BY <1>t, <2>0 DEF OpType, PcValues, Asks
  <2>2. Moves(p, o)
    BY <1>1, <1>t, <1>r, <2>0, <2>1
       DEF AddToIndex, Goto, At, Moves, Names, Evidence, OpType
  <2> QED BY <2>2, MovesKeeps
<1>2. ASSUME SetExactKey(p)
      PROVE  IndexInv'
  <2>0. op[p].pc = "keys" /\ op[p].entry \in Entries
    BY <1>2, <1>t DEF SetExactKey, At, Asks
  <2>1. PICK q \in op[p].pending :
          /\ exact' = [exact EXCEPT ![q] = op[p].entry]
          /\ Become(p, IF op[p].pending = {q} THEN [Idle EXCEPT !.pc = "stored"]
                       ELSE [op[p] EXCEPT !.pending = @ \ {q}])
    BY <1>2 DEF SetExactKey
  <2> DEFINE o == IF op[p].pending = {q} THEN [Idle EXCEPT !.pc = "stored"]
                  ELSE [op[p] EXCEPT !.pending = @ \ {q}]
  <2>2. o \in OpType
    BY <1>t DEF OpType, PcValues
  <2>3. o.pc \in {"stored", "keys"} /\ Names(o) \subseteq Names(op[p]) \cup {NoEntry}
    BY <1>t, <2>0 DEF Idle, Names, OpType
  <2>4. Asks(o)
    BY <1>t, <2>0, <2>3 DEF Idle, Asks, OpType
  <2>5. Moves(p, o)
    BY <1>2, <1>r, <2>0, <2>1, <2>2, <2>3, <2>4
       DEF SetExactKey, At, Moves, Evidence
  <2> QED BY <2>5, MovesKeeps
<1> QED
  BY <1>1, <1>2, StoreKeeps, SetEntryKeeps DEF StoreStep

LEMMA ClearKeeps ==
    ASSUME IndexInv, NEW p \in Procs, ClearStep(p)
    PROVE  IndexInv'
<1> USE CacheAssumption
<1>t. op[p] \in OpType /\ Idle \in OpType
  BY Typed
<1>r. /\ live \in SUBSET Entries /\ index \in SUBSET Entries
      /\ exact \in [Texts -> Entries \cup {NoEntry}]
      /\ hits \in Nat /\ misses \in Nat /\ ops \in Nat /\ answered \in Nat
      /\ purged \in SUBSET Entries
  BY DEF IndexInv, TypeOK
<1>1. ASSUME Clear(p)
      PROVE  IndexInv'
  <2> DEFINE o == [Idle EXCEPT !.pc = "list"]
  <2>1. o \in OpType
    BY <1>t DEF OpType, PcValues
  <2>2. Moves(p, o)
    BY <1>1, <1>r, <2>1
       DEF Clear, Start, AtRest, At, Moves, redisVars, Idle, Names, Evidence, Asks
  <2> QED BY <2>2, MovesKeeps
<1>2. ASSUME ListKeys(p)
      PROVE  IndexInv'
  <2> DEFINE o == [op[p] EXCEPT !.pc = IF index = {} THEN "delIndex" ELSE "delEntries",
                                !.seen = index, !.pending = index]
  <2>1. o \in OpType
    BY <1>t, <1>r DEF OpType, PcValues
  <2>2. Moves(p, o)
    BY <1>2, <1>t, <1>r, <2>1
       DEF ListKeys, At, Moves, redisVars, Names, Stored, Evidence, Asks, OpType
  <2> QED BY <2>2, MovesKeeps
<1>3. ASSUME DeleteEntry(p)
      PROVE  IndexInv'
  <2>1. PICK e \in op[p].pending :
          /\ live' = live \ {e}
          /\ Become(p, [op[p] EXCEPT !.pending = @ \ {e},
                                     !.pc = IF op[p].pending = {e} THEN "delIndex" ELSE @])
    BY <1>3 DEF DeleteEntry
  <2> DEFINE o == [op[p] EXCEPT !.pending = @ \ {e},
                                !.pc = IF op[p].pending = {e} THEN "delIndex" ELSE @]
  <2>2. o \in OpType /\ o.pc \in {"delEntries", "delIndex"} /\ Names(o) = Names(op[p])
    BY <1>3, <1>t DEF DeleteEntry, At, OpType, PcValues, Names
  <2>3. Moves(p, o)
    BY <1>3, <1>r, <2>1, <2>2 DEF DeleteEntry, At, Moves, Evidence, Asks
  <2> QED BY <2>3, MovesKeeps
<1>4. ASSUME DeleteIndex(p)
      PROVE  IndexInv'
  <2> DEFINE o == [op[p] EXCEPT !.pc = "delHits"]
  <2>1. o \in OpType
    BY <1>t DEF OpType, PcValues
  <2>2. Moves(p, o)
    BY <1>4, <1>t, <1>r, <2>1
       DEF DeleteIndex, Goto, At, Moves, Names, Evidence, Asks, OpType
  <2> QED BY <2>2, MovesKeeps
<1>5. ASSUME DeleteHits(p)
      PROVE  IndexInv'
  <2> DEFINE o == [op[p] EXCEPT !.pc = "delMisses"]
  <2>1. o \in OpType
    BY <1>t DEF OpType, PcValues
  <2>2. Moves(p, o)
    BY <1>5, <1>t, <1>r, <2>1
       DEF DeleteHits, Goto, At, Moves, Names, Evidence, Asks, OpType
  <2> QED BY <2>2, MovesKeeps
<1>6. ASSUME DeleteMisses(p)
      PROVE  IndexInv'
  <2> DEFINE o == [Idle EXCEPT !.pc = "cleared"]
  <2>1. o \in OpType
    BY <1>t DEF OpType, PcValues
  <2>2. Moves(p, o)
    BY <1>6, <1>t, <1>r, <2>1
       DEF DeleteMisses, At, Moves, Idle, Names, Evidence, Asks, OpType
  <2> QED BY <2>2, MovesKeeps
<1> QED
  BY <1>1, <1>2, <1>3, <1>4, <1>5, <1>6 DEF ClearStep

LEMMA AbortKeeps ==
    ASSUME IndexInv, NEW p \in Procs, Abort(p)
    PROVE  IndexInv'
<1>1. Moves(p, Idle)
  BY Typed DEF Abort, Moves, redisVars, Idle, Names, Evidence, Asks, IndexInv, TypeOK
<1> QED
  BY <1>1, MovesKeeps

\* An expiry only makes keys disappear.
LEMMA ExpiryKeeps ==
    ASSUME IndexInv, live' \subseteq live, UNCHANGED <<index, content, op>>,
           UNCHANGED <<hits, misses, ops, answered, purged>>,
           \A t \in Texts : exact'[t] \in {exact[t], NoEntry},
           exact' \in [Texts -> Entries \cup {NoEntry}]
    PROVE  IndexInv'
<1> USE CacheAssumption
<1>1. TypeOK'
  BY DEF IndexInv, TypeOK
<1>2. Stored' \subseteq Stored \cup {NoEntry} /\ Drawn' = Drawn
  BY DEF Stored, Drawn
<1>3. NamedIsDrawn'
  BY <1>2 DEF IndexInv, NamedIsDrawn
<1>4. UnwrittenIsPrivate'
  BY <1>2 DEF IndexInv, UnwrittenIsPrivate, At
<1>5. EvidenceHolds' /\ AllAsk'
  BY DEF IndexInv, EvidenceHolds, AllAsk, Evidence
<1> QED
  BY <1>1, <1>3, <1>4, <1>5 DEF IndexInv

-----------------------------------------------------------------------------
(* The theorems.                                                           *)

LEMMA IndexInvStep ==
    IndexInv /\ [Next]_vars => IndexInv'
<1> SUFFICES ASSUME IndexInv, [Next]_vars
             PROVE  IndexInv'
  OBVIOUS
<1>1. ASSUME NEW p \in Procs, LookupStep(p) \/ StoreStep(p) \/ ClearStep(p) \/ Abort(p)
      PROVE  IndexInv'
  BY <1>1, LookupKeeps, StoreStepKeeps, ClearKeeps, AbortKeeps
<1>2. ASSUME NEW e \in Entries, ExpireEntry(e)
      PROVE  IndexInv'
  BY <1>2, ExpiryKeeps DEF ExpireEntry, IndexInv, TypeOK
<1>3. ASSUME NEW t \in Texts, ExpireKey(t)
      PROVE  IndexInv'
  BY <1>3, ExpiryKeeps DEF ExpireKey, IndexInv, TypeOK
<1>4. CASE UNCHANGED vars
  BY <1>4, ExpiryKeeps DEF vars, redisVars, IndexInv, TypeOK
<1> QED
  BY <1>1, <1>2, <1>3, <1>4 DEF Next

LEMMA IndexInvHolds == Spec => []IndexInv
<1>1. Init => IndexInv
  <2> SUFFICES ASSUME Init
               PROVE  IndexInv
    OBVIOUS
  <2>1. Idle \in OpType /\ Asks(Idle) /\ Evidence(Idle, live) /\ Names(Idle) = {NoEntry}
    BY DEF OpType, Idle, PcValues, Asks, Evidence, Names
  <2>2. TypeOK
    BY <2>1 DEF Init, TypeOK, Undrawn
  <2>3. Stored \subseteq {NoEntry}
    BY DEF Init, Stored
  <2> QED
    BY <2>1, <2>2, <2>3
       DEF Init, IndexInv, NamedIsDrawn, UnwrittenIsPrivate, EvidenceHolds, AllAsk, At, Idle
<1> QED
  BY <1>1, IndexInvStep, PTL DEF Spec

\* Every variable of the cache keeps its type.
THEOREM CacheTypes == Spec => []TypeOK
<1>1. IndexInv => TypeOK
  BY DEF IndexInv
<1> QED
  BY <1>1, IndexInvHolds, PTL

\* The two SREMs of the lookups (cache.py:126 and :179) and every other command
\* but the clear's DEL leave each entry that exists in the index.
THEOREM ReapingIsSafe == Spec => ReapsOnlyDead
<1>1. IndexInv /\ [Next]_vars => [ReapsDead]_vars
  <2> SUFFICES ASSUME IndexInv, Next
               PROVE  ReapsDead
    OBVIOUS
  <2>1. ASSUME NEW p \in Procs, LookupStep(p)
        PROVE  ReapsDead
    <3>1. CASE RemoveStale(p)
      <4>1. op[p].entry \notin live
        BY <3>1 DEF RemoveStale, At, IndexInv, EvidenceHolds, Evidence
      <4> QED
        BY <3>1, <4>1 DEF RemoveStale, ReapsDead
    <3>2. CASE Reap(p)
      <4>1. Orphans(p) \cap live = {}
        BY <3>2 DEF Reap, At, Orphans, IndexInv, EvidenceHolds, Evidence
      <4> QED
        BY <3>2, <4>1 DEF Reap, ReapsDead
    <3>3. CASE index' = index
      BY <3>3 DEF ReapsDead
    <3> QED
      BY <2>1, <3>1, <3>2, <3>3
         DEF LookupStep, Lookup, Start, GetMapping, GetEntry, DeleteMapping, Scan,
             Mget, Rank, Verify, Hit, Miss, redisVars
  <2>2. ASSUME NEW p \in Procs, StoreStep(p)
        PROVE  ReapsDead
    BY <2>2 DEF ReapsDead, StoreStep, Store, Start, SetEntry, AddToIndex, SetExactKey,
                redisVars
  <2>3. ASSUME NEW p \in Procs, ClearStep(p)
        PROVE  ReapsDead
    BY <2>3 DEF ReapsDead, ClearStep, Clear, Start, ListKeys, DeleteEntry, DeleteIndex,
                DeleteHits, DeleteMisses, redisVars
  <2>4. CASE index' = index
    BY <2>4 DEF ReapsDead
  <2> QED
    BY <2>1, <2>2, <2>3, <2>4 DEF Next, Abort, ExpireEntry, ExpireKey, redisVars
<1> QED
  BY <1>1, IndexInvHolds, PTL DEF Spec, ReapsOnlyDead

-----------------------------------------------------------------------------
(* What is served.  The invariant follows one operation from the first     *)
(* read to the answer: what it holds of the entries it names was true when *)
(* it was read and stays true, for the contents of a drawn uuid never      *)
(* change and an entry that is gone does not come back.                    *)

\* The evidence for a hit, with c for the contents.
Relevant(o, c) ==
    \/ o.text \in c[o.entry].keys
    \/ Sim[o.text, c[o.entry].about] >= Trust
    \/ Sim[o.text, c[o.entry].about] >= Floor /\ o.verified

\* What an operation may rely on at each command: the text asked, the entry
\* mapped, ranked or served,
HitSound(o, c) ==
    /\ o.pc \in {"scan", "mget", "reap", "rank", "verify"} => o.text \in Texts
    /\ o.pc = "entry" => o.entry \in Entries /\ o.text \in c[o.entry].keys
    /\ o.pc = "verify" =>
          o.entry \in Entries /\ Sim[o.text, c[o.entry].about] >= Floor
    /\ o.pc \in {"hit", "served"} => o.entry \in Entries /\ Relevant(o, c)

\* the keys a store has yet to write,
StoreSound(o, c) ==
    o.pc \in {"set", "sadd", "keys"} =>
        o.entry \in Entries /\ o.pending \subseteq c[o.entry].keys

\* the entries it did not find, or found too far,
MissSound(o, alive, c) ==
    /\ o.pc = "rank" => (o.seen \ o.found) \cap alive = {}
    /\ o.pc \in {"verify", "miss", "missed"} =>
          \A e \in o.seen \cap alive : Sim[o.text, c[e].about] < Trust

\* and the entries a clear had listed before it began, or has deleted.
ClearSound(o, alive, gone) ==
    /\ o.before \subseteq gone
    /\ o.found \cap o.before = {}
    /\ o.pc \in {"verify", "hit", "served"} => o.entry \notin o.before
    /\ o.pc = "delEntries" => (o.seen \ o.pending) \cap alive = {}
    /\ o.pc \in {"delIndex", "delHits", "delMisses"} => o.seen \cap alive = {}

Sound(o, alive, c, gone) ==
    HitSound(o, c) /\ StoreSound(o, c) /\ MissSound(o, alive, c) /\ ClearSound(o, alive, gone)

AllSound == \A p \in Procs : Sound(op[p], live, content, purged)

\* What Redis and the history hold.
KeysMapTheirTexts == \A t \in Texts : exact[t] # NoEntry => t \in content[exact[t]].keys

DrawnIsAbout == \A e \in Drawn : content[e].about \in Texts

PurgedIsGone ==
    /\ purged \cap live = {} /\ purged \subseteq Drawn
    /\ \A p \in Procs : At(p, "set") => op[p].entry \notin purged

AnswerInv ==
    IndexInv /\ AllSound /\ KeysMapTheirTexts /\ DrawnIsAbout /\ PurgedIsGone

LEMMA AnswerTyped ==
    ASSUME AnswerInv, NEW p \in Procs
    PROVE  /\ op[p] \in OpType /\ Idle \in OpType /\ op \in [Procs -> OpType]
           /\ Asks(op[p]) /\ Evidence(op[p], live) /\ Sound(op[p], live, content, purged)
           /\ live \in SUBSET Entries /\ index \in SUBSET Entries
           /\ purged \in SUBSET Entries /\ exact \in [Texts -> Entries \cup {NoEntry}]
           /\ content \in [Entries -> [about : Texts \cup {NoText}, keys : SUBSET Texts]]
BY Typed DEF AnswerInv, AllSound, IndexInv, AllAsk, EvidenceHolds, TypeOK

\* Nothing changes for the operations that only look on.
LEMMA OthersStaySound ==
    ASSUME AnswerInv, NEW q \in Procs,
           \A e \in Drawn : content'[e] = content[e],
           (live' \ live) \cap Names(op[q]) = {}, purged \subseteq purged'
    PROVE  Sound(op[q], live', content', purged')
<1> USE CacheAssumption
<1> DEFINE o == op[q]
<1>1. Sound(o, live, content, purged) /\ o \in OpType
  BY AnswerTyped
<1>2. Names(o) \cap Entries \subseteq Drawn /\ o.seen \subseteq Names(o) /\ o.entry \in Names(o)
  BY DEF AnswerInv, IndexInv, NamedIsDrawn, Names
<1>3. o.entry \in Entries => content'[o.entry] = content[o.entry]
  BY <1>2
<1>4. HitSound(o, content') /\ StoreSound(o, content')
  BY <1>1, <1>3 DEF Sound, HitSound, StoreSound, Relevant
<1>5. o.seen \cap live' \subseteq o.seen \cap live
  BY <1>2
<1>6. \A e \in o.seen : content'[e] = content[e]
  BY <1>1, <1>2 DEF OpType
<1>7. MissSound(o, live', content')
  <2>1. MissSound(o, live, content)
    BY <1>1 DEF Sound
  <2>2. ASSUME o.pc = "rank" PROVE (o.seen \ o.found) \cap live' = {}
    BY <1>5, <2>1, <2>2 DEF MissSound
  <2>3. ASSUME o.pc \in {"verify", "miss", "missed"}, NEW e \in o.seen \cap live'
        PROVE  Sim[o.text, content'[e].about] < Trust
    <3>1. Sim[o.text, content[e].about] < Trust
      BY <1>5, <2>1, <2>3 DEF MissSound
    <3> QED BY <1>6, <3>1
  <2> QED BY <2>2, <2>3 DEF MissSound
<1>8. ClearSound(o, live', purged')
  BY <1>1, <1>5 DEF Sound, ClearSound
<1> QED BY <1>4, <1>7, <1>8 DEF Sound

LEMMA AllStaySound ==
    ASSUME AnswerInv, NEW p \in Procs, NEW o, Become(p, o),
           \A e \in Drawn : content'[e] = content[e],
           \A q \in Procs \ {p} : (live' \ live) \cap Names(op[q]) = {},
           purged \subseteq purged', Sound(o, live', content', purged')
    PROVE  /\ AllSound'
           /\ op'[p] = o /\ \A q \in Procs \ {p} : op'[q] = op[q]
<1>1. op'[p] = o /\ \A q \in Procs \ {p} : op'[q] = op[q]
  BY AnswerTyped DEF Become
<1>2. ASSUME NEW q \in Procs PROVE Sound(op'[q], live', content', purged')
  <2>1. CASE q = p
    BY <1>1, <2>1
  <2>2. CASE q # p
    BY <1>1, <2>2, OthersStaySound
  <2> QED BY <2>1, <2>2
<1> QED BY <1>1, <1>2 DEF AllSound

\* A step that neither draws nor writes an entry, maps no text and ends no clear.
Quiet(p, o) ==
    /\ Become(p, o) /\ o.pc # "set"
    /\ content' = content /\ purged' = purged /\ live' \subseteq live
    /\ \A t \in Texts : exact'[t] \in {exact[t], NoEntry}
    /\ Sound(o, live', content, purged)

LEMMA QuietKeeps ==
    ASSUME AnswerInv, IndexInv', NEW p \in Procs, NEW o, Quiet(p, o)
    PROVE  AnswerInv'
<1>1. AllSound' /\ op'[p] = o /\ \A q \in Procs \ {p} : op'[q] = op[q]
  BY AllStaySound DEF Quiet
<1>2. KeysMapTheirTexts'
  BY DEF AnswerInv, KeysMapTheirTexts, Quiet
<1>3. DrawnIsAbout' /\ Drawn' = Drawn
  BY DEF AnswerInv, DrawnIsAbout, Drawn, Quiet
<1>4. PurgedIsGone'
  BY <1>1, <1>3 DEF AnswerInv, PurgedIsGone, Quiet, At
<1> QED BY <1>1, <1>2, <1>3, <1>4 DEF AnswerInv

\* An expiry only makes keys disappear.
LEMMA ExpiryAnswers ==
    ASSUME AnswerInv, IndexInv', live' \subseteq live, UNCHANGED <<content, op, purged>>,
           \A t \in Texts : exact'[t] \in {exact[t], NoEntry}
    PROVE  AnswerInv'
<1>1. AllSound'
  BY OthersStaySound DEF AllSound
<1>2. KeysMapTheirTexts' /\ DrawnIsAbout' /\ PurgedIsGone'
  BY DEF AnswerInv, KeysMapTheirTexts, DrawnIsAbout, PurgedIsGone, Drawn, At
<1> QED BY <1>1, <1>2 DEF AnswerInv

-----------------------------------------------------------------------------
(* The commands, one by one.                                               *)

\* An operation that has just started relies on nothing.
LEMMA StartSound ==
    ASSUME AnswerInv, NEW o, o.found = {}, o.before \subseteq purged,
           o.pc \in {"mapping", "list"}
    PROVE  Sound(o, live, content, purged)
BY DEF Sound, HitSound, StoreSound, MissSound, ClearSound

\* An operation at rest relies on nothing but its history.
LEMMA IdleSound ==
    ASSUME NEW alive, NEW c, NEW gone, NEW pc \in {"stored", "cleared"}
    PROVE  /\ Sound([Idle EXCEPT !.pc = pc], alive, c, gone)
           /\ Sound(Idle, alive, c, gone)
BY DEF Idle, Sound, HitSound, StoreSound, MissSound, ClearSound

\* A lookup that goes on after the exact key takes its text along.
LEMMA NotExactSound ==
    ASSUME AnswerInv, NEW p \in Procs, op[p].pc \in {"mapping", "delete"}
    PROVE  Sound(NotExact(op[p]), live, content, purged)
<1> DEFINE o == op[p]
<1>1. o \in OpType /\ Asks(o) /\ Sound(o, live, content, purged)
  BY AnswerTyped
<1>2. o.fallback \in Texts /\ o.found \cap o.before = {} /\ o.before \subseteq purged
  BY <1>1 DEF Asks, Sound, ClearSound
<1>3. /\ NotExact(o).pc \in {"mapping", "scan"} /\ NotExact(o).text = o.fallback
      /\ NotExact(o).found = o.found /\ NotExact(o).before = o.before
  BY <1>1 DEF NotExact, OpType
<1> QED BY <1>2, <1>3 DEF Sound, HitSound, StoreSound, MissSound, ClearSound

\* The entry found is the one the text maps to, and it exists.
LEMMA EntryAnswers ==
    ASSUME AnswerInv, IndexInv', NEW p \in Procs, GetMapping(p) \/ GetEntry(p)
    PROVE  AnswerInv'
<1> USE CacheAssumption
<1>t. /\ op[p] \in OpType /\ Asks(op[p]) /\ Sound(op[p], live, content, purged)
      /\ exact \in [Texts -> Entries \cup {NoEntry}]
  BY AnswerTyped
<1>1. ASSUME GetMapping(p) PROVE AnswerInv'
  <2> DEFINE e == exact[op[p].text]
             held == [op[p] EXCEPT !.pc = "entry", !.entry = e]
             o == IF e = NoEntry THEN NotExact(op[p]) ELSE held
  <2>1. op[p].pc = "mapping" /\ op[p].text \in Texts
    BY <1>1, <1>t DEF GetMapping, At, Asks
  <2>2. NotExact(op[p]).pc # "set" /\ held.pc # "set"
    BY <1>t DEF NotExact, OpType
  <2>3. e # NoEntry => Sound(held, live, content, purged)
    <3>1. /\ held.pc = "entry" /\ held.entry = e /\ held.text = op[p].text
          /\ held.before = op[p].before /\ held.found = op[p].found
      BY <1>t DEF OpType
    <3>2. e # NoEntry => e \in Entries /\ op[p].text \in content[e].keys
      BY <1>t, <2>1 DEF AnswerInv, KeysMapTheirTexts
    <3>3. held.before \subseteq purged /\ held.found \cap held.before = {}
      BY <1>t, <3>1 DEF Sound, ClearSound
    <3> HIDE DEF held
    <3> QED BY <3>1, <3>2, <3>3 DEF Sound, HitSound, StoreSound, MissSound, ClearSound
  <2>4. Sound(o, live, content, purged)
    BY <2>1, <2>3, NotExactSound
  <2>5. Quiet(p, o)
    BY <1>1, <2>2, <2>4 DEF GetMapping, Quiet, redisVars
  <2> QED BY <2>5, QuietKeeps
<1>2. ASSUME GetEntry(p) PROVE AnswerInv'
  <2> DEFINE o == [op[p] EXCEPT !.pc = IF op[p].entry \in live THEN "hit" ELSE "srem"]
  <2>1. /\ o.pc = (IF op[p].entry \in live THEN "hit" ELSE "srem")
        /\ o.entry = op[p].entry /\ o.text = op[p].text /\ o.verified = op[p].verified
        /\ o.before = op[p].before /\ o.found = op[p].found /\ o.seen = op[p].seen
    BY <1>t DEF OpType
  <2>2. op[p].entry \in Entries /\ op[p].text \in content[op[p].entry].keys
    BY <1>2, <1>t DEF GetEntry, At, Sound, HitSound
  <2>3. op[p].before \subseteq purged /\ op[p].found \cap op[p].before = {}
    BY <1>t DEF Sound, ClearSound
  <2>4. op[p].entry \in live => op[p].entry \notin op[p].before
    BY <2>3 DEF AnswerInv, PurgedIsGone
  <2>5. o.pc \in {"hit", "srem"} /\ (o.pc = "hit" => op[p].entry \in live)
    BY <2>1
  <2> HIDE DEF o
  <2>6. Sound(o, live, content, purged)
    BY <2>1, <2>2, <2>3, <2>4, <2>5
       DEF Sound, HitSound, StoreSound, MissSound, ClearSound, Relevant
  <2>7. Quiet(p, o)
    BY <1>2, <2>5, <2>6 DEF GetEntry, Goto, Quiet, redisVars, o
  <2> QED BY <2>7, QuietKeeps
<1> QED BY <1>1, <1>2

LEMMA ReapAnswers ==
    ASSUME AnswerInv, IndexInv', NEW p \in Procs,
           RemoveStale(p) \/ DeleteMapping(p) \/ Scan(p) \/ Mget(p) \/ Reap(p)
    PROVE  AnswerInv'
<1> USE CacheAssumption
<1>t. /\ op[p] \in OpType /\ Asks(op[p]) /\ Evidence(op[p], live)
      /\ Sound(op[p], live, content, purged)
      /\ exact \in [Texts -> Entries \cup {NoEntry}]
  BY AnswerTyped
<1>b. op[p].before \subseteq purged /\ op[p].found \cap op[p].before = {}
  BY <1>t DEF Sound, ClearSound
<1>1. ASSUME RemoveStale(p) PROVE AnswerInv'
  <2> DEFINE o == [op[p] EXCEPT !.pc = "delete"]
  <2>1. o.pc = "delete" /\ o.before = op[p].before /\ o.found = op[p].found
    BY <1>t DEF OpType
  <2>2. Sound(o, live, content, purged)
    BY <1>b, <2>1 DEF Sound, HitSound, StoreSound, MissSound, ClearSound
  <2>3. Quiet(p, o)
    BY <1>1, <2>1, <2>2 DEF RemoveStale, Goto, Quiet
  <2> QED BY <2>3, QuietKeeps
<1>2. ASSUME DeleteMapping(p) PROVE AnswerInv'
  <2> DEFINE o == NotExact(op[p])
  <2>1. op[p].pc = "delete" /\ o.pc # "set"
    BY <1>2, <1>t DEF DeleteMapping, At, NotExact, OpType
  <2>2. Quiet(p, o)
    BY <1>2, <1>t, <2>1, NotExactSound DEF DeleteMapping, Quiet
  <2> QED BY <2>2, QuietKeeps
<1>3. ASSUME Scan(p) PROVE AnswerInv'
  <2> DEFINE o == [op[p] EXCEPT !.pc = IF index = {} THEN "miss" ELSE "mget",
                                !.seen = index, !.pending = index]
  <2>1. /\ o.pc = (IF index = {} THEN "miss" ELSE "mget") /\ o.seen = index
        /\ o.text = op[p].text /\ o.before = op[p].before /\ o.found = op[p].found
    BY <1>t DEF OpType
  <2>2. op[p].text \in Texts
    BY <1>3, <1>t DEF Scan, At, Sound, HitSound
  <2>3. o.pc \in {"miss", "mget"} /\ (o.pc = "miss" => o.seen = {})
    BY <2>1
  <2>4. o.text \in Texts /\ o.before \subseteq purged /\ o.found \cap o.before = {}
    BY <1>b, <2>1, <2>2
  <2> HIDE DEF o
  <2>5. Sound(o, live, content, purged)
    BY <2>3, <2>4 DEF Sound, HitSound, StoreSound, MissSound, ClearSound
  <2>6. Quiet(p, o)
    BY <1>3, <2>3, <2>5 DEF Scan, Quiet, redisVars, o
  <2> QED BY <2>6, QuietKeeps
<1>4. ASSUME Mget(p) PROVE AnswerInv'
  <2>1. PICK b \in Batches(op[p].pending) :
          Become(p, [op[p] EXCEPT !.found = op[p].found \cup (b \cap live),
                                  !.pending = op[p].pending \ b,
                                  !.pc = IF op[p].pending \ b # {} THEN "mget"
                                         ELSE IF op[p].found \cup (b \cap live)
                                                   = op[p].seen THEN "rank"
                                         ELSE "reap"])
    BY <1>4 DEF Mget
  <2> DEFINE o == [op[p] EXCEPT !.found = op[p].found \cup (b \cap live),
                                !.pending = op[p].pending \ b,
                                !.pc = IF op[p].pending \ b # {} THEN "mget"
                                       ELSE IF op[p].found \cup (b \cap live)
                                                 = op[p].seen THEN "rank"
                                       ELSE "reap"]
  <2>2. /\ o.pc = (IF op[p].pending \ b # {} THEN "mget"
                   ELSE IF o.found = o.seen THEN "rank" ELSE "reap")
        /\ o.seen = op[p].seen /\ o.text = op[p].text /\ o.before = op[p].before
        /\ o.found = op[p].found \cup (b \cap live)
    BY <1>t DEF OpType
  <2>3. op[p].text \in Texts
    BY <1>4, <1>t DEF Mget, At, Sound, HitSound
  <2>4. o.found \cap o.before = {}
    BY <1>b, <2>2 DEF AnswerInv, PurgedIsGone
  <2>5. o.pc \in {"mget", "rank", "reap"} /\ (o.pc = "rank" => o.found = o.seen)
    BY <2>2
  <2>6. o.text = op[p].text /\ o.before = op[p].before
    BY <2>2
  <2> HIDE DEF o
  <2>7. Sound(o, live, content, purged)
    BY <1>b, <2>3, <2>4, <2>5, <2>6
       DEF Sound, HitSound, StoreSound, MissSound, ClearSound
  <2>8. Quiet(p, o)
    BY <1>4, <2>1, <2>5, <2>7 DEF Mget, Quiet, redisVars, o
  <2> QED BY <2>8, QuietKeeps
<1>5. ASSUME Reap(p) PROVE AnswerInv'
  <2> DEFINE o == [op[p] EXCEPT !.pc = "rank"]
  <2>1. /\ o.pc = "rank" /\ o.seen = op[p].seen /\ o.text = op[p].text
        /\ o.before = op[p].before /\ o.found = op[p].found
    BY <1>t DEF OpType
  <2>2. op[p].text \in Texts /\ (op[p].seen \ op[p].found) \cap live = {}
    BY <1>5, <1>t DEF Reap, At, Sound, HitSound, Evidence
  <2>3. Sound(o, live, content, purged)
    BY <1>b, <2>1, <2>2 DEF Sound, HitSound, StoreSound, MissSound, ClearSound
  <2>4. Quiet(p, o)
    BY <1>5, <2>1, <2>3 DEF Reap, Goto, Quiet
  <2> QED BY <2>4, QuietKeeps
<1> QED BY <1>1, <1>2, <1>3, <1>4, <1>5

\* The similarity of a text to an entry that has been drawn is a number.
LEMMA LikenessTyped ==
    ASSUME AnswerInv, NEW t \in Texts, NEW e \in Drawn
    PROVE  Likeness(t, e) \in Nat
BY CacheAssumption DEF AnswerInv, DrawnIsAbout, Likeness

\* What the ranking rejects is below the trusted band, and what it accepts is in
\* the band it is accepted for.
LEMMA RankAnswers ==
    ASSUME AnswerInv, IndexInv', NEW p \in Procs, Rank(p)
    PROVE  AnswerInv'
<1> USE CacheAssumption
<1>t. op[p] \in OpType /\ Sound(op[p], live, content, purged)
  BY AnswerTyped
<1>b. op[p].before \subseteq purged /\ op[p].found \cap op[p].before = {}
  BY <1>t DEF Sound, ClearSound
<1>r. op[p].text \in Texts /\ (op[p].seen \ op[p].found) \cap live = {}
  BY <1>t DEF Rank, At, Sound, HitSound, MissSound
<1>1. CASE op[p].found = {} /\ Goto(p, "miss")
  <2> DEFINE o == [op[p] EXCEPT !.pc = "miss"]
  <2>1. /\ o.pc = "miss" /\ o.seen = op[p].seen /\ o.found = op[p].found
        /\ o.before = op[p].before
    BY <1>t DEF OpType
  <2> HIDE DEF o
  <2>2. Sound(o, live, content, purged)
    BY <1>b, <1>r, <1>1, <2>1 DEF Sound, HitSound, StoreSound, MissSound, ClearSound
  <2>3. Quiet(p, o)
    BY <1>1, <2>1, <2>2 DEF Rank, Goto, Quiet, redisVars, o
  <2> QED BY <2>3, QuietKeeps
<1>2. ASSUME NEW e \in Best(op[p].text, op[p].found),
             Become(p, [op[p] EXCEPT !.entry = e,
                                     !.pc = Band(Likeness(op[p].text, e))])
      PROVE  AnswerInv'
  <2> DEFINE o == [op[p] EXCEPT !.entry = e, !.pc = Band(Likeness(op[p].text, e))]
  <2>1. /\ e \in op[p].found /\ e \in Entries
        /\ \A f \in op[p].found : Likeness(op[p].text, f) <= Likeness(op[p].text, e)
    BY <1>t DEF Best, OpType
  <2>2. op[p].found \subseteq Drawn
    BY <1>t DEF AnswerInv, IndexInv, NamedIsDrawn, Names, OpType
  <2>3. \A f \in op[p].found : Likeness(op[p].text, f) \in Nat
    BY <1>r, <2>2, LikenessTyped
  <2>4. /\ o.pc = Band(Likeness(op[p].text, e)) /\ o.entry = e /\ o.seen = op[p].seen
        /\ o.text = op[p].text /\ o.found = op[p].found /\ o.before = op[p].before
    BY <1>t DEF OpType
  <2>5. /\ o.pc \in {"hit", "verify", "miss"}
        /\ o.pc = "hit" => Likeness(op[p].text, e) >= Trust
        /\ o.pc = "verify" => Likeness(op[p].text, e) >= Floor
        /\ o.pc \in {"verify", "miss"} =>
              \A f \in op[p].found : Likeness(op[p].text, f) < Trust
    <3> DEFINE l == Likeness(op[p].text, e)
    <3>1. l \in Nat /\ Trust \in Nat /\ Floor \in Nat
      BY <2>1, <2>3
    <3>2. o.pc = Band(l)
      BY <2>4
    <3> HIDE DEF l, o
    <3>3. CASE l >= Trust
      BY <3>1, <3>2, <3>3 DEF Band, l
    <3>4. CASE l < Trust /\ l >= Floor
      <4>1. o.pc = "verify"
        BY <3>1, <3>2, <3>4 DEF Band
      <4> QED BY <2>1, <2>3, <3>1, <3>4, <4>1 DEF l
    <3>5. CASE l < Trust /\ l < Floor
      <4>1. o.pc = "miss"
        BY <3>1, <3>2, <3>5 DEF Band
      <4> QED BY <2>1, <2>3, <3>1, <3>5, <4>1 DEF l
    <3> QED BY <3>1, <3>3, <3>4, <3>5
  <2> HIDE DEF o
  <2>6. HitSound(o, content) /\ StoreSound(o, content)
    BY <1>r, <2>1, <2>4, <2>5 DEF HitSound, StoreSound, Relevant, Likeness
  <2>7. MissSound(o, live, content)
    <3>1. o.seen \cap live \subseteq op[p].found
      BY <1>r, <2>4
    <3> QED BY <2>4, <2>5, <3>1 DEF MissSound, Likeness
  <2>8. ClearSound(o, live, purged)
    BY <1>b, <2>1, <2>4, <2>5 DEF ClearSound
  <2>9. Quiet(p, o)
    BY <1>2, <2>5, <2>6, <2>7, <2>8 DEF Rank, Quiet, redisVars, Sound, o
  <2> QED BY <2>9, QuietKeeps
<1> QED BY <1>1, <1>2 DEF Rank

\* The verdict and the counting take along what the ranking found.
LEMMA CountAnswers ==
    ASSUME AnswerInv, IndexInv', NEW p \in Procs, Verify(p) \/ Hit(p) \/ Miss(p)
    PROVE  AnswerInv'
<1> USE CacheAssumption
<1>t. op[p] \in OpType /\ Sound(op[p], live, content, purged)
  BY AnswerTyped
<1>1. ASSUME Verify(p) PROVE AnswerInv'
  <2>1. PICK ok \in BOOLEAN :
          Become(p, [op[p] EXCEPT !.verified = ok, !.pc = IF ok THEN "hit" ELSE "miss"])
    BY <1>1 DEF Verify
  <2> DEFINE o == [op[p] EXCEPT !.verified = ok, !.pc = IF ok THEN "hit" ELSE "miss"]
  <2>2. /\ o.verified = ok /\ o.pc = (IF ok THEN "hit" ELSE "miss")
        /\ o.text = op[p].text /\ o.entry = op[p].entry /\ o.seen = op[p].seen
        /\ o.found = op[p].found /\ o.before = op[p].before
    BY <1>t DEF OpType
  <2>3. o.pc \in {"hit", "miss"} /\ (o.pc = "hit" => o.verified)
    BY <2>2
  <2>4. op[p].pc = "verify"
    BY <1>1 DEF Verify, At
  <2> HIDE DEF o
  <2>5. Sound(o, live, content, purged)
    BY <1>t, <2>2, <2>3, <2>4
       DEF Sound, HitSound, StoreSound, MissSound, ClearSound, Relevant
  <2>6. Quiet(p, o)
    BY <1>1, <2>1, <2>3, <2>5 DEF Verify, Quiet, redisVars, o
  <2> QED BY <2>6, QuietKeeps
<1>2. ASSUME Hit(p) PROVE AnswerInv'
  <2> DEFINE o == [op[p] EXCEPT !.pc = "served"]
  <2>1. /\ o.pc = "served" /\ o.text = op[p].text /\ o.entry = op[p].entry
        /\ o.verified = op[p].verified
        /\ o.found = op[p].found /\ o.before = op[p].before /\ op[p].pc = "hit"
    BY <1>2, <1>t DEF Hit, At, OpType
  <2> HIDE DEF o
  <2>2. Sound(o, live, content, purged)
    BY <1>t, <2>1 DEF Sound, HitSound, StoreSound, MissSound, ClearSound, Relevant
  <2>3. Quiet(p, o)
    BY <1>2, <2>1, <2>2 DEF Hit, Goto, Quiet, o
  <2> QED BY <2>3, QuietKeeps
<1>3. ASSUME Miss(p) PROVE AnswerInv'
  <2> DEFINE o == [op[p] EXCEPT !.pc = "missed"]
  <2>1. /\ o.pc = "missed" /\ o.text = op[p].text /\ o.seen = op[p].seen
        /\ o.found = op[p].found /\ o.before = op[p].before /\ op[p].pc = "miss"
    BY <1>3, <1>t DEF Miss, At, OpType
  <2> HIDE DEF o
  <2>2. Sound(o, live, content, purged)
    BY <1>t, <2>1 DEF Sound, HitSound, StoreSound, MissSound, ClearSound
  <2>3. Quiet(p, o)
    BY <1>3, <2>1, <2>2 DEF Miss, Goto, Quiet, o
  <2> QED BY <2>3, QuietKeeps
<1> QED BY <1>1, <1>2, <1>3

LEMMA LookupAnswers ==
    ASSUME AnswerInv, IndexInv', NEW p \in Procs, LookupStep(p)
    PROVE  AnswerInv'
<1>1. ASSUME NEW t \in Texts, NEW u \in Texts, NEW probe \in BOOLEAN,
             Lookup(p, t, u, probe)
      PROVE  AnswerInv'
  <2> DEFINE o == [Idle EXCEPT !.pc = "mapping", !.probing = probe, !.before = purged,
                               !.text = IF probe THEN t ELSE u, !.fallback = u]
  <2>1. o.pc = "mapping" /\ o.found = {} /\ o.before = purged
    BY DEF Idle
  <2> HIDE DEF o
  <2>2. Quiet(p, o)
    BY <1>1, <2>1, StartSound DEF Lookup, Start, Quiet, redisVars, o
  <2> QED BY <2>2, QuietKeeps
<1> QED
  BY <1>1, EntryAnswers, ReapAnswers, RankAnswers, CountAnswers DEF LookupStep

\* Drawing a uuid says what its entry is about, before anybody can name it.
LEMMA DrawAnswers ==
    ASSUME AnswerInv, IndexInv', NEW p \in Procs, NEW t \in Texts, NEW u \in Texts,
           Store(p, t, {u})
    PROVE  AnswerInv'
<1> USE CacheAssumption
<1>1. PICK e \in Entries :
        /\ content[e] = Undrawn
        /\ content' = [content EXCEPT ![e] = [about |-> t, keys |-> {t} \cup {u}]]
        /\ Become(p, [Idle EXCEPT !.pc = "set", !.entry = e,
                                  !.pending = {t} \cup {u}])
  BY DEF Store
<1> DEFINE o == [Idle EXCEPT !.pc = "set", !.entry = e, !.pending = {t} \cup {u}]
<1>2. /\ o.pc = "set" /\ o.entry = e /\ o.pending = {t} \cup {u}
      /\ o.found = {} /\ o.before = {}
  BY DEF Idle
<1>3. UNCHANGED <<live, exact, purged>>
  BY DEF Store, Start, redisVars
<1>4. /\ e \notin Drawn /\ Drawn' = Drawn \cup {e}
      /\ content'[e] = [about |-> t, keys |-> {t} \cup {u}]
      /\ \A d \in Drawn : content'[d] = content[d]
  <2>1. /\ e \in Entries /\ content \in [Entries -> [about : Texts \cup {NoText},
                                                   keys : SUBSET Texts]]
    BY AnswerTyped
  <2>2. /\ content'[e] = [about |-> t, keys |-> {t} \cup {u}]
        /\ \A d \in Entries \ {e} : content'[d] = content[d]
    BY <1>1, <2>1
  <2>3. e \notin Drawn
    BY <1>1 DEF Drawn
  <2>4. Drawn' = Drawn \cup {e}
    BY <2>2 DEF Drawn, Undrawn
  <2>5. \A d \in Drawn : d \in Entries \ {e}
    BY <2>3 DEF Drawn
  <2> QED BY <2>2, <2>3, <2>4, <2>5
<1> HIDE DEF o
<1>5. Sound(o, live', content', purged')
  BY <1>2, <1>3, <1>4 DEF Sound, HitSound, StoreSound, MissSound, ClearSound
<1>6. AllSound' /\ op'[p] = o /\ \A q \in Procs \ {p} : op'[q] = op[q]
  BY <1>1, <1>3, <1>4, <1>5, AllStaySound DEF o
<1>7. KeysMapTheirTexts'
  <2>1. \A s \in Texts : exact[s] # NoEntry => exact[s] \in Drawn
    BY DEF AnswerInv, IndexInv, NamedIsDrawn, Stored
  <2> QED BY <1>3, <1>4, <2>1 DEF AnswerInv, KeysMapTheirTexts
<1>8. DrawnIsAbout'
  BY <1>4 DEF AnswerInv, DrawnIsAbout
<1>9. PurgedIsGone'
  BY <1>2, <1>3, <1>4, <1>6 DEF AnswerInv, PurgedIsGone, At
<1> QED BY <1>6, <1>7, <1>8, <1>9 DEF AnswerInv

\* The entry written is one that no read has missed and no clear has listed.
LEMMA WriteAnswers ==
    ASSUME AnswerInv, IndexInv', NEW p \in Procs, SetEntry(p)
    PROVE  AnswerInv'
<1> USE CacheAssumption
<1> DEFINE e == op[p].entry
           o == [op[p] EXCEPT !.pc = "sadd"]
<1>1. /\ op[p].pc = "set" /\ op[p] \in OpType /\ Sound(op[p], live, content, purged)
      /\ e \notin purged
      /\ \A q \in Procs \ {p} : e \notin Names(op[q])
  BY AnswerTyped DEF SetEntry, At, AnswerInv, IndexInv, UnwrittenIsPrivate, PurgedIsGone
<1>2. /\ o.pc = "sadd" /\ o.entry = e /\ o.pending = op[p].pending
      /\ o.found = op[p].found /\ o.before = op[p].before
  BY <1>1 DEF OpType
<1>3. live' = live \cup {e} /\ UNCHANGED <<exact, content, purged>> /\ Become(p, o)
  BY DEF SetEntry, Goto
<1> HIDE DEF o
<1>4. Sound(o, live', content', purged')
  BY <1>1, <1>2, <1>3 DEF Sound, HitSound, StoreSound, MissSound, ClearSound
<1>5. AllSound' /\ op'[p] = o /\ \A q \in Procs \ {p} : op'[q] = op[q]
  BY <1>1, <1>3, <1>4, AllStaySound
<1>6. KeysMapTheirTexts' /\ DrawnIsAbout' /\ Drawn' = Drawn
  BY <1>3 DEF AnswerInv, KeysMapTheirTexts, DrawnIsAbout, Drawn
<1>7. PurgedIsGone'
  BY <1>1, <1>2, <1>3, <1>5, <1>6 DEF AnswerInv, PurgedIsGone, At
<1> QED BY <1>5, <1>6, <1>7 DEF AnswerInv

\* An exact key is written for a text the answer was stored under.
LEMMA MapAnswers ==
    ASSUME AnswerInv, IndexInv', NEW p \in Procs, AddToIndex(p) \/ SetExactKey(p)
    PROVE  AnswerInv'
<1> USE CacheAssumption
<1>t. op[p] \in OpType /\ Sound(op[p], live, content, purged)
  BY AnswerTyped
<1>1. ASSUME AddToIndex(p) PROVE AnswerInv'
  <2> DEFINE o == [op[p] EXCEPT !.pc = "keys"]
  <2>1. /\ o.pc = "keys" /\ o.entry = op[p].entry /\ o.pending = op[p].pending
        /\ o.found = op[p].found /\ o.before = op[p].before /\ op[p].pc = "sadd"
    BY <1>1, <1>t DEF AddToIndex, At, OpType
  <2> HIDE DEF o
  <2>2. Sound(o, live, content, purged)
    BY <1>t, <2>1 DEF Sound, HitSound, StoreSound, MissSound, ClearSound
  <2>3. Quiet(p, o)
    BY <1>1, <2>1, <2>2 DEF AddToIndex, Goto, Quiet, o
  <2> QED BY <2>3, QuietKeeps
<1>2. ASSUME SetExactKey(p) PROVE AnswerInv'
  <2>1. PICK k \in op[p].pending :
          /\ exact' = [exact EXCEPT ![k] = op[p].entry]
          /\ Become(p, IF op[p].pending = {k} THEN [Idle EXCEPT !.pc = "stored"]
                       ELSE [op[p] EXCEPT !.pending = @ \ {k}])
    BY <1>2 DEF SetExactKey
  <2> DEFINE more == [op[p] EXCEPT !.pending = @ \ {k}]
             o == IF op[p].pending = {k} THEN [Idle EXCEPT !.pc = "stored"] ELSE more
  <2>2. op[p].pc = "keys" /\ UNCHANGED <<live, content, purged>>
    BY <1>2 DEF SetExactKey, At
  <2>3. op[p].entry \in Entries /\ k \in content[op[p].entry].keys
    BY <1>t, <2>2 DEF Sound, StoreSound
  <2>4. /\ more.pc = "keys" /\ more.entry = op[p].entry /\ more.before = op[p].before
        /\ more.pending = op[p].pending \ {k} /\ more.found = op[p].found
    BY <1>t, <2>2 DEF OpType
  <2>5. Sound(more, live, content, purged)
    <3> HIDE DEF more
    <3> QED BY <1>t, <2>2, <2>4 DEF Sound, HitSound, StoreSound, MissSound, ClearSound
  <2>6. Sound(o, live', content', purged')
    BY <2>2, <2>5, IdleSound
  <2>7. o.pc # "set"
    BY <2>4 DEF Idle
  <2> HIDE DEF more, o
  <2>8. AllSound' /\ op'[p] = o /\ \A q \in Procs \ {p} : op'[q] = op[q]
    BY <2>1, <2>2, <2>6, AllStaySound DEF more, o
  <2>9. KeysMapTheirTexts'
    <3>1. \A t \in Texts : exact'[t] = IF t = k THEN op[p].entry ELSE exact[t]
      BY <2>1, AnswerTyped
    <3> QED BY <2>2, <2>3, <3>1 DEF AnswerInv, KeysMapTheirTexts
  <2>10. DrawnIsAbout' /\ Drawn' = Drawn
    BY <2>2 DEF AnswerInv, DrawnIsAbout, Drawn
  <2>11. PurgedIsGone'
    BY <2>2, <2>7, <2>8, <2>10 DEF AnswerInv, PurgedIsGone, At
  <2> QED BY <2>8, <2>9, <2>10, <2>11 DEF AnswerInv
<1> QED BY <1>1, <1>2

\* A clear deletes what it listed, and takes it on record when it returns.
LEMMA ClearAnswers ==
    ASSUME AnswerInv, IndexInv', NEW p \in Procs, ClearStep(p)
    PROVE  AnswerInv'
<1> USE CacheAssumption
<1>t. op[p] \in OpType /\ Sound(op[p], live, content, purged)
  BY AnswerTyped
<1>b. op[p].before \subseteq purged /\ op[p].found \cap op[p].before = {}
  BY <1>t DEF Sound, ClearSound
<1>1. ASSUME Clear(p) PROVE AnswerInv'
  <2> DEFINE o == [Idle EXCEPT !.pc = "list"]
  <2>1. o.pc = "list" /\ o.found = {} /\ o.before = {}
    BY DEF Idle
  <2> HIDE DEF o
  <2>2. Quiet(p, o)
    BY <1>1, <2>1, StartSound DEF Clear, Start, Quiet, redisVars, o
  <2> QED BY <2>2, QuietKeeps
<1>2. ASSUME ListKeys(p) PROVE AnswerInv'
  <2> DEFINE o == [op[p] EXCEPT !.pc = IF index = {} THEN "delIndex" ELSE "delEntries",
                                !.seen = index, !.pending = index]
  <2>1. /\ o.pc = (IF index = {} THEN "delIndex" ELSE "delEntries")
        /\ o.seen = index /\ o.pending = index
        /\ o.found = op[p].found /\ o.before = op[p].before
    BY <1>t DEF OpType
  <2>2. /\ o.pc \in {"delIndex", "delEntries"} /\ o.seen \ o.pending = {}
        /\ o.pc = "delIndex" => o.seen = {}
    BY <2>1
  <2> HIDE DEF o
  <2>3. Sound(o, live, content, purged)
    BY <1>b, <2>1, <2>2 DEF Sound, HitSound, StoreSound, MissSound, ClearSound
  <2>4. Quiet(p, o)
    BY <1>2, <2>2, <2>3 DEF ListKeys, Quiet, redisVars, o
  <2> QED BY <2>4, QuietKeeps
<1>3. ASSUME DeleteEntry(p) PROVE AnswerInv'
  <2>1. PICK e \in op[p].pending :
          /\ live' = live \ {e}
          /\ Become(p, [op[p] EXCEPT !.pending = @ \ {e},
                                     !.pc = IF op[p].pending = {e} THEN "delIndex" ELSE @])
    BY <1>3 DEF DeleteEntry
  <2> DEFINE o == [op[p] EXCEPT !.pending = @ \ {e},
                                !.pc = IF op[p].pending = {e} THEN "delIndex" ELSE @]
  <2>2. op[p].pc = "delEntries" /\ (op[p].seen \ op[p].pending) \cap live = {}
    BY <1>3, <1>t DEF DeleteEntry, At, Sound, ClearSound
  <2>3. /\ o.pc = (IF op[p].pending = {e} THEN "delIndex" ELSE "delEntries")
        /\ o.seen = op[p].seen /\ o.pending = op[p].pending \ {e}
        /\ o.found = op[p].found /\ o.before = op[p].before
    BY <1>t, <2>2 DEF OpType
  <2>4. /\ o.pc \in {"delIndex", "delEntries"} /\ (o.seen \ o.pending) \cap live' = {}
        /\ o.pc = "delIndex" => o.seen \cap live' = {}
    BY <2>1, <2>2, <2>3
  <2> HIDE DEF o
  <2>5. Sound(o, live', content, purged)
    BY <1>b, <2>3, <2>4 DEF Sound, HitSound, StoreSound, MissSound, ClearSound
  <2>6. Quiet(p, o)
    BY <1>3, <2>1, <2>4, <2>5 DEF DeleteEntry, Quiet, o
  <2> QED BY <2>6, QuietKeeps
<1>4. ASSUME DeleteIndex(p) \/ DeleteHits(p) PROVE AnswerInv'
  <2>1. PICK pc \in {"delHits", "delMisses"} : Goto(p, pc)
    BY <1>4 DEF DeleteIndex, DeleteHits
  <2> DEFINE o == [op[p] EXCEPT !.pc = pc]
  <2>2. /\ o.pc = pc /\ o.seen = op[p].seen /\ o.found = op[p].found
        /\ o.before = op[p].before /\ op[p].pc \in {"delIndex", "delHits"}
    BY <1>4, <1>t DEF DeleteIndex, DeleteHits, At, OpType
  <2> HIDE DEF o
  <2>3. Sound(o, live, content, purged)
    BY <1>t, <2>2 DEF Sound, HitSound, StoreSound, MissSound, ClearSound
  <2>4. Quiet(p, o)
    BY <1>4, <2>1, <2>2, <2>3 DEF DeleteIndex, DeleteHits, Goto, Quiet, o
  <2> QED BY <2>4, QuietKeeps
<1>5. ASSUME DeleteMisses(p) PROVE AnswerInv'
  <2> DEFINE o == [Idle EXCEPT !.pc = "cleared"]
  <2>1. /\ op[p].pc = "delMisses" /\ UNCHANGED <<live, exact, content>>
        /\ purged' = purged \cup op[p].seen /\ Become(p, o) /\ o.pc # "set"
    BY <1>5 DEF DeleteMisses, At, Idle
  <2> HIDE DEF o
  <2>2. AllSound' /\ op'[p] = o /\ \A q \in Procs \ {p} : op'[q] = op[q]
    BY <2>1, IdleSound, AllStaySound DEF o
  <2>3. KeysMapTheirTexts' /\ DrawnIsAbout' /\ Drawn' = Drawn
    BY <2>1 DEF AnswerInv, KeysMapTheirTexts, DrawnIsAbout, Drawn
  <2>4. op[p].seen \cap live = {} /\ op[p].seen \subseteq Drawn
    BY <1>t, <2>1
       DEF Sound, ClearSound, AnswerInv, IndexInv, NamedIsDrawn, Names, OpType
  <2>5. ASSUME NEW q \in Procs, At(q, "set") PROVE op[q].entry \notin op[p].seen
    BY <2>1, <2>5 DEF At, AnswerInv, IndexInv, UnwrittenIsPrivate, Names
  <2>6. PurgedIsGone'
    BY <2>1, <2>2, <2>3, <2>4, <2>5 DEF AnswerInv, PurgedIsGone, At
  <2> QED BY <2>2, <2>3, <2>6 DEF AnswerInv
<1> QED BY <1>1, <1>2, <1>3, <1>4, <1>5 DEF ClearStep

LEMMA AnswerInvStep ==
    AnswerInv /\ [Next]_vars => AnswerInv'
<1> SUFFICES ASSUME AnswerInv, [Next]_vars
             PROVE  AnswerInv'
  OBVIOUS
<1>0. IndexInv'
  BY IndexInvStep DEF AnswerInv
<1>1. ASSUME NEW p \in Procs, LookupStep(p) \/ ClearStep(p)
      PROVE  AnswerInv'
  BY <1>0, <1>1, LookupAnswers, ClearAnswers
<1>2. ASSUME NEW p \in Procs, StoreStep(p)
      PROVE  AnswerInv'
  BY <1>0, <1>2, DrawAnswers, WriteAnswers, MapAnswers DEF StoreStep
<1>3. ASSUME NEW p \in Procs, Abort(p)
      PROVE  AnswerInv'
  <2>1. Idle.pc # "set"
    BY DEF Idle
  <2>2. Sound(Idle, live, content, purged)
    BY IdleSound
  <2>3. Quiet(p, Idle)
    BY <1>3, <2>1, <2>2 DEF Abort, Quiet, redisVars
  <2> QED BY <1>0, <2>3, QuietKeeps
<1>4. ASSUME NEW e \in Entries, ExpireEntry(e)
      PROVE  AnswerInv'
  BY <1>0, <1>4, ExpiryAnswers DEF ExpireEntry
<1>5. ASSUME NEW t \in Texts, ExpireKey(t)
      PROVE  AnswerInv'
  BY <1>0, <1>5, ExpiryAnswers, AnswerTyped DEF ExpireKey
<1>6. CASE UNCHANGED vars
  BY <1>0, <1>6, ExpiryAnswers DEF vars, redisVars
<1> QED
  BY <1>1, <1>2, <1>3, <1>4, <1>5, <1>6 DEF Next

LEMMA AnswerInvHolds == Spec => []AnswerInv
<1>1. Init /\ IndexInv => AnswerInv
  <2> SUFFICES ASSUME Init, IndexInv
               PROVE  AnswerInv
    OBVIOUS
  <2>1. Idle.pc # "set"
    BY DEF Idle
  <2>2. AllSound
    BY IdleSound DEF Init, AllSound
  <2> QED
    BY <2>1, <2>2
       DEF Init, AnswerInv, KeysMapTheirTexts, DrawnIsAbout, Drawn, PurgedIsGone, At
<1> QED
  BY <1>1, IndexInvHolds, AnswerInvStep, PTL DEF Spec

\* Whatever is served was stored under the text asked, or is as similar as its
\* band requires (cache.py:150-220), for any operations in between.
THEOREM ServedAnswersAreRelevant == Spec => []ServedIsRelevant
<1>1. AnswerInv => ServedIsRelevant
  BY DEF AnswerInv, AllSound, Sound, HitSound, Relevant, ServedIsRelevant, At, Likeness
<1> QED
  BY <1>1, AnswerInvHolds, PTL

\* A clear that has returned is final for the entries it listed (routes.py,
\* DELETE /api/cache).
THEOREM ClearingIsFinal == Spec => []ClearedIsNeverServed
<1>1. AnswerInv => ClearedIsNeverServed
  BY DEF AnswerInv, AllSound, Sound, ClearSound, ClearedIsNeverServed, At
<1> QED
  BY <1>1, AnswerInvHolds, PTL

\* A miss overlooks no listed entry that still exists and is close enough to be
\* accepted without the verifier.
THEOREM MissesAreJustified == Spec => []MissIsJustified
<1>1. AnswerInv => MissIsJustified
  BY DEF AnswerInv, AllSound, Sound, MissSound, MissIsJustified, At, Likeness
<1> QED
  BY <1>1, AnswerInvHolds, PTL

\* No request is counted twice, by the probe and by the pipeline, and a clear
\* only takes counts away.
THEOREM CountsAreHonest == Spec => []RequestsCountedOnce
<1>1. Init => RequestsCountedOnce
  BY DEF Init, RequestsCountedOnce
<1>2. IndexInv /\ RequestsCountedOnce /\ [Next]_vars => RequestsCountedOnce'
  <2> SUFFICES ASSUME IndexInv, RequestsCountedOnce, [Next]_vars
               PROVE  RequestsCountedOnce'
    OBVIOUS
  <2>1. hits \in Nat /\ misses \in Nat /\ answered \in Nat
    BY DEF IndexInv, TypeOK
  <2>2. ASSUME NEW p \in Procs, Hit(p) \/ Miss(p) \/ DeleteHits(p) \/ DeleteMisses(p)
        PROVE  RequestsCountedOnce'
    BY <2>1, <2>2 DEF Hit, Miss, DeleteHits, DeleteMisses, RequestsCountedOnce
  <2>3. CASE UNCHANGED <<hits, misses, answered>>
    BY <2>3 DEF RequestsCountedOnce
  <2>4. ASSUME NEW p \in Procs, LookupStep(p) \/ StoreStep(p) \/ ClearStep(p) \/ Abort(p)
        PROVE  \/ Hit(p) \/ Miss(p) \/ DeleteHits(p) \/ DeleteMisses(p)
               \/ UNCHANGED <<hits, misses, answered>>
    BY <2>4
       DEF LookupStep, StoreStep, ClearStep, Lookup, Store, Clear, Start, GetMapping,
           GetEntry, RemoveStale, DeleteMapping, Scan, Mget, Reap, Rank, Verify, SetEntry,
           AddToIndex, SetExactKey, ListKeys, DeleteEntry, DeleteIndex, Abort, redisVars
  <2>5. CASE UNCHANGED vars
    BY <2>3, <2>5 DEF vars, redisVars
  <2> QED
    BY <2>2, <2>3, <2>4, <2>5 DEF Next, ExpireEntry, ExpireKey
<1> QED
  BY <1>1, <1>2, IndexInvHolds, PTL DEF Spec
=============================================================================
