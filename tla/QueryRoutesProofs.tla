--------------------------- MODULE QueryRoutesProofs ---------------------------
(* For any number of requests, sessions and texts: the shared cache never   *)
(* holds an answer written with a conversation, and the metrics agree with   *)
(* what each client was sent.  A request carries what it will store through *)
(* several nodes, so the first invariant follows the message, the question   *)
(* and the answer from node to node; the second, the end of each stream.     *)
(* On the second rest the two results at the end: the events of a stream     *)
(* come in their order, and an answer of the pipeline is in its conversation *)
(* before anybody can react to it.                                           *)
EXTENDS QueryRoutes, TLAPS

Open == PipelineNodes \cup {"load", "exact", "emit", "append"}

Rewritten == PipelineNodes \ {"classify"}

\* An admitted request has a message, and after the classifier a question, which
\* is the message when there is no conversation.
Asks(s) ==
    /\ s.pc \in Open => s.text \in Texts /\ s.meaning \in Texts
    /\ s.pc \in Rewritten =>
          s.standalone \in Texts /\ (~ s.contextual => s.standalone = s.text)

\* What reaches the store and is not a cached answer was written for the message.
Writes(s) ==
    (s.pc = "cache_store" /\ ~ s.hit /\ ~ s.contextual /\ s.answer.kind = "synthesized") =>
        s.answer.about = s.text /\ ~ s.answer.framed

RouteInv ==
    /\ TypeOK
    /\ \A r \in Requests : Asks(req[r]) /\ Writes(req[r])
    /\ CacheIsContextFree

Events == {"source", "token", "done", "error"}

Records == [error : BOOLEAN, hit : BOOLEAN]

-----------------------------------------------------------------------------
(* What the steps are made of.                                             *)

LEMMA Typed ==
    ASSUME TypeOK, NEW r \in Requests
    PROVE  /\ req[r] \in RequestType
           /\ req[r].answer \in Answers
           /\ Unsent \in RequestType /\ Closed(r) \in RequestType
           /\ NoAnswer \in Answers
<1>1. req[r] \in RequestType
  BY DEF TypeOK
<1>2. NoAnswer \in Answers
  BY DEF NoAnswer, Answers, Kinds
<1>3. Unsent \in RequestType
  BY <1>2 DEF Unsent, RequestType, PcValues
<1>4. Closed(r) \in RequestType
  BY <1>1, <1>3 DEF Closed, RequestType, PcValues
<1> QED
  BY <1>1, <1>2, <1>3, <1>4 DEF RequestType

\* Events are sent after those sent before.
LEMMA StreamTyped ==
    ASSUME TypeOK, NEW r \in Requests, NEW es \in Seq(Events),
           stream' = [stream EXCEPT ![r] = @ \o es]
    PROVE  stream' \in [Requests -> Seq(Events)]
<1>1. stream \in [Requests -> Seq(Events)]
  BY DEF TypeOK, Events
<1>2. stream[r] \o es \in Seq(Events)
  BY <1>1
<1> QED
  BY <1>1, <1>2

LEMMA SendTyped ==
    ASSUME TypeOK, NEW r \in Requests, NEW es \in Seq(Events), Send(r, es) \/ Yield(r, es)
    PROVE  stream' \in [Requests -> Seq(Events)]
<1>1. CASE Send(r, es)
  BY <1>1, StreamTyped DEF Send
<1>2. CASE Yield(r, es)
  <2>1. (IF req[r].route = "stream" THEN es ELSE <<>>) \in Seq(Events)
    OBVIOUS
  <2> QED
    BY <1>2, <2>1, StreamTyped DEF Yield
<1> QED
  BY <1>1, <1>2

LEMMA RecordTyped ==
    ASSUME TypeOK, NEW r \in Requests, NEW e \in BOOLEAN, NEW h \in BOOLEAN, Record(r, e, h)
    PROVE  recorded' \in [Requests -> Seq(Records)]
<1>1. recorded \in [Requests -> Seq(Records)]
  BY DEF TypeOK, Records
<1>2. [error |-> e, hit |-> h] \in Records
  BY DEF Records
<1>3. Append(recorded[r], [error |-> e, hit |-> h]) \in Seq(Records)
  BY <1>1, <1>2
<1> QED
  BY <1>1, <1>3 DEF Record

LEMMA RememberTyped ==
    ASSUME TypeOK, NEW r \in Requests, Remember(r)
    PROVE  memory' \in [Sessions -> SUBSET Requests]
  BY DEF TypeOK, Remember

BucketFits == bucket \in SUBSET Requests

CacheFits == cache \in SUBSET [key : Texts, answer : Answers] /\ CacheIsContextFree

\* The request r becomes s, and what it shares keeps its type.
Moves(r, s) ==
    /\ Become(r, s)
    /\ s \in RequestType /\ Asks(s) /\ Writes(s)
    /\ CacheFits'
    /\ memory' \in [Sessions -> SUBSET Requests]
    /\ BucketFits'
    /\ stream' \in [Requests -> Seq(Events)]
    /\ recorded' \in [Requests -> Seq(Records)]
    /\ lapsed' \in SUBSET Requests

LEMMA MovesKeeps ==
    ASSUME RouteInv, NEW r \in Requests, NEW s, Moves(r, s)
    PROVE  RouteInv'
<1>1. req' = [req EXCEPT ![r] = s]
  BY DEF Moves, Become
<1>2. req'[r] = s /\ \A q \in Requests \ {r} : req'[q] = req[q]
  BY <1>1 DEF RouteInv, TypeOK
<1>3. TypeOK'
  BY <1>1 DEF Moves, BucketFits, CacheFits, RouteInv, TypeOK, Events, Records
<1>4. \A q \in Requests : Asks(req'[q]) /\ Writes(req'[q])
  BY <1>2 DEF Moves, RouteInv
<1>5. CacheIsContextFree'
  BY DEF Moves, CacheFits, RouteInv, CacheIsContextFree
<1> QED
  BY <1>3, <1>4, <1>5 DEF RouteInv

\* What a step that touches only req leaves as it is.
LEMMA Untouched ==
    ASSUME RouteInv
    PROVE  /\ memory \in [Sessions -> SUBSET Requests]
           /\ stream \in [Requests -> Seq(Events)]
           /\ recorded \in [Requests -> Seq(Records)]
           /\ lapsed \in SUBSET Requests
           /\ BucketFits /\ (bucket' = bucket => BucketFits')
           /\ CacheFits /\ (cache' \subseteq cache => CacheFits')
  BY DEF RouteInv, TypeOK, Events, Records, BucketFits, CacheFits, CacheIsContextFree

-----------------------------------------------------------------------------
(* The nodes of the pipeline.                                              *)

LEMMA ClassifyKeeps ==
    ASSUME RouteInv, NEW r \in Requests, Classify(r), UNCHANGED <<recorded, lapsed>>
    PROVE  RouteInv'
<1>t. req[r] \in RequestType /\ Asks(req[r])
  BY Typed DEF RouteInv
<1>0. req[r].pc = "classify" /\ req[r].text \in Texts /\ req[r].meaning \in Texts
  BY <1>t DEF Classify, At, Asks, Open, PipelineNodes
<1>1. PICK q \in {req[r].meaning, req[r].text}, c \in BOOLEAN :
          /\ ~ req[r].contextual => q = req[r].text
          /\ Become(r, [req[r] EXCEPT !.pc = "embed", !.classified = c,
                                      !.standalone = q])
  <2>1. CASE Become(r, [req[r] EXCEPT !.pc = "embed", !.classified = TRUE,
                           !.standalone = IF req[r].contextual THEN req[r].meaning
                                          ELSE req[r].text])
    BY <2>1
  <2>2. CASE Become(r, [req[r] EXCEPT !.pc = "embed", !.standalone = req[r].text])
    <3>1. req[r].classified \in BOOLEAN
      BY <1>t DEF RequestType
    <3>2. [req[r] EXCEPT !.pc = "embed", !.standalone = req[r].text]
          = [req[r] EXCEPT !.pc = "embed", !.classified = req[r].classified,
                           !.standalone = req[r].text]
      BY <1>t DEF RequestType
    <3> QED
      BY <2>2, <3>1, <3>2
  <2> QED
    BY <2>1, <2>2 DEF Classify
<1> DEFINE s == [req[r] EXCEPT !.pc = "embed", !.classified = c, !.standalone = q]
<1>2. /\ s \in RequestType
      /\ s.pc = "embed" /\ s.standalone = q /\ s.text = req[r].text
      /\ s.meaning = req[r].meaning /\ s.contextual = req[r].contextual
  BY <1>t, <1>0 DEF RequestType, PcValues, PipelineNodes
<1>3. Asks(s) /\ Writes(s)
  BY <1>0, <1>1, <1>2 DEF Asks, Writes
<1>4. Moves(r, s)
  BY <1>1, <1>2, <1>3, Untouched DEF Classify, Moves
<1> QED
  BY <1>4, MovesKeeps

\* A step from the rewriting on, which leaves the message and the question alone.
LEMMA NodeMoveKeeps ==
    ASSUME RouteInv, NEW r \in Requests, NEW l, NEW h \in BOOLEAN, NEW v \in BOOLEAN,
           NEW a \in Answers,
           req[r].pc \in Rewritten,
           l \in Rewritten \cup {"answered", "raised"},
           (l = "cache_store" /\ ~ h /\ ~ req[r].contextual /\ a.kind = "synthesized") =>
               a.about = req[r].text /\ ~ a.framed,
           Become(r, [req[r] EXCEPT !.pc = l, !.hit = h, !.live = v, !.answer = a]),
           CacheFits',
           memory' \in [Sessions -> SUBSET Requests],
           BucketFits',
           stream' \in [Requests -> Seq(Events)],
           UNCHANGED recorded,
           lapsed' \in SUBSET Requests
    PROVE  RouteInv'
<1> DEFINE s == [req[r] EXCEPT !.pc = l, !.hit = h, !.live = v, !.answer = a]
<1>1. req[r] \in RequestType /\ Asks(req[r])
  BY Typed DEF RouteInv
<1>2. /\ s.pc = l /\ s.hit = h /\ s.answer = a
      /\ s.text = req[r].text /\ s.meaning = req[r].meaning
      /\ s.standalone = req[r].standalone /\ s.contextual = req[r].contextual
  BY <1>1 DEF RequestType
<1>3. s \in RequestType
  BY <1>1 DEF RequestType, PcValues, Rewritten
<1>4. Asks(s)
  BY <1>1, <1>2 DEF Asks, Open, Rewritten, PipelineNodes
<1>5. Writes(s)
  BY <1>2 DEF Writes
<1>6. Moves(r, s)
  BY <1>3, <1>4, <1>5, Untouched DEF Moves
<1> QED
  BY <1>6, MovesKeeps

\* The same when only the program counter moves, and not into the store.
LEMMA GotoKeeps ==
    ASSUME RouteInv, NEW r \in Requests, NEW l, Goto(r, l),
           req[r].pc \in Rewritten,
           l \in (Rewritten \cup {"answered", "raised"}) \ {"cache_store"},
           CacheFits',
           memory' \in [Sessions -> SUBSET Requests],
           BucketFits',
           stream' \in [Requests -> Seq(Events)],
           UNCHANGED recorded,
           lapsed' \in SUBSET Requests
    PROVE  RouteInv'
<1>1. req[r] \in RequestType /\ req[r].answer \in Answers
  BY Typed DEF RouteInv
<1>2. req[r].hit \in BOOLEAN /\ req[r].live \in BOOLEAN
  BY <1>1 DEF RequestType
<1>3. [req[r] EXCEPT !.pc = l]
      = [req[r] EXCEPT !.pc = l, !.hit = req[r].hit, !.live = req[r].live,
                       !.answer = req[r].answer]
  BY <1>1 DEF RequestType
<1>4. Become(r, [req[r] EXCEPT !.pc = l, !.hit = req[r].hit, !.live = req[r].live,
                               !.answer = req[r].answer])
  BY <1>3 DEF Goto
<1> QED
  BY <1>1, <1>2, <1>4, NodeMoveKeeps

\* What a lookup finds is in the cache.
LEMMA FoundIsTyped ==
    ASSUME RouteInv, NEW t, NEW a \in Found(t)
    PROVE  a \in Answers
  BY DEF Found, RouteInv, TypeOK

LEMMA CacheCheckKeeps ==
    ASSUME RouteInv, NEW r \in Requests, CacheCheck(r), UNCHANGED <<recorded, lapsed>>
    PROVE  RouteInv'
<1>0. req[r].pc \in Rewritten
  BY DEF CacheCheck, At, Rewritten, PipelineNodes
<1>t. req[r] \in RequestType /\ req[r].live \in BOOLEAN
  BY Typed DEF RouteInv, RequestType
<1>1. CASE Goto(r, "rate_limit")
  BY <1>0, <1>1, GotoKeeps, Untouched DEF CacheCheck, Rewritten, PipelineNodes
<1>2. CASE \E a \in Found(req[r].standalone) :
              Become(r, [req[r] EXCEPT !.pc = "cache_store", !.hit = TRUE, !.answer = a])
  <2>1. PICK a \in Found(req[r].standalone) :
              Become(r, [req[r] EXCEPT !.pc = "cache_store", !.hit = TRUE, !.answer = a])
    BY <1>2
  <2>2. a \in Answers
    BY FoundIsTyped
  <2>3. [req[r] EXCEPT !.pc = "cache_store", !.hit = TRUE, !.answer = a]
        = [req[r] EXCEPT !.pc = "cache_store", !.hit = TRUE, !.live = req[r].live,
                         !.answer = a]
    BY <1>t DEF RequestType
  <2>4. Become(r, [req[r] EXCEPT !.pc = "cache_store", !.hit = TRUE,
                                 !.live = req[r].live, !.answer = a])
    BY <2>1, <2>3
  <2> QED
    BY <1>0, <1>t, <2>2, <2>4, NodeMoveKeeps, Untouched
       DEF CacheCheck, Rewritten, PipelineNodes
<1> QED
  BY <1>1, <1>2 DEF CacheCheck

LEMMA RateLimitKeeps ==
    ASSUME RouteInv, NEW r \in Requests, RateLimit(r), UNCHANGED <<recorded, lapsed>>
    PROVE  RouteInv'
<1>0. req[r].pc \in Rewritten
  BY DEF RateLimit, At, Rewritten, PipelineNodes
<1>t. req[r] \in RequestType /\ req[r].live \in BOOLEAN /\ req[r].hit \in BOOLEAN
  BY Typed DEF RouteInv, RequestType
<1>w. Workers(r) \cup {"rate_add"} \subseteq Rewritten \ {"cache_store"}
  BY DEF Workers, Rewritten, PipelineNodes
<1>1. ASSUME NEW l \in Workers(r) \cup {"rate_add"}, Goto(r, l)
      PROVE  RouteInv'
  BY <1>0, <1>w, <1>1, GotoKeeps, Untouched DEF RateLimit
<1>2. CASE Become(r, [req[r] EXCEPT !.pc = "cache_store",
                          !.answer = [NoAnswer EXCEPT !.kind = "limited"]])
  <2> DEFINE a == [NoAnswer EXCEPT !.kind = "limited"]
  <2>1. a \in Answers /\ a.kind = "limited"
    BY DEF NoAnswer, Answers, Kinds
  <2>2. [req[r] EXCEPT !.pc = "cache_store", !.answer = a]
        = [req[r] EXCEPT !.pc = "cache_store", !.hit = req[r].hit,
                         !.live = req[r].live, !.answer = a]
    BY <1>t DEF RequestType
  <2> HIDE DEF a
  <2>3. Become(r, [req[r] EXCEPT !.pc = "cache_store", !.hit = req[r].hit,
                                 !.live = req[r].live, !.answer = a])
    BY <1>2, <2>2 DEF a
  <2> QED
    BY <1>0, <1>t, <2>1, <2>3, NodeMoveKeeps, Untouched
       DEF RateLimit, Rewritten, PipelineNodes
<1> QED
  BY <1>1, <1>2 DEF RateLimit

LEMMA RateAddKeeps ==
    ASSUME RouteInv, NEW r \in Requests, RateAdd(r), UNCHANGED <<recorded, lapsed>>
    PROVE  RouteInv'
<1>1. req[r].pc \in Rewritten
  BY DEF RateAdd, At, Rewritten, PipelineNodes
<1>2. Workers(r) \subseteq Rewritten \ {"cache_store"}
  BY DEF Workers, Rewritten, PipelineNodes
<1>3. BucketFits'
  BY Untouched DEF RateAdd, BucketFits
<1>4. PICK l \in Workers(r) : Goto(r, l)
  BY DEF RateAdd
<1> QED
  BY <1>1, <1>2, <1>3, <1>4, GotoKeeps, Untouched DEF RateAdd

LEMMA WorkKeeps ==
    ASSUME RouteInv, NEW r \in Requests, Work(r), UNCHANGED <<recorded, lapsed>>
    PROVE  RouteInv'
<1>1. req[r].pc \in Rewritten
  BY DEF Work, Rewritten, PipelineNodes
<1>2. <<"source">> \in Seq(Events)
  BY DEF Events
<1>3. stream' \in [Requests -> Seq(Events)]
  BY <1>2, SendTyped, Untouched DEF Work, RouteInv
<1> QED
  BY <1>1, <1>3, GotoKeeps, Untouched DEF Work, Rewritten, PipelineNodes

LEMMA SynthesizeKeeps ==
    ASSUME RouteInv, NEW r \in Requests, SynthesizeToken(r) \/ Synthesize(r),
           UNCHANGED <<recorded, lapsed>>
    PROVE  RouteInv'
<1>0. req[r].pc = "synthesize" /\ req[r].pc \in Rewritten
  BY DEF SynthesizeToken, Synthesize, At, Rewritten, PipelineNodes
<1>t. /\ req[r] \in RequestType /\ req[r].answer \in Answers /\ Asks(req[r])
      /\ req[r].hit \in BOOLEAN /\ req[r].live \in BOOLEAN
      /\ req[r].contextual \in BOOLEAN
  BY Typed DEF RouteInv, RequestType
<1>s. req[r].text \in Texts /\ req[r].meaning \in Texts
  BY <1>0, <1>t DEF Asks, Open, PipelineNodes
<1>e. <<"token">> \in Seq(Events) /\ <<>> \in Seq(Events)
  BY DEF Events
<1>1. CASE SynthesizeToken(r)
  <2>1. [req[r] EXCEPT !.live = TRUE]
        = [req[r] EXCEPT !.pc = "synthesize", !.hit = req[r].hit, !.live = TRUE,
                         !.answer = req[r].answer]
    BY <1>0, <1>t DEF RequestType
  <2>2. Become(r, [req[r] EXCEPT !.pc = "synthesize", !.hit = req[r].hit, !.live = TRUE,
                         !.answer = req[r].answer])
    BY <1>1, <2>1 DEF SynthesizeToken
  <2>3. stream' \in [Requests -> Seq(Events)]
    BY <1>1, <1>e, SendTyped DEF SynthesizeToken, RouteInv
  <2> QED
    BY <1>0, <1>1, <1>t, <2>2, <2>3, NodeMoveKeeps, Untouched DEF SynthesizeToken
<1>2. CASE Become(r, [req[r] EXCEPT !.pc = "cache_store",
                           !.answer = [NoAnswer EXCEPT !.kind = "failed"]])
           /\ UNCHANGED <<stream, cache, memory, bucket>>
  <2> DEFINE a == [NoAnswer EXCEPT !.kind = "failed"]
  <2>1. a \in Answers /\ a.kind = "failed"
    BY DEF NoAnswer, Answers, Kinds
  <2>2. [req[r] EXCEPT !.pc = "cache_store", !.answer = a]
        = [req[r] EXCEPT !.pc = "cache_store", !.hit = req[r].hit,
                         !.live = req[r].live, !.answer = a]
    BY <1>t DEF RequestType
  <2> HIDE DEF a
  <2>3. Become(r, [req[r] EXCEPT !.pc = "cache_store", !.hit = req[r].hit,
                                 !.live = req[r].live, !.answer = a])
    BY <1>2, <2>2 DEF a
  <2> QED
    BY <1>0, <1>2, <1>t, <2>1, <2>3, NodeMoveKeeps, Untouched
       DEF Rewritten, PipelineNodes
<1> DEFINE about == IF req[r].contextual THEN req[r].meaning ELSE req[r].text
           a == [kind |-> "synthesized", about |-> about, framed |-> req[r].contextual]
           v == (req[r].route = "stream")
<1>3. CASE /\ Become(r, [req[r] EXCEPT !.pc = "cache_store", !.live = v, !.answer = a])
           /\ Yield(r, IF req[r].live THEN <<>> ELSE <<"token">>)
           /\ UNCHANGED <<cache, memory, bucket>>
  <2>1. /\ a \in Answers
        /\ ~ req[r].contextual => a.about = req[r].text /\ ~ a.framed
    BY <1>s, <1>t DEF Answers, Kinds
  <2>2. [req[r] EXCEPT !.pc = "cache_store", !.live = v, !.answer = a]
        = [req[r] EXCEPT !.pc = "cache_store", !.hit = req[r].hit, !.live = v,
                         !.answer = a]
    BY <1>t DEF RequestType
  <2>3. stream' \in [Requests -> Seq(Events)]
    <3>1. (IF req[r].live THEN <<>> ELSE <<"token">>) \in Seq(Events)
      BY <1>e
    <3> QED
      BY <1>3, <3>1, SendTyped DEF RouteInv
  <2>5. v \in BOOLEAN
    OBVIOUS
  <2> HIDE DEF a, v
  <2>4. Become(r, [req[r] EXCEPT !.pc = "cache_store", !.hit = req[r].hit, !.live = v,
                         !.answer = a])
    BY <1>3, <2>2
  <2> QED
    BY <1>0, <1>3, <1>t, <2>1, <2>3, <2>4, <2>5, NodeMoveKeeps, Untouched
       DEF Rewritten, PipelineNodes
<1> QED
  BY <1>1, <1>2, <1>3 DEF Synthesize

\* The one node that adds to the cache: what it adds was written for the message,
\* and is found by the message or by the question, which is the message too.
LEMMA CacheStoreKeeps ==
    ASSUME RouteInv, NEW r \in Requests, CacheStore(r), UNCHANGED <<recorded, lapsed>>
    PROVE  RouteInv'
<1>0. /\ req[r].pc = "cache_store"
      /\ Goto(r, "append_memory") /\ UNCHANGED <<memory, bucket, stream>>
  BY DEF CacheStore, At
<1>t. /\ Asks(req[r]) /\ Writes(req[r]) /\ req[r].answer \in Answers
      /\ req[r].text \in Texts /\ req[r].standalone \in Texts
      /\ ~ req[r].contextual => req[r].standalone = req[r].text
  BY <1>0, Typed DEF RouteInv, Asks, Open, Rewritten, PipelineNodes
<1>1. PICK ks \in SUBSET (IF req[r].hit \/ req[r].contextual THEN {}
                          ELSE {req[r].standalone, req[r].text}) :
          cache' = cache \cup [key : ks, answer : {req[r].answer}]
  BY DEF CacheStore
<1>2. \A c \in cache' \ cache :
          /\ ~ req[r].hit /\ ~ req[r].contextual
          /\ c.key = req[r].text /\ c.answer = req[r].answer
          /\ c \in [key : Texts, answer : Answers]
  BY <1>t, <1>1
<1>3. CacheFits'
  <2>1. cache' \in SUBSET [key : Texts, answer : Answers]
    BY <1>2, Untouched DEF CacheFits
  <2>2. ASSUME NEW c \in cache', c.answer.kind = "synthesized"
        PROVE  c.answer.about = c.key /\ ~ c.answer.framed
    <3>1. CASE c \in cache
      BY <2>2, <3>1 DEF RouteInv, CacheIsContextFree
    <3>2. CASE c \notin cache
      BY <1>0, <1>2, <1>t, <2>2, <3>2 DEF Writes
    <3> QED
      BY <3>1, <3>2
  <2> QED
    BY <2>1, <2>2 DEF CacheFits, CacheIsContextFree
<1> QED
  BY <1>0, <1>3, GotoKeeps, Untouched DEF Rewritten, PipelineNodes

LEMMA PipelineKeeps ==
    ASSUME RouteInv, NEW r \in Requests, Pipeline(r)
    PROVE  RouteInv'
<1>0. UNCHANGED recorded /\ lapsed' \in SUBSET Requests
  BY Untouched DEF Pipeline
<1>u. ~ At(r, "append_memory") => UNCHANGED lapsed
  BY DEF Pipeline
<1>1. CASE Classify(r)
  BY <1>0, <1>1, <1>u, ClassifyKeeps DEF Classify, At
<1>2. CASE Embed(r)
  <2>1. PICK l \in {"cache_check", "raised"} : Goto(r, l)
    BY <1>2 DEF Embed
  <2> QED
    BY <1>0, <1>2, <2>1, GotoKeeps, Untouched DEF Embed, At, Rewritten, PipelineNodes
<1>3. CASE CacheCheck(r)
  BY <1>0, <1>3, <1>u, CacheCheckKeeps DEF CacheCheck, At
<1>4. CASE RateLimit(r)
  BY <1>0, <1>4, <1>u, RateLimitKeeps DEF RateLimit, At
<1>r. CASE RateAdd(r)
  BY <1>0, <1>r, <1>u, RateAddKeeps DEF RateAdd, At
<1>5. CASE Work(r)
  BY <1>0, <1>5, <1>u, WorkKeeps DEF Work, At
<1>6. CASE SynthesizeToken(r) \/ Synthesize(r)
  BY <1>0, <1>6, <1>u, SynthesizeKeeps DEF SynthesizeToken, Synthesize, At
<1>7. CASE CacheStore(r)
  BY <1>0, <1>7, <1>u, CacheStoreKeeps DEF CacheStore, At
<1>8. CASE AppendMemory(r)
  <2>1. memory' \in [Sessions -> SUBSET Requests]
    BY <1>8, RememberTyped, Untouched DEF AppendMemory, RouteInv
  <2> QED
    BY <1>0, <1>8, <2>1, GotoKeeps, Untouched
       DEF AppendMemory, At, Rewritten, PipelineNodes
<1> QED
  BY <1>1, <1>2, <1>3, <1>4, <1>r, <1>5, <1>6, <1>7, <1>8 DEF Pipeline, Node

-----------------------------------------------------------------------------
(* The routes around the pipeline.                                         *)

LEMMA ArriveKeeps ==
    ASSUME RouteInv, NEW r \in Requests, NEW m \in Messages, Arrive(r, m)
    PROVE  RouteInv'
<1> USE RoutesAssumption
<1> DEFINE sent == [Unsent EXCEPT !.route = m.route, !.user = m.user,
                                  !.known = Delivered(m.session),
                                  !.session = m.session, !.text = m.text]
           admitted(t) == [sent EXCEPT !.pc = "load", !.meaning = t]
           refused == [Unsent EXCEPT !.pc = "refused"]
<1>0. UNCHANGED <<cache, memory, bucket, stream, recorded, lapsed>>
  BY DEF Arrive
<1>1. ASSUME NEW t \in Texts, Become(r, admitted(t))
      PROVE  RouteInv'
  <2>1. Delivered(m.session) \in SUBSET Requests
    BY DEF Delivered
  <2>2. admitted(t) \in RequestType
    BY <2>1, Typed DEF RouteInv, RequestType, PcValues
  <2>3. /\ admitted(t).pc = "load" /\ admitted(t).text \in Texts
        /\ admitted(t).meaning \in Texts
    BY DEF Unsent
  <2>4. Asks(admitted(t)) /\ Writes(admitted(t))
    BY <2>3 DEF Asks, Writes, Rewritten, PipelineNodes
  <2> HIDE DEF admitted
  <2>5. Moves(r, admitted(t))
    BY <1>0, <1>1, <2>2, <2>4, Untouched DEF Moves
  <2> QED
    BY <2>5, MovesKeeps
<1>2. CASE Become(r, refused)
  <2>1. refused \in RequestType
    BY Typed DEF RouteInv, RequestType, PcValues
  <2>2. refused.pc = "refused"
    BY DEF Unsent
  <2>3. Asks(refused) /\ Writes(refused)
    BY <2>2 DEF Asks, Writes, Open, Rewritten, PipelineNodes
  <2> HIDE DEF refused
  <2>4. Moves(r, refused)
    BY <1>0, <1>2, <2>1, <2>3, Untouched DEF Moves
  <2> QED
    BY <2>4, MovesKeeps
<1>3. m.text \in Texts
  OBVIOUS
<1> QED
  BY <1>1, <1>2, <1>3 DEF Arrive

\* A step of the route before the pipeline, and behind it.
LEMMA RouteMoveKeeps ==
    ASSUME RouteInv, NEW r \in Requests, NEW l, NEW c \in BOOLEAN, NEW h \in BOOLEAN,
           NEW f \in BOOLEAN, NEW a \in Answers,
           l \in {"exact", "classify", "emit", "append", "raised", "answered"},
           req[r].pc \in Open \/ l = "answered",
           Become(r, [req[r] EXCEPT !.pc = l, !.contextual = c, !.hit = h, !.fast = f,
                                    !.answer = a]),
           UNCHANGED <<cache, bucket, recorded>>,
           memory' \in [Sessions -> SUBSET Requests],
           stream' \in [Requests -> Seq(Events)],
           lapsed' \in SUBSET Requests
    PROVE  RouteInv'
<1> DEFINE s == [req[r] EXCEPT !.pc = l, !.contextual = c, !.hit = h, !.fast = f,
                               !.answer = a]
<1>1. req[r] \in RequestType /\ Asks(req[r])
  BY Typed DEF RouteInv
<1>2. s.pc = l /\ s.text = req[r].text /\ s.meaning = req[r].meaning
  BY <1>1 DEF RequestType
<1>3. s \in RequestType
  <2>1. l \in PcValues
    BY DEF PcValues, PipelineNodes
  <2> QED
    BY <1>1, <2>1 DEF RequestType
<1>4. Asks(s) /\ Writes(s)
  BY <1>1, <1>2 DEF Asks, Writes, Open, Rewritten, PipelineNodes
<1> HIDE DEF s
<1>5. Moves(r, s)
  BY <1>3, <1>4, Untouched DEF Moves, s
<1> QED
  BY <1>5, MovesKeeps

\* A request that is over.
LEMMA CloseKeeps ==
    ASSUME RouteInv, NEW r \in Requests, Become(r, Closed(r)),
           UNCHANGED <<cache, bucket>>,
           memory' \in [Sessions -> SUBSET Requests],
           stream' \in [Requests -> Seq(Events)],
           recorded' \in [Requests -> Seq(Records)],
           lapsed' \in SUBSET Requests
    PROVE  RouteInv'
<1>1. Closed(r) \in RequestType /\ Closed(r).pc = "closed"
  BY Typed DEF RouteInv, Closed, Unsent
<1>2. Asks(Closed(r)) /\ Writes(Closed(r))
  BY <1>1 DEF Asks, Writes, Open, Rewritten, PipelineNodes
<1>3. Moves(r, Closed(r))
  BY <1>1, <1>2, Untouched DEF Moves
<1> QED
  BY <1>3, MovesKeeps

LEMMA BeforeThePipelineKeeps ==
    ASSUME RouteInv, NEW r \in Requests, Load(r) \/ ExactLookup(r)
    PROVE  RouteInv'
<1>0. req[r].pc \in Open /\ UNCHANGED <<cache, memory, bucket, stream, recorded, lapsed>>
  BY DEF Load, ExactLookup, At, Open
<1>t. /\ req[r] \in RequestType /\ req[r].answer \in Answers
      /\ req[r].contextual \in BOOLEAN /\ req[r].hit \in BOOLEAN
      /\ req[r].fast \in BOOLEAN
  BY Typed DEF RouteInv, RequestType
<1>1. ASSUME NEW l \in {"exact", "classify", "raised"}, NEW c \in BOOLEAN,
             Become(r, [req[r] EXCEPT !.pc = l, !.contextual = c])
      PROVE  RouteInv'
  <2>1. [req[r] EXCEPT !.pc = l, !.contextual = c]
        = [req[r] EXCEPT !.pc = l, !.contextual = c, !.hit = req[r].hit,
                         !.fast = req[r].fast, !.answer = req[r].answer]
    BY <1>t DEF RequestType
  <2>2. Become(r, [req[r] EXCEPT !.pc = l, !.contextual = c, !.hit = req[r].hit,
                                 !.fast = req[r].fast, !.answer = req[r].answer])
    BY <1>1, <2>1
  <2> QED
    BY <1>0, <1>t, <2>2, RouteMoveKeeps, Untouched
<1>2. ASSUME NEW l \in {"classify", "raised"}, Goto(r, l)
      PROVE  RouteInv'
  <2>1. [req[r] EXCEPT !.pc = l]
        = [req[r] EXCEPT !.pc = l, !.contextual = req[r].contextual]
    BY <1>t DEF RequestType
  <2> QED
    BY <1>1, <1>2, <1>t, <2>1 DEF Goto
<1>3. ASSUME NEW a \in Found(req[r].text),
             Become(r, [req[r] EXCEPT !.pc = "emit", !.hit = TRUE, !.fast = TRUE,
                                      !.answer = a])
      PROVE  RouteInv'
  <2>1. a \in Answers
    BY FoundIsTyped
  <2>2. [req[r] EXCEPT !.pc = "emit", !.hit = TRUE, !.fast = TRUE, !.answer = a]
        = [req[r] EXCEPT !.pc = "emit", !.contextual = req[r].contextual, !.hit = TRUE,
                         !.fast = TRUE, !.answer = a]
    BY <1>t DEF RequestType
  <2>3. Become(r, [req[r] EXCEPT !.pc = "emit", !.contextual = req[r].contextual,
                                 !.hit = TRUE, !.fast = TRUE, !.answer = a])
    BY <1>3, <2>2
  <2> QED
    BY <1>0, <1>t, <2>1, <2>3, RouteMoveKeeps, Untouched
<1>4. CASE Load(r)
  <2> DEFINE ctx == req[r].session \in Sessions /\ memory[req[r].session] # {}
             l == IF req[r].route = "stream" /\ ~ ctx THEN "exact" ELSE "classify"
  <2>1. CASE Become(r, [req[r] EXCEPT !.contextual = ctx, !.pc = l])
    <3>1. ctx \in BOOLEAN /\ l \in {"exact", "classify", "raised"}
      OBVIOUS
    <3>2. [req[r] EXCEPT !.contextual = ctx, !.pc = l]
          = [req[r] EXCEPT !.pc = l, !.contextual = ctx]
      BY <1>t DEF RequestType
    <3>3. Become(r, [req[r] EXCEPT !.pc = l, !.contextual = ctx])
      BY <2>1, <3>2
    <3> HIDE DEF ctx, l
    <3> QED
      BY <1>1, <3>1, <3>3
  <2>2. CASE Goto(r, "raised")
    BY <1>2, <2>2
  <2> QED
    BY <1>4, <2>1, <2>2 DEF Load
<1>5. CASE ExactLookup(r)
  BY <1>2, <1>3, <1>5 DEF ExactLookup
<1> QED
  BY <1>4, <1>5

\* The events of an answer go out one by one.
LEMMA Emits ==
    ASSUME NEW r \in Requests, EmitCached(r) \/ SendText(r)
    PROVE  /\ UNCHANGED <<cache, memory, bucket, recorded, lapsed>>
           /\ \E e \in {"source", "token", "done"}, l \in {"emit", "append", "answered"} :
                 /\ Send(r, <<e>>) /\ Goto(r, l)
                 /\ req[r].pc = IF l = "answered" THEN "answered" ELSE "emit"
                 /\ e = "done" <=> l = "append"
                 /\ e = "source" => stream[r] = <<>>
<1>1. CASE EmitCached(r)
  <2>1. PICK e \in {"source", "token", "done"} :
            /\ e = "source" => stream[r] = <<>>
            /\ Send(r, <<e>>)
            /\ Goto(r, IF e = "done" THEN "append" ELSE "emit")
    BY <1>1 DEF EmitCached
  <2> DEFINE l == IF e = "done" THEN "append" ELSE "emit"
  <2>2. /\ l \in {"emit", "append", "answered"} /\ l # "answered"
        /\ e = "done" <=> l = "append"
        /\ req[r].pc = "emit" /\ Goto(r, l)
    BY <1>1, <2>1 DEF EmitCached, At
  <2> HIDE DEF l
  <2>3. UNCHANGED <<cache, memory, bucket, recorded, lapsed>>
    BY <1>1 DEF EmitCached
  <2> QED
    BY <2>1, <2>2, <2>3
<1>2. CASE SendText(r)
  BY <1>2 DEF SendText, At
<1> QED
  BY <1>1, <1>2

LEMMA FastPathKeeps ==
    ASSUME RouteInv, NEW r \in Requests, EmitCached(r) \/ SendText(r) \/ FastAppend(r)
    PROVE  RouteInv'
<1>t. /\ req[r] \in RequestType /\ req[r].answer \in Answers
      /\ req[r].contextual \in BOOLEAN /\ req[r].hit \in BOOLEAN
      /\ req[r].fast \in BOOLEAN
  BY Typed DEF RouteInv, RequestType
<1>1. ASSUME NEW l \in {"emit", "append", "raised", "answered"}, Goto(r, l),
             req[r].pc \in Open \/ l = "answered",
             UNCHANGED <<cache, bucket, recorded>>,
             memory' \in [Sessions -> SUBSET Requests],
             stream' \in [Requests -> Seq(Events)],
             lapsed' \in SUBSET Requests
      PROVE  RouteInv'
  <2>1. [req[r] EXCEPT !.pc = l]
        = [req[r] EXCEPT !.pc = l, !.contextual = req[r].contextual,
                         !.hit = req[r].hit, !.fast = req[r].fast,
                         !.answer = req[r].answer]
    BY <1>t DEF RequestType
  <2>2. Become(r, [req[r] EXCEPT !.pc = l, !.contextual = req[r].contextual,
                         !.hit = req[r].hit, !.fast = req[r].fast,
                         !.answer = req[r].answer])
    BY <1>1, <2>1 DEF Goto
  <2> QED
    BY <1>1, <1>t, <2>2, RouteMoveKeeps
<1>2. CASE EmitCached(r) \/ SendText(r)
  <2>1. PICK e \in {"source", "token", "done"}, l \in {"emit", "append", "answered"} :
            /\ Send(r, <<e>>) /\ Goto(r, l)
            /\ req[r].pc = IF l = "answered" THEN "answered" ELSE "emit"
    BY <1>2, Emits
  <2>2. <<e>> \in Seq(Events)
    BY DEF Events
  <2>3. stream' \in [Requests -> Seq(Events)]
    BY <2>1, <2>2, SendTyped DEF RouteInv
  <2>4. req[r].pc \in Open \/ l = "answered"
    BY <2>1 DEF Open
  <2> QED
    BY <1>1, <1>2, <2>1, <2>3, <2>4, Emits, Untouched
<1>3. CASE FastAppend(r)
  <2>1. memory' \in [Sessions -> SUBSET Requests]
    BY <1>3, RememberTyped, Untouched DEF FastAppend, RouteInv
  <2>2. CASE Become(r, Closed(r)) /\ Record(r, FALSE, TRUE) /\ UNCHANGED lapsed
    BY <1>3, <2>1, <2>2, CloseKeeps, RecordTyped, Untouched DEF FastAppend, RouteInv
  <2>3. CASE Goto(r, "raised") /\ lapsed' = lapsed \cup {r} /\ UNCHANGED recorded
    BY <1>1, <1>3, <2>1, <2>3, Untouched DEF FastAppend, At, Open
  <2> QED
    BY <1>3, <2>2, <2>3 DEF FastAppend
<1> QED
  BY <1>2, <1>3

LEMMA EndsKeep ==
    ASSUME RouteInv, NEW r \in Requests,
           Finish(r) \/ BuildRaises(r) \/ Fail(r) \/ Deadline(r)
           \/ Disconnect(r)
    PROVE  RouteInv'
<1>t. req[r] \in RequestType /\ req[r].hit \in BOOLEAN /\ TypeOK
  BY Typed DEF RouteInv, RequestType
<1>e. <<"done">> \in Seq(Events) /\ <<"error">> \in Seq(Events)
  BY DEF Events
<1>1. CASE Finish(r)
  <2>2. (req[r].hit /\ req[r].route = "stream") \in BOOLEAN
    OBVIOUS
  <2>3. stream' \in [Requests -> Seq(Events)]
    BY <1>1, <1>e, <1>t, SendTyped DEF Finish
  <2>4. recorded' \in [Requests -> Seq(Records)]
    BY <1>1, <1>t, <2>2, RecordTyped DEF Finish
  <2> QED
    BY <1>1, <2>3, <2>4, CloseKeeps, Untouched DEF Finish
<1>2. CASE Fail(r) \/ BuildRaises(r)
  <2>1. /\ Become(r, Closed(r)) /\ Send(r, <<"error">>)
        /\ \E e, h \in BOOLEAN : Record(r, e, h)
        /\ UNCHANGED <<cache, memory, bucket, lapsed>>
    BY <1>2, <1>t DEF Fail, BuildRaises, Failed
  <2> QED
    BY <1>e, <1>t, <2>1, CloseKeeps, SendTyped, RecordTyped, Untouched
<1>3. CASE Deadline(r)
  <2>1. memory' \in [Sessions -> SUBSET Requests]
    BY <1>3, <1>t, RememberTyped, Untouched DEF Deadline
  <2> QED
    BY <1>3, <1>e, <1>t, <2>1, CloseKeeps, SendTyped, RecordTyped, Untouched DEF Deadline
<1>4. CASE Disconnect(r)
  <2>1. memory' \in [Sessions -> SUBSET Requests]
    BY <1>4, <1>t, RememberTyped, Untouched DEF Disconnect
  <2>2. PICK hit \in {TRUE, FALSE, req[r].hit} : Record(r, FALSE, hit)
    BY <1>4 DEF Disconnect
  <2>3. recorded' \in [Requests -> Seq(Records)]
    BY <1>t, <2>2, RecordTyped
  <2> QED
    BY <1>4, <2>1, <2>3, CloseKeeps, Untouched DEF Disconnect
<1> QED
  BY <1>1, <1>2, <1>3, <1>4

\* A step that no request takes.
LEMMA SharedKeeps ==
    ASSUME RouteInv, UNCHANGED <<req, stream, recorded>>,
           cache' \subseteq cache, BucketFits',
           memory' \in [Sessions -> SUBSET Requests],
           lapsed' \in SUBSET Requests
    PROVE  RouteInv'
<1>1. TypeOK' /\ CacheIsContextFree'
  BY Untouched DEF RouteInv, TypeOK, BucketFits, CacheFits, Events, Records
<1> QED
  BY <1>1 DEF RouteInv

LEMMA ExpiryKeeps ==
    ASSUME RouteInv,
           \/ \E c \in cache : Expire(c)
           \/ \E s \in Sessions : Forget(s)
           \/ \E r \in bucket : Slide(r)
    PROVE  RouteInv'
<1>1. CASE \E c \in cache : Expire(c)
  BY <1>1, SharedKeeps, Untouched DEF Expire
<1>2. ASSUME NEW s \in Sessions, Forget(s)
      PROVE  RouteInv'
  <2>1. memory' \in [Sessions -> SUBSET Requests] /\ lapsed' \in SUBSET Requests
    BY <1>2, Untouched DEF Forget
  <2> QED
    BY <1>2, <2>1, SharedKeeps, Untouched DEF Forget
<1>3. ASSUME NEW r \in bucket, Slide(r)
      PROVE  RouteInv'
  <2>1. BucketFits'
    BY <1>3, Untouched DEF Slide, BucketFits
  <2> QED
    BY <1>3, <2>1, SharedKeeps, Untouched DEF Slide
<1> QED
  BY <1>1, <1>2, <1>3

-----------------------------------------------------------------------------
(* The theorems.                                                           *)

LEMMA RouteInvInit == Init => RouteInv
<1> SUFFICES ASSUME Init
             PROVE  RouteInv
  OBVIOUS
<1>1. Unsent \in RequestType
  BY DEF Unsent, RequestType, PcValues, NoAnswer, Answers, Kinds
<1>2. TypeOK
  BY <1>1 DEF Init, TypeOK
<1>3. Asks(Unsent) /\ Writes(Unsent)
  BY DEF Asks, Writes, Unsent, Open, Rewritten, PipelineNodes
<1> QED
  BY <1>2, <1>3 DEF Init, RouteInv, CacheIsContextFree

LEMMA RouteInvHolds == Spec => []RouteInv
<1>1. Init => RouteInv
  BY RouteInvInit
<1>2. RouteInv /\ [Next]_vars => RouteInv'
  <2> SUFFICES ASSUME RouteInv, [Next]_vars
               PROVE  RouteInv'
    OBVIOUS
  <2>1. ASSUME NEW r \in Requests,
               \/ \E m \in Messages : Arrive(r, m)
               \/ Load(r) \/ ExactLookup(r) \/ EmitCached(r) \/ SendText(r) \/ FastAppend(r)
               \/ Pipeline(r) \/ Finish(r) \/ BuildRaises(r) \/ Fail(r) \/ Deadline(r) \/ Disconnect(r)
        PROVE  RouteInv'
    BY <2>1, ArriveKeeps, BeforeThePipelineKeeps, FastPathKeeps, PipelineKeeps, EndsKeep
  <2>2. CASE UNCHANGED vars
    BY <2>2, SharedKeeps, Untouched DEF vars
  <2> QED
    BY <2>1, <2>2, ExpiryKeeps DEF Next
<1> QED
  BY <1>1, <1>2, PTL DEF Spec

\* Every variable of the routes and the pipeline keeps its type, and no cache key
\* is a missing text: what the classifier fails to give, the message supplies.
THEOREM RouteTypes == Spec => []TypeOK
<1>1. RouteInv => TypeOK
  BY DEF RouteInv
<1> QED
  BY <1>1, RouteInvHolds, PTL

\* What the cache may serve in any conversation was never written in one
\* (supervisor.py:191-196), whatever is asked, in whatever order.
THEOREM CacheStaysContextFree == Spec => []CacheIsContextFree
<1>1. RouteInv => CacheIsContextFree
  BY DEF RouteInv
<1> QED
  BY <1>1, RouteInvHolds, PTL

-----------------------------------------------------------------------------
(* The metrics.  A request is not recorded before it closes, and until then  *)
(* its client has seen a terminal event only on the fast path.               *)

Has(s, e) == \E i \in 1 .. Len(s) : s[i] = e

Closes(r) ==
    /\ Len(recorded[r]) = 1
    /\ recorded[r][1].error => Has(stream[r], "error")
    /\ req[r].route = "stream" =>
          /\ Has(stream[r], "error") => recorded[r][1].error
          /\ Has(stream[r], "done") => recorded[r][1].hit = req[r].hit

Runs(r) ==
    /\ recorded[r] = <<>>
    /\ ~ Has(stream[r], "error")
    /\ Has(stream[r], "done") => req[r].pc \in {"append", "raised"} /\ req[r].hit
    /\ req[r].pc \in {"emit", "append"} => req[r].fast /\ req[r].hit

Ledger(r) == IF At(r, "closed") THEN Closes(r) ELSE Runs(r)

LedgerInv == TypeOK /\ \A r \in Requests : Ledger(r)

\* What a step of r leaves alone.
Touches(r) ==
    \A q \in Requests \ {r} :
        req'[q] = req[q] /\ stream'[q] = stream[q] /\ recorded'[q] = recorded[q]

LEMMA LedgersElsewhere ==
    ASSUME LedgerInv, NEW r \in Requests, Touches(r), Ledger(r)'
    PROVE  \A q \in Requests : Ledger(q)'
<1> SUFFICES ASSUME NEW q \in Requests, q # r
             PROVE  Ledger(q)'
  OBVIOUS
<1>1. req'[q] = req[q] /\ stream'[q] = stream[q] /\ recorded'[q] = recorded[q]
  BY DEF Touches
<1>2. Ledger(q)
  BY DEF LedgerInv
<1> QED
  BY <1>1, <1>2 DEF Ledger, Closes, Runs, At

LEMMA HasOneOf ==
    ASSUME NEW s \in Seq(Events), NEW t \in Seq(Events), NEW e
    PROVE  Has(s \o t, e) <=> Has(s, e) \/ Has(t, e)
<1>1. /\ Len(s \o t) = Len(s) + Len(t) /\ Len(s) \in Nat /\ Len(t) \in Nat
      /\ \A i \in 1 .. Len(s) : (s \o t)[i] = s[i]
      /\ \A i \in 1 .. Len(t) : (s \o t)[Len(s) + i] = t[i]
  OBVIOUS
<1>2. ASSUME NEW i \in 1 .. Len(s \o t), (s \o t)[i] = e
      PROVE  \/ \E j \in 1 .. Len(s) : s[j] = e
             \/ \E j \in 1 .. Len(t) : t[j] = e
  <2>1. CASE i <= Len(s)
    BY <1>1, <1>2, <2>1
  <2>2. CASE i > Len(s)
    <3>1. i - Len(s) \in 1 .. Len(t) /\ Len(s) + (i - Len(s)) = i
      BY <1>1, <2>2
    <3> QED
      BY <1>1, <1>2, <3>1
  <2> QED
    BY <1>1, <2>1, <2>2
<1>3. ASSUME NEW i \in 1 .. Len(s), s[i] = e
      PROVE  \E j \in 1 .. Len(s \o t) : (s \o t)[j] = e
  BY <1>1, <1>3
<1>4. ASSUME NEW i \in 1 .. Len(t), t[i] = e
      PROVE  \E j \in 1 .. Len(s \o t) : (s \o t)[j] = e
  <2>1. Len(s) + i \in 1 .. Len(s \o t)
    BY <1>1
  <2> QED
    BY <1>1, <1>4, <2>1
<1> QED
  BY <1>2, <1>3, <1>4 DEF Has

\* An event is among those sent after a step if it was before, or is sent now.
LEMMA SentByNow ==
    ASSUME TypeOK, NEW r \in Requests, NEW es \in Seq(Events), NEW e,
           stream' = [stream EXCEPT ![r] = @ \o es]
    PROVE  Has(stream'[r], e) <=> Has(stream[r], e) \/ Has(es, e)
<1>1. stream[r] \in Seq(Events) /\ stream'[r] = stream[r] \o es
  BY DEF TypeOK, Events
<1>2. Has(stream[r] \o es, e) <=> Has(stream[r], e) \/ Has(es, e)
  BY <1>1, HasOneOf
<1> QED
  BY <1>1, <1>2

\* The pipeline sends sources and tokens, never a terminal event.
LEMMA YieldsNoEnd ==
    ASSUME TypeOK, NEW r \in Requests, NEW es \in {<<>>, <<"source">>, <<"token">>},
           Yield(r, es)
    PROVE  \A e \in Terminal : Has(stream'[r], e) <=> Has(stream[r], e)
<1>1. /\ <<>> \in Seq(Events) /\ <<"source">> \in Seq(Events)
      /\ <<"token">> \in Seq(Events)
  BY DEF Events
<1>2. PICK ys \in {<<>>, <<"source">>, <<"token">>} :
          stream' = [stream EXCEPT ![r] = @ \o ys]
  <2>1. CASE req[r].route = "stream"
    BY <2>1 DEF Yield
  <2>2. CASE req[r].route # "stream"
    BY <2>2 DEF Yield
  <2> QED
    BY <2>1, <2>2
<1>3. \A e \in Terminal : ~ Has(ys, e)
  <2>1. CASE ys = <<>>
    BY <2>1 DEF Has
  <2>2. CASE ys = <<"source">>
    BY <2>2 DEF Has, Terminal
  <2>3. CASE ys = <<"token">>
    BY <2>3 DEF Has, Terminal
  <2> QED
    BY <2>1, <2>2, <2>3
<1>4. ys \in Seq(Events)
  BY <1>1
<1>5. stream[r] \in Seq(Events) /\ stream'[r] = stream[r] \o ys
  BY <1>2 DEF TypeOK, Events
<1> QED
  BY <1>3, <1>4, <1>5, HasOneOf

LEMMA NodeKeepsLedgers ==
    ASSUME LedgerInv, NEW r \in Requests, Pipeline(r)
    PROVE  Ledger(r)' /\ Touches(r)
<1>t. req[r] \in RequestType /\ TypeOK
  BY Typed DEF LedgerInv
<1>0. recorded' = recorded /\ req[r].pc \in PipelineNodes
  BY DEF Pipeline, Node, Classify, Embed, CacheCheck, RateLimit, RateAdd, Work, SynthesizeToken,
         Synthesize, CacheStore, AppendMemory, At, PipelineNodes
<1> DEFINE Advanced == /\ req'[r].pc \in PipelineNodes \cup {"answered", "raised"}
                       /\ \A q \in Requests \ {r} : req'[q] = req[q]
<1>1. Advanced
  <2>0. ASSUME NEW s, Become(r, s), s.pc \in PipelineNodes \cup {"answered", "raised"}
        PROVE  Advanced
    BY <1>t, <2>0 DEF Become, TypeOK
  <2>g. ASSUME NEW l \in PipelineNodes \cup {"answered", "raised"}, Goto(r, l)
        PROVE  Advanced
    BY <1>t, <2>g, <2>0 DEF Goto, RequestType
  <2>1. CASE Classify(r)
    <3>1. \E c \in BOOLEAN, q \in {req[r].meaning, req[r].text} :
              \/ Become(r, [req[r] EXCEPT !.pc = "embed", !.classified = TRUE,
                                          !.standalone = q])
              \/ Become(r, [req[r] EXCEPT !.pc = "embed", !.standalone = q])
      BY <2>1 DEF Classify
    <3> QED
      BY <1>t, <2>0, <3>1 DEF RequestType, PipelineNodes
  <2>2. CASE Embed(r)
    BY <2>2, <2>g DEF Embed, PipelineNodes
  <2>3. CASE CacheCheck(r)
    <3>1. ASSUME NEW a, Become(r, [req[r] EXCEPT !.pc = "cache_store", !.hit = TRUE,
                                                 !.answer = a])
          PROVE  Advanced
      BY <1>t, <2>0, <3>1 DEF RequestType, PipelineNodes
    <3> QED
      BY <2>3, <2>g, <3>1 DEF CacheCheck, PipelineNodes
  <2>4. CASE RateLimit(r)
    <3>1. Workers(r) \subseteq PipelineNodes
      BY DEF Workers, PipelineNodes
    <3>2. ASSUME NEW a, Become(r, [req[r] EXCEPT !.pc = "cache_store", !.answer = a])
          PROVE  Advanced
      BY <1>t, <2>0, <3>2 DEF RequestType, PipelineNodes
    <3>3. "rate_add" \in PipelineNodes
      BY DEF PipelineNodes
    <3> HIDE DEF Advanced
    <3> QED
      BY <2>4, <2>g, <3>1, <3>2, <3>3 DEF RateLimit
  <2>a. CASE RateAdd(r)
    <3>1. Workers(r) \subseteq PipelineNodes
      BY DEF Workers, PipelineNodes
    <3> QED
      BY <2>a, <2>g, <3>1 DEF RateAdd
  <2>5. CASE Work(r)
    BY <2>5, <2>g DEF Work, PipelineNodes
  <2>6. CASE SynthesizeToken(r)
    BY <1>0, <1>t, <2>0, <2>6 DEF SynthesizeToken, RequestType
  <2>7. CASE Synthesize(r)
    <3>1. ASSUME NEW a, NEW v,
                 \/ Become(r, [req[r] EXCEPT !.pc = "cache_store", !.answer = a])
                 \/ Become(r, [req[r] EXCEPT !.pc = "cache_store", !.live = v,
                                             !.answer = a])
          PROVE  Advanced
      BY <1>t, <2>0, <3>1 DEF RequestType, PipelineNodes
    <3> QED
      BY <2>7, <3>1 DEF Synthesize
  <2>8. CASE CacheStore(r)
    BY <2>8, <2>g DEF CacheStore, PipelineNodes
  <2>9. CASE AppendMemory(r)
    BY <2>9, <2>g DEF AppendMemory, PipelineNodes
  <2> HIDE DEF Advanced
  <2> QED
    BY <2>1, <2>2, <2>3, <2>4, <2>5, <2>6, <2>7, <2>8, <2>9, <2>a DEF Pipeline, Node
<1>2. /\ \A e \in Terminal : Has(stream'[r], e) <=> Has(stream[r], e)
      /\ \A q \in Requests \ {r} : stream'[q] = stream[q]
  <2>1. stream' = stream \/ \E es \in {<<>>, <<"source">>, <<"token">>} : Yield(r, es)
    BY DEF Pipeline, Node, Classify, Embed, CacheCheck, RateLimit, RateAdd, Work, SynthesizeToken,
           Synthesize, CacheStore, AppendMemory
  <2>2. CASE stream' = stream
    BY <2>2
  <2>3. ASSUME NEW es \in {<<>>, <<"source">>, <<"token">>}, Yield(r, es)
        PROVE  \A q \in Requests \ {r} : stream'[q] = stream[q]
    BY <1>t, <2>3 DEF Yield, TypeOK
  <2> QED
    BY <1>t, <2>1, <2>2, <2>3, YieldsNoEnd
<1>3. Runs(r) /\ ~ At(r, "closed")
  BY <1>0 DEF LedgerInv, Ledger, At, PipelineNodes
<1>4. Runs(r)'
  <2>1. ~ Has(stream[r], "done") /\ ~ Has(stream[r], "error")
    BY <1>0, <1>3 DEF Runs, PipelineNodes
  <2>2. ~ Has(stream'[r], "done") /\ ~ Has(stream'[r], "error")
    BY <1>2, <2>1 DEF Terminal
  <2>3. req'[r].pc \notin {"emit", "append"}
    BY <1>1 DEF PipelineNodes
  <2> QED
    BY <1>0, <1>3, <2>2, <2>3 DEF Runs
<1>5. ~ At(r, "closed")'
  BY <1>1 DEF At, PipelineNodes
<1> QED
  BY <1>0, <1>1, <1>2, <1>4, <1>5 DEF Ledger, Touches

\* A step on the way to the pipeline or to the fast path.
LEMMA AdmissionKeepsLedgers ==
    ASSUME LedgerInv, NEW r \in Requests,
           (\E m \in Messages : Arrive(r, m)) \/ Load(r) \/ ExactLookup(r)
    PROVE  Ledger(r)' /\ Touches(r)
<1>t. req[r] \in RequestType /\ TypeOK
  BY Typed DEF LedgerInv
<1>0. /\ req[r].pc \in {"unsent", "load", "exact"}
      /\ stream' = stream /\ recorded' = recorded
  BY DEF Arrive, Load, ExactLookup, At
<1> DEFINE Advanced == /\ req'[r].pc \in {"load", "refused", "exact", "classify", "emit", "raised"}
                       /\ req'[r].pc = "emit" => req'[r].fast /\ req'[r].hit
                       /\ \A q \in Requests \ {r} : req'[q] = req[q]
<1>1. Advanced
  <2>0. ASSUME NEW s, Become(r, s),
               s.pc \in {"load", "refused", "exact", "classify", "emit", "raised"},
               s.pc = "emit" => s.fast /\ s.hit
        PROVE  Advanced
    BY <1>t, <2>0 DEF Become, TypeOK
  <2>g. ASSUME NEW l \in {"classify", "raised"}, Goto(r, l)
        PROVE  Advanced
    BY <1>t, <2>g, <2>0 DEF Goto, RequestType
  <2>1. ASSUME NEW m \in Messages, Arrive(r, m)
        PROVE  Advanced
    <3> DEFINE sent == [Unsent EXCEPT !.route = m.route, !.user = m.user,
                                      !.known = Delivered(m.session),
                                      !.session = m.session, !.text = m.text]
    <3>1. ASSUME NEW t, Become(r, [sent EXCEPT !.pc = "load", !.meaning = t])
          PROVE  Advanced
      BY <2>0, <3>1 DEF Unsent
    <3>2. ASSUME Become(r, [Unsent EXCEPT !.pc = "refused"])
          PROVE  Advanced
      BY <2>0, <3>2 DEF Unsent
    <3> HIDE DEF Advanced
    <3> QED
      BY <2>1, <3>1, <3>2 DEF Arrive
  <2>2. CASE Load(r)
    <3>1. ASSUME NEW c, NEW l \in {"exact", "classify"},
                 Become(r, [req[r] EXCEPT !.contextual = c, !.pc = l])
          PROVE  Advanced
      BY <1>t, <2>0, <3>1 DEF RequestType
    <3> HIDE DEF Advanced
    <3> QED
      BY <2>2, <2>g, <3>1 DEF Load
  <2>3. CASE ExactLookup(r)
    <3>1. ASSUME NEW a, Become(r, [req[r] EXCEPT !.pc = "emit", !.hit = TRUE,
                                                 !.fast = TRUE, !.answer = a])
          PROVE  Advanced
      BY <1>t, <2>0, <3>1 DEF RequestType
    <3> HIDE DEF Advanced
    <3> QED
      BY <2>3, <2>g, <3>1 DEF ExactLookup
  <2> QED
    BY <2>1, <2>2, <2>3
<1>2. Runs(r)
  BY <1>0 DEF LedgerInv, Ledger, At
<1>3. Runs(r)' /\ ~ At(r, "closed")'
  BY <1>0, <1>1, <1>2 DEF Runs, At
<1> QED
  BY <1>0, <1>1, <1>3 DEF Ledger, Touches

\* A request that closes, as far as the ledger goes.
LEMMA Closing ==
    ASSUME LedgerInv, NEW r \in Requests, NEW e \in BOOLEAN, NEW h \in BOOLEAN,
           ~ At(r, "closed"), Become(r, Closed(r)), Record(r, e, h)
    PROVE  /\ At(r, "closed")'
           /\ req'[r].route = req[r].route /\ req'[r].hit = req[r].hit
           /\ Len(recorded'[r]) = 1
           /\ recorded'[r][1].error = e /\ recorded'[r][1].hit = h
           /\ \A q \in Requests \ {r} : req'[q] = req[q] /\ recorded'[q] = recorded[q]
<1>t. TypeOK
  BY DEF LedgerInv
<1>1. req'[r] = Closed(r) /\ \A q \in Requests \ {r} : req'[q] = req[q]
  BY <1>t DEF Become, TypeOK
<1>2. /\ Closed(r).pc = "closed" /\ Closed(r).route = req[r].route
      /\ Closed(r).hit = req[r].hit
  BY DEF Closed, Unsent
<1>3. recorded[r] = <<>>
  BY DEF LedgerInv, Ledger, Runs
<1>4. recorded'[r] = <<[error |-> e, hit |-> h]>>
  BY <1>t, <1>3 DEF Record, TypeOK
<1>5. \A q \in Requests \ {r} : recorded'[q] = recorded[q]
  BY <1>t DEF Record, TypeOK
<1> QED
  BY <1>1, <1>2, <1>4, <1>5 DEF At

LEMMA FastPathKeepsLedgers ==
    ASSUME LedgerInv, NEW r \in Requests, EmitCached(r) \/ SendText(r) \/ FastAppend(r)
    PROVE  Ledger(r)' /\ Touches(r)
<1>t. req[r] \in RequestType /\ TypeOK
  BY Typed DEF LedgerInv
<1>0. req[r].pc \in {"emit", "append", "answered"} /\ ~ At(r, "closed")
  BY DEF EmitCached, SendText, FastAppend, At
<1>r. /\ Runs(r)
      /\ ~ At(r, "answered") => req[r].fast /\ req[r].hit
  BY <1>0 DEF LedgerInv, Ledger, Runs, At
<1>1. ASSUME NEW l \in {"emit", "append", "raised", "answered"}, Goto(r, l),
             recorded' = recorded,
             l # "answered" => req[r].fast /\ req[r].hit,
             Has(stream'[r], "done") => l \in {"append", "raised"},
             ~ Has(stream'[r], "error"),
             \A q \in Requests \ {r} : stream'[q] = stream[q]
      PROVE  Ledger(r)' /\ Touches(r)
  <2>1. /\ req'[r].pc = l /\ req'[r].fast = req[r].fast /\ req'[r].hit = req[r].hit
        /\ \A q \in Requests \ {r} : req'[q] = req[q]
    BY <1>1, <1>t DEF Goto, Become, TypeOK, RequestType
  <2> QED
    BY <1>1, <1>r, <2>1 DEF Ledger, Runs, At, Touches
<1>2. CASE EmitCached(r) \/ SendText(r)
  <2>1. PICK e \in {"source", "token", "done"}, l \in {"emit", "append", "answered"} :
            /\ Send(r, <<e>>) /\ Goto(r, l)
            /\ req[r].pc = IF l = "answered" THEN "answered" ELSE "emit"
            /\ e = "done" <=> l = "append"
    BY <1>2, Emits
  <2>2. /\ <<e>> \in Seq(Events) /\ ~ Has(<<e>>, "error")
        /\ Has(<<e>>, "done") <=> e = "done"
    BY DEF Events, Has
  <2>3. /\ stream' = [stream EXCEPT ![r] = @ \o <<e>>]
        /\ \A q \in Requests \ {r} : stream'[q] = stream[q]
    BY <1>t, <2>1 DEF Send, TypeOK
  <2>4. ~ Has(stream[r], "done") /\ ~ Has(stream[r], "error")
    BY <1>r, <2>1 DEF Runs
  <2>5. /\ ~ Has(stream'[r], "error")
        /\ Has(stream'[r], "done") => l = "append"
    BY <1>t, <2>1, <2>2, <2>3, <2>4, SentByNow
  <2>6. l # "answered" => req[r].fast /\ req[r].hit
    BY <1>r, <2>1 DEF At
  <2>7. recorded' = recorded
    BY <1>2 DEF EmitCached, SendText
  <2> QED
    BY <1>1, <2>1, <2>3, <2>5, <2>6, <2>7
<1>3. CASE FastAppend(r)
  <2>0. stream' = stream
    BY <1>3 DEF FastAppend
  <2>1. CASE Become(r, Closed(r)) /\ Record(r, FALSE, TRUE)
    <3>1. /\ At(r, "closed")' /\ req'[r].hit = req[r].hit
          /\ Len(recorded'[r]) = 1
          /\ recorded'[r][1].error = FALSE /\ recorded'[r][1].hit = TRUE
          /\ \A q \in Requests \ {r} : req'[q] = req[q] /\ recorded'[q] = recorded[q]
      BY <1>0, <2>1, Closing
    <3>2. Has(stream'[r], "error") = FALSE /\ req[r].hit = TRUE
      BY <1>3, <1>r, <1>t, <2>0 DEF Runs, RequestType, Has, FastAppend, At
    <3>3. Closes(r)'
      BY <3>1, <3>2 DEF Closes
    <3> QED
      BY <2>0, <3>1, <3>3 DEF Ledger, Touches
  <2>2. CASE Goto(r, "raised") /\ UNCHANGED recorded
    <3>1. req[r].fast /\ req[r].hit /\ ~ Has(stream[r], "error")
      BY <1>3, <1>r DEF Runs, FastAppend, At
    <3> QED
      BY <1>1, <2>0, <2>2, <3>1
  <2> QED
    BY <1>3, <2>1, <2>2 DEF FastAppend
<1> QED
  BY <1>2, <1>3

\* A step that closes r, with the events it sends last.
LEMMA ClosingKeepsLedgers ==
    ASSUME LedgerInv, NEW r \in Requests, NEW e \in BOOLEAN, NEW h \in BOOLEAN,
           NEW es \in Seq(Events),
           ~ At(r, "closed"), Become(r, Closed(r)), Record(r, e, h),
           Send(r, es),
           e => Has(es, "error"),
           (req[r].route = "stream" /\ Has(es, "error")) => e,
           (req[r].route = "stream" /\ (Has(stream[r], "done") \/ Has(es, "done"))) =>
               h = req[r].hit
    PROVE  Ledger(r)' /\ Touches(r)
<1>t. TypeOK
  BY DEF LedgerInv
<1>1. /\ At(r, "closed")'
      /\ req'[r].route = req[r].route /\ req'[r].hit = req[r].hit
      /\ Len(recorded'[r]) = 1
      /\ recorded'[r][1].error = e /\ recorded'[r][1].hit = h
      /\ \A q \in Requests \ {r} : req'[q] = req[q] /\ recorded'[q] = recorded[q]
  BY Closing
<1>2. /\ stream[r] \in Seq(Events) /\ stream'[r] = stream[r] \o es
      /\ \A q \in Requests \ {r} : stream'[q] = stream[q]
  BY <1>t DEF Send, TypeOK, Events
<1>3. /\ Has(stream[r] \o es, "error") <=> Has(stream[r], "error") \/ Has(es, "error")
      /\ Has(stream[r] \o es, "done") <=> Has(stream[r], "done") \/ Has(es, "done")
  BY <1>2, HasOneOf
<1>4. ~ Has(stream[r], "error")
  BY DEF LedgerInv, Ledger, Runs
<1>5. /\ e => Has(stream'[r], "error")
      /\ (req[r].route = "stream" /\ Has(stream'[r], "error")) => e
  BY <1>2, <1>3, <1>4
<1>6. Closes(r)'
  BY <1>1, <1>2, <1>3, <1>5 DEF Closes
<1> QED
  BY <1>1, <1>2, <1>6 DEF Ledger, Touches

LEMMA EndsKeepLedgers ==
    ASSUME LedgerInv, NEW r \in Requests,
           Finish(r) \/ BuildRaises(r) \/ Fail(r) \/ Deadline(r)
           \/ Disconnect(r)
    PROVE  Ledger(r)' /\ Touches(r)
<1>t. req[r] \in RequestType /\ req[r].hit \in BOOLEAN /\ TypeOK
  BY Typed DEF LedgerInv, RequestType
<1>0. ~ At(r, "closed") /\ Become(r, Closed(r)) /\ Runs(r)
  BY DEF Finish, BuildRaises, Fail, Failed, Deadline, Disconnect, At, PipelineNodes,
         LedgerInv, Ledger
<1>e. /\ <<"error">> \in Seq(Events) /\ <<"done">> \in Seq(Events)
      /\ Has(<<"error">>, "error") /\ ~ Has(<<"error">>, "done")
      /\ ~ Has(<<"done">>, "error")
  BY DEF Events, Has
<1>1. ASSUME NEW h \in BOOLEAN, Record(r, TRUE, h), Send(r, <<"error">>),
             Has(stream[r], "done") => h = req[r].hit
      PROVE  Ledger(r)' /\ Touches(r)
  BY <1>0, <1>1, <1>e, ClosingKeepsLedgers
<1>2. CASE Finish(r)
  <2>1. Send(r, <<"done">>)
    BY <1>2 DEF Finish
  <2>3. PICK h \in BOOLEAN : Record(r, FALSE, h) /\ (req[r].route = "stream" => h = req[r].hit)
    BY <1>2, <1>t DEF Finish
  <2> QED
    BY <1>0, <1>e, <2>1, <2>3, ClosingKeepsLedgers
<1>3. CASE Fail(r)
  BY <1>1, <1>3, <1>t DEF Fail, Failed
<1>6. CASE BuildRaises(r)
  <2>1. CASE Failed(r)
    BY <1>1, <1>t, <2>1 DEF Failed
  <2>2. CASE At(r, "answered") /\ req[r].route = "query" /\ Send(r, <<"error">>)
             /\ Record(r, FALSE, FALSE)
    BY <1>0, <1>e, <2>2, ClosingKeepsLedgers
  <2> QED
    BY <1>6, <2>1, <2>2 DEF BuildRaises
<1>4. CASE Deadline(r)
  <2>1. ~ Has(stream[r], "done")
    BY <1>0, <1>4 DEF Runs, Deadline, PipelineNodes
  <2> QED
    BY <1>1, <1>4, <2>1 DEF Deadline
<1>5. CASE Disconnect(r)
  <2>1. PICK h \in BOOLEAN : Record(r, FALSE, h) /\ (req[r].fast => h = TRUE)
    BY <1>5, <1>t DEF Disconnect
  <2>2. <<>> \in Seq(Events) /\ ~ Has(<<>>, "error") /\ ~ Has(<<>>, "done")
    BY DEF Events, Has
  <2>3. Send(r, <<>>)
    <3>1. stream \in [Requests -> Seq(Events)]
      BY <1>t DEF TypeOK, Events
    <3>2. stream[r] \o <<>> = stream[r]
      BY <3>1
    <3> QED
      BY <1>5, <3>1, <3>2 DEF Disconnect, Send
  <2>4. Has(stream[r], "done") => req[r].pc = "append"
    BY <1>0, <1>5 DEF Disconnect, Runs, PipelineNodes
  <2>5. Has(stream[r], "done") => h = req[r].hit
    BY <1>0, <1>t, <2>1, <2>4 DEF Runs
  <2> QED
    BY <1>0, <2>1, <2>2, <2>3, <2>5, ClosingKeepsLedgers
<1> QED
  BY <1>2, <1>3, <1>4, <1>5, <1>6

LEMMA LedgerInvStep ==
    ASSUME LedgerInv, TypeOK', [Next]_vars
    PROVE  LedgerInv'
<1>1. ASSUME NEW r \in Requests,
             \/ \E m \in Messages : Arrive(r, m)
             \/ Load(r) \/ ExactLookup(r) \/ EmitCached(r) \/ SendText(r) \/ FastAppend(r)
             \/ Pipeline(r) \/ Finish(r) \/ BuildRaises(r) \/ Fail(r) \/ Deadline(r) \/ Disconnect(r)
      PROVE  LedgerInv'
  <2>1. Ledger(r)' /\ Touches(r)
    <3>1. CASE (\E m \in Messages : Arrive(r, m)) \/ Load(r) \/ ExactLookup(r)
      BY <3>1, AdmissionKeepsLedgers
    <3>2. CASE EmitCached(r) \/ SendText(r) \/ FastAppend(r)
      BY <3>2, FastPathKeepsLedgers
    <3>3. CASE Pipeline(r)
      BY <3>3, NodeKeepsLedgers
    <3>4. CASE Finish(r) \/ BuildRaises(r) \/ Fail(r) \/ Deadline(r)
           \/ Disconnect(r)
      BY <3>4, EndsKeepLedgers
    <3> QED
      BY <1>1, <3>1, <3>2, <3>3, <3>4
  <2> QED
    BY <2>1, LedgersElsewhere DEF LedgerInv
<1>2. CASE UNCHANGED <<req, stream, recorded>>
  BY <1>2 DEF LedgerInv, Ledger, Closes, Runs, At
<1> QED
  BY <1>1, <1>2 DEF Next, Expire, Forget, Slide, vars

\* Every request is recorded once, when it is over, and a stream as its client saw
\* it: the metrics (routes.py:112-131 and :291) agree with the stream for any number of
\* concurrent requests.
THEOREM MetricsAgree == Spec => []MetricsMatchTheStream
<1>1. Init => LedgerInv
  <2>1. Init => TypeOK
    <3>1. Init => RouteInv
      BY RouteInvInit
    <3> QED
      BY <3>1 DEF RouteInv
  <2> QED
    BY <2>1 DEF Init, LedgerInv, Ledger, Runs, At, Has, Unsent
<1>2. LedgerInv => MetricsMatchTheStream
  BY DEF LedgerInv, Ledger, Runs, Closes, MetricsMatchTheStream, Sent, Has
<1>3. Spec => []TypeOK
  BY RouteTypes
<1>4. LedgerInv /\ TypeOK' /\ [Next]_vars => LedgerInv'
  BY LedgerInvStep
<1> QED
  BY <1>1, <1>2, <1>3, <1>4, PTL DEF Spec

-----------------------------------------------------------------------------
(* The order of a stream's events, and what a follow-up is written from.   *)

\* Nothing comes before its place in s; h: the stream is one of a cached answer.
Ordered(s, h) ==
    \A i, j \in 1 .. Len(s) : i < j =>
        /\ s[i] = "token" => s[j] # "source"
        /\ s[i] \in Terminal => s[i] = "done" /\ s[j] = "error" /\ h

\* Where no token has been sent yet.
Silent ==
    {"unsent", "refused", "load", "exact"} \cup
    (PipelineNodes \ {"synthesize", "cache_store", "append_memory"})

Orderly(r) ==
    /\ Ordered(stream[r], req[r].hit)
    /\ req[r].pc \in Silent => ~ Has(stream[r], "token")
    /\ At(r, "append") => Has(stream[r], "done")
    /\ At(r, "closed") => \/ Has(stream[r], "done") \/ Has(stream[r], "error")
                          \/ r \in lapsed

StreamInv == LedgerInv /\ \A r \in Requests : Orderly(r)

\* An answer of the pipeline that is ready, or out, is in its conversation.
Kept(q) ==
    (~ req[q].fast /\ req[q].session \in Sessions
        /\ (At(q, "answered") \/ Has(stream[q], "done"))) =>
            q \in memory[req[q].session] \cup lapsed

\* A request knows no more than the answers delivered in its conversation.
Follows(r) == req[r].known \subseteq Delivered(req[r].session)

SeenInv ==
    /\ LedgerInv
    /\ \A r \in Requests : Kept(r) /\ Follows(r)
    /\ PipelineAnswersAreSeen
-----------------------------------------------------------------------------
(* What a step does to its own request and stream.                         *)

LEMMA OrderedConcat ==
    ASSUME NEW s \in Seq(Events), NEW t \in Seq(Events), NEW h \in BOOLEAN,
           Ordered(s, h), Ordered(t, h),
           Has(s, "token") => ~ Has(t, "source"),
           Has(s, "error") => t = <<>>,
           Has(s, "done") => h /\ \A i \in 1 .. Len(t) : t[i] = "error"
    PROVE  Ordered(s \o t, h)
<1>1. /\ Len(s \o t) = Len(s) + Len(t) /\ Len(s) \in Nat /\ Len(t) \in Nat
      /\ \A i \in 1 .. Len(s) : (s \o t)[i] = s[i]
      /\ \A i \in 1 .. Len(t) : (s \o t)[Len(s) + i] = t[i]
  OBVIOUS
<1> DEFINE u == s \o t
<1>2. u \in Seq(Events)
  OBVIOUS
<1>3. \A i \in 1 .. Len(u) :
          \/ i \in 1 .. Len(s) /\ u[i] = s[i]
          \/ i - Len(s) \in 1 .. Len(t) /\ u[i] = t[i - Len(s)]
  <2> SUFFICES ASSUME NEW i \in 1 .. Len(u), i > Len(s)
               PROVE  i - Len(s) \in 1 .. Len(t) /\ u[i] = t[i - Len(s)]
    BY <1>1
  <2>1. i - Len(s) \in 1 .. Len(t) /\ Len(s) + (i - Len(s)) = i
    BY <1>1
  <2> QED
    BY <1>1, <2>1
<1>4. Len(u) = Len(s) + Len(t)
  BY <1>1
<1> SUFFICES ASSUME NEW i \in 1 .. Len(u), NEW j \in 1 .. Len(u), i < j
             PROVE  /\ u[i] = "token" => u[j] # "source"
                    /\ u[i] \in Terminal => u[i] = "done" /\ u[j] = "error" /\ h
  BY DEF Ordered
<1> HIDE DEF u
<1>5. CASE j <= Len(s)
  BY <1>1, <1>3, <1>5 DEF Ordered
<1>6. CASE i > Len(s)
  <2>1. /\ i - Len(s) \in 1 .. Len(t) /\ u[i] = t[i - Len(s)]
        /\ j - Len(s) \in 1 .. Len(t) /\ u[j] = t[j - Len(s)]
        /\ i - Len(s) < j - Len(s)
    BY <1>1, <1>3, <1>6
  <2> QED
    BY <2>1 DEF Ordered
<1>7. CASE i <= Len(s) /\ j > Len(s)
  <2>1. /\ i \in 1 .. Len(s) /\ u[i] = s[i]
        /\ j - Len(s) \in 1 .. Len(t) /\ u[j] = t[j - Len(s)]
    BY <1>1, <1>3, <1>7
  <2>2. u[i] = "token" => u[j] # "source"
    BY <2>1 DEF Has
  <2>3. u[i] # "error"
    <3>1. t # <<>>
      BY <2>1
    <3> QED
      BY <2>1, <3>1 DEF Has
  <2>4. u[i] = "done" => u[j] = "error" /\ h
    BY <2>1 DEF Has
  <2> QED
    BY <2>2, <2>3, <2>4 DEF Terminal
<1> QED
  BY <1>1, <1>5, <1>6, <1>7

\* A stream with no terminal event is in order whoever answered.
LEMMA OrderedWhoever ==
    ASSUME NEW s, NEW g, NEW h, Ordered(s, g), \A e \in Terminal : ~ Has(s, e)
    PROVE  Ordered(s, h)
  BY DEF Ordered, Has

\* The short runs of events a step sends are in order themselves.
LEMMA OrderedRuns ==
    ASSUME NEW h \in BOOLEAN
    PROVE  /\ Ordered(<<>>, h) /\ Ordered(<<"source">>, h) /\ Ordered(<<"token">>, h)
           /\ Ordered(<<"done">>, h) /\ Ordered(<<"error">>, h)
<1>1. Ordered(<<>>, h)
  BY DEF Ordered
<1>2. \A e : Ordered(<<e>>, h)
  BY DEF Ordered
<1> QED
  BY <1>1, <1>2

\* A node leaves the identity of its request alone, and the pipeline is left by
\* its last node, or by an exception.
LEMMA NodeMoves ==
    ASSUME TypeOK, NEW r \in Requests, Pipeline(r)
    PROVE  /\ req[r].pc \in PipelineNodes
           /\ req'[r].pc \in PipelineNodes \cup {"answered", "raised"}
           /\ req'[r].pc = "answered" => At(r, "append_memory")
           /\ req'[r].pc \in Silent => req[r].pc \in Silent
           /\ req'[r].session = req[r].session /\ req'[r].known = req[r].known
           /\ req'[r].fast = req[r].fast /\ req'[r].contextual = req[r].contextual
           /\ req'[r].hit = req[r].hit \/ At(r, "cache_check")
           /\ \A q \in Requests \ {r} : req'[q] = req[q]
<1>t. req[r] \in RequestType
  BY Typed
<1> DEFINE Moved(s) ==
              /\ s.pc \in PipelineNodes \cup {"answered", "raised"}
              /\ s.pc = "answered" => At(r, "append_memory")
              /\ s.pc \in Silent => req[r].pc \in Silent
              /\ s.session = req[r].session /\ s.known = req[r].known
              /\ s.fast = req[r].fast /\ s.contextual = req[r].contextual
              /\ s.hit = req[r].hit \/ At(r, "cache_check")
<1>0. /\ \A s : Become(r, s) => req'[r] = s /\ \A q \in Requests \ {r} : req'[q] = req[q]
      /\ req[r].pc \in PipelineNodes
  BY DEF Become, TypeOK, Pipeline, Node, Classify, Embed, CacheCheck, RateLimit, RateAdd, Work,
         SynthesizeToken, Synthesize, CacheStore, AppendMemory, At, PipelineNodes
<1> SUFFICES \E s : Become(r, s) /\ Moved(s)
  BY <1>0
<1>g. ASSUME NEW l \in PipelineNodes \cup {"answered", "raised"}, Goto(r, l),
             l = "answered" => At(r, "append_memory"),
             l \in Silent => req[r].pc \in Silent
      PROVE  \E s : Become(r, s) /\ Moved(s)
  <2>1. Moved([req[r] EXCEPT !.pc = l])
    BY <1>t, <1>g DEF RequestType
  <2> QED
    BY <1>g, <2>1 DEF Goto
<1>1. CASE Classify(r)
  <2>1. PICK c \in BOOLEAN, q \in {req[r].meaning, req[r].text} :
            \/ Become(r, [req[r] EXCEPT !.pc = "embed", !.classified = TRUE,
                                        !.standalone = q])
            \/ Become(r, [req[r] EXCEPT !.pc = "embed", !.standalone = q])
    BY <1>1 DEF Classify
  <2>2. /\ Moved([req[r] EXCEPT !.pc = "embed", !.classified = TRUE, !.standalone = q])
        /\ Moved([req[r] EXCEPT !.pc = "embed", !.standalone = q])
    BY <1>t, <1>1 DEF RequestType, Classify, At, Silent, PipelineNodes
  <2> QED
    BY <2>1, <2>2
<1>2. CASE Embed(r)
  BY <1>2, <1>g DEF Embed, At, Silent, PipelineNodes
<1>3. CASE CacheCheck(r)
  <2>1. ASSUME NEW a
        PROVE  Moved([req[r] EXCEPT !.pc = "cache_store", !.hit = TRUE, !.answer = a])
    BY <1>t, <1>3 DEF RequestType, CacheCheck, At, Silent, PipelineNodes
  <2>2. CASE Goto(r, "rate_limit")
    BY <1>3, <1>g, <2>2 DEF CacheCheck, At, Silent, PipelineNodes
  <2> HIDE DEF Moved
  <2> QED
    BY <1>3, <2>1, <2>2 DEF CacheCheck
<1>4. CASE RateLimit(r)
  <2>1. ASSUME NEW a
        PROVE  Moved([req[r] EXCEPT !.pc = "cache_store", !.answer = a])
    BY <1>t DEF RequestType, Silent, PipelineNodes
  <2>2. Workers(r) \subseteq PipelineNodes /\ req[r].pc \in Silent
    BY <1>4 DEF Workers, RateLimit, At, Silent, PipelineNodes
  <2>3. ASSUME NEW l \in Workers(r), Goto(r, l)
        PROVE  \E s : Become(r, s) /\ Moved(s)
    <3>1. l # "answered"
      BY <2>2 DEF PipelineNodes
    <3> QED
      BY <1>g, <2>2, <2>3, <3>1
  <2>4. CASE Goto(r, "rate_add")
    BY <1>g, <2>2, <2>4 DEF PipelineNodes
  <2> HIDE DEF Moved
  <2> QED
    BY <1>4, <2>1, <2>3, <2>4 DEF RateLimit
<1>a. CASE RateAdd(r)
  BY <1>a, <1>g DEF RateAdd, Workers, At, Silent, PipelineNodes
<1>5. CASE Work(r)
  BY <1>5, <1>g DEF Work, Silent, PipelineNodes
<1>6. CASE SynthesizeToken(r)
  <2>1. Moved([req[r] EXCEPT !.live = TRUE])
    BY <1>t, <1>6 DEF RequestType, SynthesizeToken, At, Silent, PipelineNodes
  <2> QED
    BY <1>6, <2>1 DEF SynthesizeToken
<1>7. CASE Synthesize(r)
  <2>1. ASSUME NEW a, NEW v
        PROVE  /\ Moved([req[r] EXCEPT !.pc = "cache_store", !.answer = a])
               /\ Moved([req[r] EXCEPT !.pc = "cache_store", !.live = v, !.answer = a])
    BY <1>t DEF RequestType, Silent, PipelineNodes
  <2> HIDE DEF Moved
  <2> QED
    BY <1>7, <2>1 DEF Synthesize
<1>8. CASE CacheStore(r)
  BY <1>8, <1>g DEF CacheStore, Silent, PipelineNodes
<1>9. CASE AppendMemory(r)
  BY <1>9, <1>g DEF AppendMemory, Silent, PipelineNodes
<1> QED
  BY <1>1, <1>2, <1>3, <1>4, <1>5, <1>6, <1>7, <1>8, <1>9, <1>a DEF Pipeline, Node

\* What a node sends.
LEMMA NodeSends ==
    ASSUME TypeOK, NEW r \in Requests, Pipeline(r)
    PROVE  \E ys \in {<<>>, <<"source">>, <<"token">>} :
              /\ stream' = [stream EXCEPT ![r] = @ \o ys]
              /\ ys = <<"source">> => req[r].pc \in Silent
              /\ ys = <<"token">> => req[r].pc \notin Silent
<1>1. stream \in [Requests -> Seq(Events)] /\ \A s \in Seq(Events) : s \o <<>> = s
  BY DEF TypeOK, Events
<1>2. stream = [stream EXCEPT ![r] = @ \o <<>>]
  BY <1>1
<1>3. <<"source">> # <<"token">>
  OBVIOUS
<1>4. CASE stream' = stream
  BY <1>2, <1>4
<1>5. CASE req[r].pc \in Silent /\ Yield(r, <<"source">>)
  BY <1>2, <1>3, <1>5 DEF Yield
<1>6. CASE req[r].pc \notin Silent /\ (Yield(r, <<"token">>) \/ Yield(r, <<>>))
  BY <1>2, <1>3, <1>6 DEF Yield
<1>7. ASSUME At(r, "synthesize")
      PROVE  req[r].pc \notin Silent
  BY <1>7 DEF At, Silent
<1>8. stream' = stream \/ (req[r].pc \in {"retrieval", "sql", "hybrid"} /\ Yield(r, <<"source">>))
         \/ (At(r, "synthesize") /\ (Yield(r, <<"token">>) \/ Yield(r, <<>>)))
  BY DEF Pipeline, Node, Classify, Embed, CacheCheck, RateLimit, RateAdd, Work, SynthesizeToken,
         Synthesize, CacheStore, AppendMemory
<1>9. req[r].pc \in {"retrieval", "sql", "hybrid"} => req[r].pc \in Silent
  BY DEF Silent, PipelineNodes
<1> QED
  BY <1>4, <1>5, <1>6, <1>7, <1>8, <1>9

LEMMA ArriveMoves ==
    ASSUME TypeOK, NEW r \in Requests, NEW m \in Messages, Arrive(r, m)
    PROVE  /\ At(r, "unsent") /\ req'[r].pc \in {"load", "refused"}
           /\ req'[r].known \subseteq Delivered(req'[r].session)
           /\ \A q \in Requests \ {r} : req'[q] = req[q]
           /\ UNCHANGED <<memory, stream, recorded, lapsed>>
<1>0. \A s : Become(r, s) => req'[r] = s /\ \A q \in Requests \ {r} : req'[q] = req[q]
  BY DEF Become, TypeOK
<1> DEFINE Sane(s) == s.pc \in {"load", "refused"} /\ s.known \subseteq Delivered(s.session)
           sent == [Unsent EXCEPT !.route = m.route, !.user = m.user,
                                  !.known = Delivered(m.session),
                                  !.session = m.session, !.text = m.text]
<1>1. \A t : Sane([sent EXCEPT !.pc = "load", !.meaning = t])
  BY DEF Unsent
<1>2. Sane([Unsent EXCEPT !.pc = "refused"])
  BY DEF Unsent
<1>3. \E s : Become(r, s) /\ Sane(s)
  <2> HIDE DEF Sane
  <2> QED
    BY <1>1, <1>2 DEF Arrive
<1> QED
  BY <1>0, <1>3 DEF Arrive

\* The memory is looked at once.  A request taken for the first of its
\* conversation has found none.
LEMMA LoadMoves ==
    ASSUME TypeOK, NEW r \in Requests, Load(r)
    PROVE  /\ At(r, "load") /\ req'[r].pc \in {"exact", "classify", "raised"}
           /\ req'[r].session = req[r].session /\ req'[r].known = req[r].known
           /\ req'[r].fast = req[r].fast /\ req'[r].hit = req[r].hit
           /\ (req'[r].pc # "raised" /\ ~ req'[r].contextual /\ req[r].session \in Sessions) =>
                  memory[req[r].session] = {}
           /\ \A q \in Requests \ {r} : req'[q] = req[q]
           /\ UNCHANGED <<memory, stream, recorded, lapsed>>
<1>t. req[r] \in RequestType
  BY Typed
<1>0. \A s : Become(r, s) => req'[r] = s /\ \A q \in Requests \ {r} : req'[q] = req[q]
  BY DEF Become, TypeOK
<1> DEFINE ctx == req[r].session \in Sessions /\ memory[req[r].session] # {}
           l == IF req[r].route = "stream" /\ ~ ctx THEN "exact" ELSE "classify"
           Sane(s) == /\ s.pc \in {"exact", "classify", "raised"}
                      /\ s.session = req[r].session /\ s.known = req[r].known
                      /\ s.fast = req[r].fast /\ s.hit = req[r].hit
                      /\ s.pc # "raised" => s.contextual = ctx
<1>1. Sane([req[r] EXCEPT !.contextual = ctx, !.pc = l])
  <2>1. l \in {"exact", "classify"}
    OBVIOUS
  <2> HIDE DEF l, ctx
  <2> QED
    BY <1>t, <2>1 DEF RequestType
<1>2. Sane([req[r] EXCEPT !.pc = "raised"])
  BY <1>t DEF RequestType
<1>3. \E s : Become(r, s) /\ Sane(s)
  <2> HIDE DEF Sane
  <2> QED
    BY <1>1, <1>2 DEF Load, Goto
<1> QED
  BY <1>0, <1>3 DEF Load

LEMMA ExactMoves ==
    ASSUME TypeOK, NEW r \in Requests, ExactLookup(r)
    PROVE  /\ At(r, "exact") /\ req'[r].pc \in {"emit", "classify", "raised"}
           /\ req'[r].session = req[r].session /\ req'[r].known = req[r].known
           /\ req'[r].contextual = req[r].contextual
           /\ \A q \in Requests \ {r} : req'[q] = req[q]
           /\ UNCHANGED <<memory, stream, recorded, lapsed>>
<1>t. req[r] \in RequestType
  BY Typed
<1>0. \A s : Become(r, s) => req'[r] = s /\ \A q \in Requests \ {r} : req'[q] = req[q]
  BY DEF Become, TypeOK
<1> DEFINE Sane(s) == /\ s.pc \in {"emit", "classify", "raised"}
                      /\ s.session = req[r].session /\ s.known = req[r].known
                      /\ s.contextual = req[r].contextual
<1>1. \A a : Sane([req[r] EXCEPT !.pc = "emit", !.hit = TRUE, !.fast = TRUE, !.answer = a])
  BY <1>t DEF RequestType
<1>2. \A l \in {"classify", "raised"} : Sane([req[r] EXCEPT !.pc = l])
  BY <1>t DEF RequestType
<1>3. \E s : Become(r, s) /\ Sane(s)
  <2> HIDE DEF Sane
  <2> QED
    BY <1>1, <1>2 DEF ExactLookup, Goto
<1> QED
  BY <1>0, <1>3 DEF ExactLookup

\* The steps that send an answer go on to a place of their own, or are the last.
LEMMA AnswerSteps ==
    ASSUME NEW r \in Requests, EmitCached(r) \/ SendText(r) \/ FastAppend(r)
    PROVE  \/ \E l \in {"emit", "append", "answered", "raised"} : Goto(r, l)
           \/ Become(r, Closed(r))
  BY Emits DEF FastAppend

LEMMA FastMoves ==
    ASSUME TypeOK, NEW r \in Requests, NEW l, Goto(r, l)
    PROVE  /\ req'[r].pc = l
           /\ req'[r].session = req[r].session /\ req'[r].known = req[r].known
           /\ req'[r].fast = req[r].fast /\ req'[r].hit = req[r].hit
           /\ \A q \in Requests \ {r} : req'[q] = req[q]
<1>1. req[r] \in RequestType
  BY Typed
<1> QED
  BY <1>1 DEF Goto, Become, TypeOK, RequestType

LEMMA CloseMoves ==
    ASSUME TypeOK, NEW r \in Requests, Become(r, Closed(r))
    PROVE  /\ req'[r].pc = "closed" /\ req'[r].known = {}
           /\ req'[r].session = req[r].session
           /\ req'[r].fast = req[r].fast /\ req'[r].hit = req[r].hit
           /\ \A q \in Requests \ {r} : req'[q] = req[q]
<1>1. req'[r] = Closed(r) /\ \A q \in Requests \ {r} : req'[q] = req[q]
  BY DEF Become, TypeOK
<1> QED
  BY <1>1 DEF Closed, Unsent
-----------------------------------------------------------------------------
(* The order of events.                                                    *)

\* What r sends next comes in order, and no event is taken back.
LEMMA SendsInOrder ==
    ASSUME LedgerInv, NEW r \in Requests, Orderly(r), ~ At(r, "closed"),
           NEW ys \in Seq(Events), stream' = [stream EXCEPT ![r] = @ \o ys],
           req'[r].hit \in BOOLEAN,
           Has(stream[r], "done") => req'[r].hit = req[r].hit,
           Ordered(ys, req'[r].hit),
           Has(stream[r], "token") => ~ Has(ys, "source"),
           Has(stream[r], "done") => \A i \in 1 .. Len(ys) : ys[i] = "error"
    PROVE  /\ Ordered(stream'[r], req'[r].hit)
           /\ \A e : Has(stream'[r], e) <=> Has(stream[r], e) \/ Has(ys, e)
<1>1. /\ stream[r] \in Seq(Events) /\ stream'[r] = stream[r] \o ys
      /\ ~ Has(stream[r], "error")
      /\ Has(stream[r], "done") => req[r].hit
  BY DEF LedgerInv, TypeOK, Events, Ledger, Runs
<1>2. Ordered(stream[r], req'[r].hit)
  BY <1>1, OrderedWhoever DEF Orderly, Terminal
<1>3. Ordered(stream[r] \o ys, req'[r].hit)
  BY <1>1, <1>2, OrderedConcat
<1>4. \A e : Has(stream[r] \o ys, e) <=> Has(stream[r], e) \/ Has(ys, e)
  BY <1>1, HasOneOf
<1> QED
  BY <1>1, <1>3, <1>4

LEMMA NodeIsOrderly ==
    ASSUME LedgerInv, TypeOK', NEW r \in Requests, Orderly(r), Pipeline(r)
    PROVE  Orderly(r)'
<1>t. TypeOK /\ req'[r].hit \in BOOLEAN
  BY DEF LedgerInv, TypeOK, RequestType
<1>1. /\ req[r].pc \in PipelineNodes
      /\ req'[r].pc \in PipelineNodes \cup {"answered", "raised"}
      /\ req'[r].pc \in Silent => req[r].pc \in Silent
  BY <1>t, NodeMoves
<1>2. PICK ys \in {<<>>, <<"source">>, <<"token">>} :
              /\ stream' = [stream EXCEPT ![r] = @ \o ys]
              /\ ys = <<"source">> => req[r].pc \in Silent
              /\ ys = <<"token">> => req[r].pc \notin Silent
  BY <1>t, NodeSends
<1>3. ~ At(r, "closed") /\ ~ Has(stream[r], "done")
  BY <1>1 DEF LedgerInv, Ledger, Runs, At, PipelineNodes
<1>4. /\ ys \in Seq(Events) /\ Ordered(ys, req'[r].hit)
      /\ Has(ys, "token") => ys = <<"token">>
      /\ Has(ys, "source") => ys = <<"source">>
  <2>1. CASE ys = <<>>
    BY <1>t, <2>1, OrderedRuns DEF Has
  <2>2. CASE ys = <<"source">>
    BY <1>t, <2>2, OrderedRuns DEF Has, Events
  <2>3. CASE ys = <<"token">>
    BY <1>t, <2>3, OrderedRuns DEF Has, Events
  <2> QED
    BY <2>1, <2>2, <2>3
<1>5. Has(stream[r], "token") => ~ Has(ys, "source")
  BY <1>2, <1>4 DEF Orderly
<1>6. /\ Ordered(stream'[r], req'[r].hit)
      /\ Has(stream'[r], "token") <=> Has(stream[r], "token") \/ Has(ys, "token")
  BY <1>2, <1>3, <1>4, <1>5, <1>t, SendsInOrder
<1>7. req'[r].pc \notin {"append", "closed"}
  BY <1>1 DEF PipelineNodes
<1> QED
  BY <1>1, <1>2, <1>4, <1>6, <1>7 DEF Orderly, At

LEMMA AdmissionIsOrderly ==
    ASSUME LedgerInv, TypeOK', NEW r \in Requests, Orderly(r),
           (\E m \in Messages : Arrive(r, m)) \/ Load(r) \/ ExactLookup(r)
    PROVE  Orderly(r)'
<1>1. /\ req[r].pc \in {"unsent", "load", "exact"}
      /\ req'[r].pc \notin {"append", "closed"}
      /\ stream' = stream
  BY ArriveMoves, LoadMoves, ExactMoves DEF LedgerInv, At
<1>2. \A e \in Terminal : ~ Has(stream[r], e)
  BY <1>1 DEF LedgerInv, Ledger, Runs, At, Terminal
<1>3. ~ Has(stream[r], "token")
  BY <1>1 DEF Orderly, Silent
<1>4. Ordered(stream[r], req'[r].hit)
  BY <1>2, OrderedWhoever DEF Orderly
<1> QED
  BY <1>1, <1>3, <1>4 DEF Orderly, At

\* A request that is over has been sent a terminal event, or nobody is there to
\* be sent one.
LEMMA CloseIsOrderly ==
    ASSUME LedgerInv, TypeOK', NEW r \in Requests, Orderly(r), ~ At(r, "closed"),
           Become(r, Closed(r)),
           NEW ys \in Seq(Events), stream' = [stream EXCEPT ![r] = @ \o ys],
           Ordered(ys, req[r].hit), ~ Has(ys, "source"),
           Has(stream[r], "done") => \A i \in 1 .. Len(ys) : ys[i] = "error",
           \/ Has(stream[r], "done") \/ Has(ys, "done") \/ Has(ys, "error")
           \/ r \in lapsed'
    PROVE  Orderly(r)'
<1>1. req'[r].pc = "closed" /\ req'[r].hit = req[r].hit
  BY CloseMoves DEF LedgerInv
<1>2. req'[r].hit \in BOOLEAN
  BY DEF TypeOK, RequestType
<1>3. /\ Ordered(stream'[r], req'[r].hit)
      /\ \A e : Has(stream'[r], e) <=> Has(stream[r], e) \/ Has(ys, e)
  BY <1>1, <1>2, SendsInOrder
<1> QED
  BY <1>1, <1>3 DEF Orderly, At, Silent, PipelineNodes

\* The same when nothing is sent.
LEMMA SilentCloseIsOrderly ==
    ASSUME LedgerInv, NEW r \in Requests, Orderly(r), Become(r, Closed(r)),
           UNCHANGED stream, Has(stream[r], "done") \/ r \in lapsed'
    PROVE  Orderly(r)'
<1>1. req'[r].pc = "closed" /\ req'[r].hit = req[r].hit
  BY CloseMoves DEF LedgerInv
<1> QED
  BY <1>1 DEF Orderly, At, Silent, PipelineNodes

LEMMA FastPathIsOrderly ==
    ASSUME LedgerInv, TypeOK', NEW r \in Requests, Orderly(r),
           EmitCached(r) \/ SendText(r) \/ FastAppend(r)
    PROVE  Orderly(r)'
<1>t. TypeOK /\ req'[r].hit \in BOOLEAN /\ req[r].hit \in BOOLEAN
  BY DEF LedgerInv, TypeOK, RequestType
<1>1. CASE EmitCached(r) \/ SendText(r)
  <2>1. PICK e \in {"source", "token", "done"}, l \in {"emit", "append", "answered"} :
            /\ Send(r, <<e>>) /\ Goto(r, l)
            /\ req[r].pc = IF l = "answered" THEN "answered" ELSE "emit"
            /\ e = "done" <=> l = "append"
            /\ e = "source" => stream[r] = <<>>
    BY <1>1, Emits
  <2>2. /\ stream' = [stream EXCEPT ![r] = @ \o <<e>>]
        /\ <<e>> \in Seq(Events) /\ Ordered(<<e>>, req'[r].hit)
        /\ Has(<<e>>, "done") <=> e = "done"
        /\ Has(<<e>>, "source") <=> e = "source"
    BY <2>1 DEF Send, Events, Ordered, Has
  <2>3. req'[r].pc = l /\ req'[r].hit = req[r].hit
    BY <1>t, <2>1, FastMoves
  <2>4. ~ At(r, "closed") /\ ~ Has(stream[r], "done")
    BY <2>1 DEF LedgerInv, Ledger, Runs, At
  <2>5. Has(stream[r], "token") => ~ Has(<<e>>, "source")
    BY <2>1, <2>2 DEF Has
  <2>6. /\ Ordered(stream'[r], req'[r].hit)
        /\ Has(stream'[r], "done") <=> Has(stream[r], "done") \/ Has(<<e>>, "done")
    BY <1>t, <2>2, <2>4, <2>5, SendsInOrder
  <2> QED
    BY <2>1, <2>2, <2>3, <2>6 DEF Orderly, At, Silent, PipelineNodes
<1>2. CASE FastAppend(r)
  <2>1. At(r, "append") /\ stream' = stream /\ Has(stream[r], "done")
    BY <1>2 DEF FastAppend, Orderly
  <2>2. CASE Goto(r, "raised")
    <3>1. req'[r].pc = "raised" /\ req'[r].hit = req[r].hit
      BY <1>t, <2>2, FastMoves
    <3> QED
      BY <2>1, <3>1 DEF Orderly, At, Silent, PipelineNodes
  <2>3. CASE Become(r, Closed(r))
    BY <2>1, <2>3, SilentCloseIsOrderly
  <2> QED
    BY <1>2, <2>2, <2>3 DEF FastAppend
<1> QED
  BY <1>1, <1>2

LEMMA EndsAreOrderly ==
    ASSUME LedgerInv, TypeOK', NEW r \in Requests, Orderly(r),
           Finish(r) \/ BuildRaises(r) \/ Fail(r) \/ Deadline(r)
           \/ Disconnect(r)
    PROVE  Orderly(r)'
<1>t. TypeOK /\ req[r].hit \in BOOLEAN
  BY DEF LedgerInv, TypeOK, RequestType
<1>0. ~ At(r, "closed") /\ Become(r, Closed(r)) /\ Runs(r)
  BY DEF Finish, BuildRaises, Fail, Failed, Deadline, Disconnect, At, PipelineNodes,
         LedgerInv, Ledger
<1>1. CASE Finish(r)
  <2>1. stream' = [stream EXCEPT ![r] = @ \o <<"done">>]
    BY <1>1 DEF Finish, Send
  <2>2. /\ <<"done">> \in Seq(Events) /\ Ordered(<<"done">>, req[r].hit)
        /\ ~ Has(<<"done">>, "source") /\ Has(<<"done">>, "done")
    BY <1>t, OrderedRuns DEF Events, Has
  <2>3. ~ Has(stream[r], "done")
    BY <1>0, <1>1 DEF Finish, At, Runs
  <2> QED
    BY <1>0, <2>1, <2>2, <2>3, CloseIsOrderly
<1>2. CASE Fail(r) \/ BuildRaises(r) \/ Deadline(r)
  <2>1. stream' = [stream EXCEPT ![r] = @ \o <<"error">>]
    BY <1>2 DEF Fail, BuildRaises, Failed, Deadline, Send
  <2>2. /\ <<"error">> \in Seq(Events) /\ Ordered(<<"error">>, req[r].hit)
        /\ ~ Has(<<"error">>, "source") /\ Has(<<"error">>, "error")
        /\ \A i \in 1 .. Len(<<"error">>) : <<"error">>[i] = "error"
    BY <1>t, OrderedRuns DEF Events, Has
  <2> QED
    BY <1>0, <2>1, <2>2, CloseIsOrderly
<1>3. CASE Disconnect(r)
  <2>1. UNCHANGED stream /\ r \in lapsed'
    BY <1>3 DEF Disconnect
  <2> QED
    BY <1>0, <2>1, SilentCloseIsOrderly
<1> QED
  BY <1>1, <1>2, <1>3

\* What has lapsed stays so.
LEMMA LapsesAreFinal ==
    ASSUME [Next]_vars
    PROVE  lapsed \subseteq lapsed'
<1>1. ASSUME NEW r \in Requests,
             \/ \E m \in Messages : Arrive(r, m)
             \/ Load(r) \/ ExactLookup(r) \/ EmitCached(r) \/ SendText(r) \/ FastAppend(r)
             \/ Pipeline(r) \/ Finish(r) \/ BuildRaises(r) \/ Fail(r) \/ Deadline(r) \/ Disconnect(r)
      PROVE  lapsed \subseteq lapsed'
  BY <1>1 DEF Arrive, Load, ExactLookup, EmitCached, SendText, FastAppend, Pipeline,
              Finish, BuildRaises, Fail, Deadline, Disconnect
<1> QED
  BY <1>1 DEF Next, Expire, Forget, Slide, vars

LEMMA StreamInvStep ==
    ASSUME StreamInv, TypeOK', [Next]_vars
    PROVE  StreamInv'
<1>0. LedgerInv /\ LedgerInv'
  BY LedgerInvStep DEF StreamInv
<1>1. ASSUME NEW r \in Requests,
             \/ \E m \in Messages : Arrive(r, m)
             \/ Load(r) \/ ExactLookup(r) \/ EmitCached(r) \/ SendText(r) \/ FastAppend(r)
             \/ Pipeline(r) \/ Finish(r) \/ BuildRaises(r) \/ Fail(r) \/ Deadline(r) \/ Disconnect(r)
      PROVE  StreamInv'
  <2>1. Orderly(r)
    BY DEF StreamInv
  <2>2. Touches(r) /\ Orderly(r)'
    <3>1. CASE (\E m \in Messages : Arrive(r, m)) \/ Load(r) \/ ExactLookup(r)
      BY <1>0, <2>1, <3>1, AdmissionKeepsLedgers, AdmissionIsOrderly
    <3>2. CASE EmitCached(r) \/ SendText(r) \/ FastAppend(r)
      BY <1>0, <2>1, <3>2, FastPathKeepsLedgers, FastPathIsOrderly
    <3>3. CASE Pipeline(r)
      BY <1>0, <2>1, <3>3, NodeKeepsLedgers, NodeIsOrderly
    <3>4. CASE Finish(r) \/ BuildRaises(r) \/ Fail(r) \/ Deadline(r)
           \/ Disconnect(r)
      BY <1>0, <2>1, <3>4, EndsKeepLedgers, EndsAreOrderly
    <3> QED
      BY <1>1, <3>1, <3>2, <3>3, <3>4
  <2>3. ASSUME NEW q \in Requests \ {r}
        PROVE  Orderly(q)'
    <3>1. req'[q] = req[q] /\ stream'[q] = stream[q] /\ Orderly(q)
      BY <2>2 DEF Touches, StreamInv
    <3> QED
      BY <3>1, LapsesAreFinal DEF Orderly, At
  <2> QED
    BY <1>0, <2>2, <2>3 DEF StreamInv
<1>2. CASE UNCHANGED <<req, stream, recorded>>
  BY <1>0, <1>2, LapsesAreFinal DEF StreamInv, Orderly, At
<1> QED
  BY <1>1, <1>2 DEF Next, Expire, Forget, Slide, vars

LEMMA LedgerInvInit == Init => LedgerInv
<1>1. Init => TypeOK
  BY RouteInvInit DEF RouteInv
<1> QED
  BY <1>1 DEF Init, LedgerInv, Ledger, Runs, At, Has, Unsent

\* Whatever the interleaving of nodes, deadlines, failures and departures, every
\* client reads its sources before the text and one terminal event last, unless
\* it left (routes.py:154-298).
THEOREM StreamsStayWellFormed == Spec => []StreamsAreWellFormed
<1>1. Init => StreamInv
  BY LedgerInvInit DEF Init, StreamInv, Orderly, Ordered, Has, At, Unsent
<1>2. Spec => []TypeOK
  BY RouteTypes
<1>3. StreamInv /\ TypeOK' /\ [Next]_vars => StreamInv'
  BY StreamInvStep
<1>4. StreamInv => StreamsAreWellFormed
  <2> SUFFICES ASSUME StreamInv, NEW r \in Requests
               PROVE  WellFormed(r)
    BY DEF StreamsAreWellFormed
  <2>1. Orderly(r) /\ Ledger(r)
    BY DEF StreamInv, LedgerInv
  <2>2. /\ Sent(r, "done") <=> Has(stream[r], "done")
        /\ Sent(r, "error") <=> Has(stream[r], "error")
    BY DEF Sent, Has
  <2>3. At(r, "closed") => (recorded[r][1].error => Sent(r, "error"))
    BY <2>1, <2>2 DEF Ledger, Closes
  <2> QED
    BY <2>1, <2>2, <2>3 DEF WellFormed, Orderly, Ordered
<1> QED
  BY <1>1, <1>2, <1>3, <1>4, PTL DEF Spec

-----------------------------------------------------------------------------
(* What a follow-up knows of.                                              *)

RequestStep(r) ==
    \/ \E m \in Messages : Arrive(r, m)
    \/ Load(r) \/ ExactLookup(r) \/ EmitCached(r) \/ SendText(r) \/ FastAppend(r) \/ Pipeline(r)
    \/ Finish(r) \/ BuildRaises(r) \/ Fail(r) \/ Deadline(r)
           \/ Disconnect(r)

LEMMA RememberGrows ==
    ASSUME TypeOK, NEW r \in Requests, Remember(r)
    PROVE  /\ \A s \in Sessions : memory[s] \subseteq memory'[s]
           /\ req[r].session \in Sessions => r \in memory'[req[r].session]
  BY DEF TypeOK, Remember

\* A request adds to the memories, and takes nothing out of them.
LEMMA RequestsRemember ==
    ASSUME TypeOK, NEW r \in Requests, RequestStep(r)
    PROVE  \A s \in Sessions : memory[s] \subseteq memory'[s]
<1>1. memory' = memory \/ Remember(r)
  BY DEF RequestStep, Arrive, Load, ExactLookup, EmitCached, SendText, FastAppend,
         Pipeline, Node, Classify, Embed, CacheCheck, RateLimit, RateAdd, Work,
         SynthesizeToken, Synthesize, CacheStore, AppendMemory, Finish, BuildRaises, Fail,
         Deadline, Disconnect
<1> QED
  BY <1>1, RememberGrows

\* A request that has been answered in full keeps its conversation, and cannot
\* take its answer back.
LEMMA AnsweredIsSettled ==
    ASSUME LedgerInv, NEW r \in Requests, RequestStep(r), Has(stream[r], "done")
    PROVE  /\ req'[r].session = req[r].session /\ req'[r].fast = req[r].fast
           /\ Has(stream'[r], "done")
<1>t. TypeOK
  BY DEF LedgerInv
<1>1. req[r].pc \in {"append", "raised", "closed"}
  BY DEF LedgerInv, Ledger, Runs, At
<1>2. FastAppend(r) \/ Fail(r) \/ Disconnect(r)
  <2>1. ~ Pipeline(r)
    BY <1>1, <1>t, NodeMoves DEF PipelineNodes
  <2> QED
    BY <1>1, <2>1 DEF RequestStep, Arrive, Load, ExactLookup, EmitCached, SendText, Finish,
        BuildRaises, Deadline, At, PipelineNodes
<1>3. Become(r, Closed(r)) \/ Goto(r, "raised")
  BY <1>2 DEF FastAppend, Fail, Failed, Disconnect
<1>4. req'[r].session = req[r].session /\ req'[r].fast = req[r].fast
  BY <1>3, <1>t, CloseMoves, FastMoves
<1>5. CASE stream' = stream
  BY <1>4, <1>5
<1>6. CASE Send(r, <<"error">>)
  <2>1. <<"error">> \in Seq(Events)
    BY DEF Events
  <2>2. Has(stream'[r], "done")
    BY <1>6, <1>t, <2>1, SentByNow DEF Send
  <2> QED
    BY <1>4, <2>2
<1> QED
  BY <1>2, <1>5, <1>6 DEF FastAppend, Fail, Failed, Disconnect

\* What has been delivered in a conversation stays delivered, by the same path.
DeliveriesStay ==
    \A q \in Requests : Has(stream[q], "done") =>
        /\ Has(stream'[q], "done")
        /\ req'[q].session = req[q].session /\ req'[q].fast = req[q].fast

LEMMA DeliveredIs ==
    \A s : Delivered(s) =
               {q \in Requests : req[q].session = s /\ s # NoSession /\ Has(stream[q], "done")}
  BY DEF Delivered, Sent, Has

LEMMA DeliveredGrows ==
    ASSUME DeliveriesStay, NEW s
    PROVE  Delivered(s) \subseteq Delivered(s)'
<1>1. Delivered(s)' = {q \in Requests : req'[q].session = s /\ s # NoSession
                                        /\ Has(stream'[q], "done")}
  BY DEF Delivered, Sent, Has
<1> QED
  BY <1>1, DeliveredIs DEF DeliveriesStay

\* A step of one request leaves the answers of the others in their conversations.
LEMMA SeenElsewhere ==
    ASSUME SeenInv, DeliveriesStay, NEW q \in Requests,
           req'[q] = req[q], stream'[q] = stream[q],
           \A s \in Sessions : memory[s] \subseteq memory'[s] \cup lapsed',
           lapsed \subseteq lapsed'
    PROVE  /\ Kept(q)' /\ Follows(q)'
           /\ (req'[q].pc \in PipelineNodes \cup {"exact"} /\ ~ req'[q].contextual) =>
                  {p \in req'[q].known : ~ req'[p].fast} \subseteq lapsed'
<1>1. Kept(q) /\ Follows(q)
  BY DEF SeenInv
<1>2. Kept(q)'
  BY <1>1 DEF Kept, At
<1>3. Follows(q)'
  BY <1>1, DeliveredGrows DEF Follows
<1>4. \A p \in req[q].known : req'[p].fast = req[p].fast
  BY <1>1, DeliveredIs DEF Follows, DeliveriesStay
<1> QED
  BY <1>2, <1>3, <1>4 DEF SeenInv, PipelineAnswersAreSeen
\* The answer of r is remembered, or given up as lapsed, before it is delivered.
LEMMA OwnAnswerIsKept ==
    ASSUME SeenInv, TypeOK', NEW r \in Requests, RequestStep(r)
    PROVE  Kept(r)'
<1>t. TypeOK /\ Kept(r) /\ LedgerInv /\ memory' \in [Sessions -> SUBSET Requests]
  BY DEF SeenInv, LedgerInv, TypeOK
<1>s. Has(stream[r], "done") \/ req[r].pc \in {"emit", "append"} =>
          req[r].pc \in {"emit", "append", "raised", "closed"}
  BY <1>t DEF LedgerInv, Ledger, Runs, At
<1>f. req[r].pc \in {"emit", "append"} => req[r].fast
  BY <1>t DEF LedgerInv, Ledger, Runs, At
<1>1. CASE (\E m \in Messages : Arrive(r, m)) \/ Load(r) \/ ExactLookup(r)
  <2>1. /\ req[r].pc \in {"unsent", "load", "exact"} /\ req'[r].pc # "answered"
        /\ stream' = stream
    BY <1>1, <1>t, ArriveMoves, LoadMoves, ExactMoves DEF At
  <2> QED
    BY <1>s, <2>1 DEF Kept, At
<1>2. CASE EmitCached(r) \/ SendText(r) \/ FastAppend(r)
  <2>1. /\ req'[r].fast = req[r].fast /\ req'[r].session = req[r].session
    BY <1>2, <1>t, AnswerSteps, FastMoves, CloseMoves
  <2>2. CASE EmitCached(r) \/ FastAppend(r)
    BY <1>f, <2>1, <2>2 DEF EmitCached, FastAppend, At, Kept
  <2>3. CASE SendText(r)
    BY <1>t, <2>1, <2>3 DEF SendText, Kept
  <2> QED
    BY <1>2, <2>2, <2>3
<1>3. CASE Pipeline(r)
  <2>1. /\ req[r].pc \in PipelineNodes
        /\ req'[r].pc = "answered" => At(r, "append_memory")
        /\ req'[r].session = req[r].session
    BY <1>3, <1>t, NodeMoves
  <2>2. ~ Has(stream'[r], "done")
    <3>1. PICK ys \in {<<>>, <<"source">>, <<"token">>} :
              stream' = [stream EXCEPT ![r] = @ \o ys]
      BY <1>3, <1>t, NodeSends
    <3>2. ys \in Seq(Events) /\ ~ Has(ys, "done")
      <4>1. CASE ys = <<>>
        BY <4>1 DEF Has
      <4>2. CASE ys = <<"source">>
        BY <4>2 DEF Has, Events
      <4>3. CASE ys = <<"token">>
        BY <4>3 DEF Has, Events
      <4> QED
        BY <3>1, <4>1, <4>2, <4>3
    <3>3. ~ Has(stream[r], "done")
      BY <1>s, <2>1 DEF PipelineNodes
    <3> QED
      BY <1>t, <3>1, <3>2, <3>3, SentByNow
  <2>3. ASSUME At(r, "append_memory"), req[r].session \in Sessions
        PROVE  r \in memory'[req[r].session] \cup lapsed'
    <3>1. AppendMemory(r) /\ (memory' = memory => r \in lapsed')
      BY <1>3, <2>3 DEF Pipeline, Node, Classify, Embed, CacheCheck, RateLimit, RateAdd, Work,
          SynthesizeToken, Synthesize, CacheStore, At
    <3> QED
      BY <1>t, <2>3, <3>1, RememberGrows DEF AppendMemory
  <2> QED
    BY <2>1, <2>2, <2>3 DEF Kept, At
<1>4. CASE Finish(r)
  <2>1. /\ At(r, "answered") /\ Become(r, Closed(r)) /\ memory' = memory /\ lapsed' = lapsed
    BY <1>4 DEF Finish
  <2>2. req'[r].session = req[r].session /\ req'[r].fast = req[r].fast
    BY <1>t, <2>1, CloseMoves
  <2> QED
    BY <1>t, <2>1, <2>2 DEF Kept
<1>5. CASE Fail(r) \/ BuildRaises(r) \/ Deadline(r)
  <2>1. /\ Become(r, Closed(r)) /\ lapsed' = lapsed
        /\ stream' = [stream EXCEPT ![r] = @ \o <<"error">>]
    BY <1>5 DEF Fail, BuildRaises, Failed, Deadline, Send
  <2>2. /\ req'[r].session = req[r].session /\ req'[r].fast = req[r].fast
        /\ req'[r].pc = "closed"
    BY <1>t, <2>1, CloseMoves
  <2>3. <<"error">> \in Seq(Events) /\ ~ Has(<<"error">>, "done")
    BY DEF Events, Has
  <2>4. Has(stream'[r], "done") <=> Has(stream[r], "done")
    BY <1>t, <2>1, <2>3, SentByNow
  <2> QED
    BY <1>5, <1>t, <2>1, <2>2, <2>4, RequestsRemember DEF Kept, At
<1>6. CASE Disconnect(r)
  BY <1>6 DEF Disconnect, Kept
<1> QED
  BY <1>1, <1>2, <1>3, <1>4, <1>5, <1>6 DEF RequestStep

\* What r knows of is set when it arrives, and given up when it closes.
LEMMA OwnKnowledgeFollows ==
    ASSUME SeenInv, DeliveriesStay, NEW r \in Requests, RequestStep(r)
    PROVE  Follows(r)'
<1>t. TypeOK /\ Follows(r)
  BY DEF SeenInv, LedgerInv
<1>1. req'[r].known \subseteq Delivered(req'[r].session)
  <2>1. CASE \E m \in Messages : Arrive(r, m)
    BY <1>t, <2>1, ArriveMoves
  <2>2. CASE Load(r) \/ ExactLookup(r) \/ Pipeline(r)
    BY <1>t, <2>2, LoadMoves, ExactMoves, NodeMoves DEF Follows
  <2>3. CASE EmitCached(r) \/ SendText(r) \/ FastAppend(r)
    BY <1>t, <2>3, AnswerSteps, FastMoves, CloseMoves DEF Follows
  <2>4. CASE Finish(r) \/ BuildRaises(r) \/ Fail(r) \/ Deadline(r)
           \/ Disconnect(r)
    BY <1>t, <2>4, CloseMoves DEF Finish, BuildRaises, Fail, Failed, Deadline, Disconnect
  <2> QED
    BY <2>1, <2>2, <2>3, <2>4 DEF RequestStep
<1>2. ASSUME NEW q \in Delivered(req'[r].session)
      PROVE  q \in Delivered(req[r].session)'
  <2>1. /\ q \in Requests /\ req[q].session = req'[r].session
        /\ req'[r].session # NoSession /\ Has(stream[q], "done")
    BY <1>2, DeliveredIs
  <2>2. Has(stream'[q], "done") /\ req'[q].session = req'[r].session
    BY <2>1 DEF DeliveriesStay
  <2> QED
    BY <2>1, <2>2 DEF Delivered, Sent, Has
<1> QED
  BY <1>1, <1>2 DEF Follows

\* A request taken for the first of its conversation knows of no pipeline answer
\* the memory still held when it was looked at.
LEMMA OwnPastIsSeen ==
    ASSUME SeenInv, DeliveriesStay, NEW r \in Requests, RequestStep(r),
           lapsed \subseteq lapsed',
           req'[r].pc \in PipelineNodes \cup {"exact"}, ~ req'[r].contextual
    PROVE  {q \in req'[r].known : ~ req'[q].fast} \subseteq lapsed'
<1>t. TypeOK /\ Follows(r)
  BY DEF SeenInv, LedgerInv
<1>1. ASSUME NEW q \in req[r].known, ~ req'[q].fast
      PROVE  /\ q \in Requests /\ ~ req[q].fast
             /\ req[q].session = req[r].session /\ req[r].session \in Sessions
             /\ Has(stream[q], "done")
  <2>1. /\ q \in Requests /\ req[q].session = req[r].session
        /\ req[r].session # NoSession /\ Has(stream[q], "done")
    BY <1>1, <1>t, DeliveredIs DEF Follows
  <2>2. req[r].session \in Sessions
    BY <1>t, <2>1 DEF TypeOK, RequestType
  <2> QED
    BY <1>1, <2>1, <2>2 DEF DeliveriesStay
<1>2. CASE Load(r)
  <2>1. /\ req'[r].known = req[r].known
        /\ req[r].session \in Sessions => memory[req[r].session] = {}
    BY <1>2, <1>t, LoadMoves DEF PipelineNodes
  <2>2. \A q \in Requests : Kept(q)
    BY DEF SeenInv
  <2> QED
    BY <1>1, <2>1, <2>2 DEF Kept
<1>3. CASE ExactLookup(r) \/ Pipeline(r)
  <2>1. /\ req'[r].known = req[r].known /\ ~ req[r].contextual
        /\ req[r].pc \in PipelineNodes \cup {"exact"}
    BY <1>3, <1>t, ExactMoves, NodeMoves DEF At
  <2>2. {q \in req[r].known : ~ req[q].fast} \subseteq lapsed
    BY <2>1 DEF SeenInv, PipelineAnswersAreSeen
  <2> QED
    BY <1>1, <2>1, <2>2
<1>4. CASE \E m \in Messages : Arrive(r, m)
  BY <1>4, <1>t, ArriveMoves DEF PipelineNodes
<1>5. CASE EmitCached(r) \/ SendText(r) \/ FastAppend(r)
  <2>1. req'[r].pc \in {"emit", "append", "answered", "raised", "closed"}
    BY <1>5, <1>t, AnswerSteps, FastMoves, CloseMoves
  <2> QED
    BY <2>1 DEF PipelineNodes
<1>6. CASE Finish(r) \/ BuildRaises(r) \/ Fail(r) \/ Deadline(r)
           \/ Disconnect(r)
  BY <1>6, <1>t, CloseMoves DEF Finish, BuildRaises, Fail, Failed, Deadline, Disconnect,
                                PipelineNodes
<1> QED
  BY <1>2, <1>3, <1>4, <1>5, <1>6 DEF RequestStep

LEMMA SeenInvStep ==
    ASSUME SeenInv, LedgerInv', [Next]_vars
    PROVE  SeenInv'
<1>t. TypeOK /\ TypeOK' /\ LedgerInv
  BY DEF SeenInv, LedgerInv
<1>1. ASSUME NEW r \in Requests, RequestStep(r)
      PROVE  SeenInv'
  <2>1. Touches(r)
    BY <1>1, <1>t, AdmissionKeepsLedgers, FastPathKeepsLedgers, NodeKeepsLedgers,
       EndsKeepLedgers DEF RequestStep
  <2>2. DeliveriesStay
    BY <1>1, <1>t, <2>1, AnsweredIsSettled DEF DeliveriesStay, Touches
  <2>3. \A s \in Sessions : memory[s] \subseteq memory'[s] \cup lapsed'
    BY <1>1, <1>t, RequestsRemember
  <2>4. \A q \in Requests : Kept(q)' /\ Follows(q)'
    BY <1>1, <1>t, <2>1, <2>2, <2>3, LapsesAreFinal, SeenElsewhere, OwnAnswerIsKept,
       OwnKnowledgeFollows DEF Touches
  <2>5. PipelineAnswersAreSeen'
    <3> SUFFICES ASSUME NEW q \in Requests,
                        req'[q].pc \in PipelineNodes \cup {"exact"}, ~ req'[q].contextual
                 PROVE  {p \in req'[q].known : ~ req'[p].fast} \subseteq lapsed'
      BY DEF PipelineAnswersAreSeen
    <3>1. CASE q = r
      BY <1>1, <2>2, <3>1, LapsesAreFinal, OwnPastIsSeen
    <3>2. CASE q # r
      BY <2>1, <2>2, <2>3, <3>2, LapsesAreFinal, SeenElsewhere DEF Touches
    <3> QED
      BY <3>1, <3>2
  <2> QED
    BY <2>4, <2>5 DEF SeenInv
<1>2. CASE /\ UNCHANGED <<req, stream>>
           /\ \A s \in Sessions : memory[s] \subseteq memory'[s] \cup lapsed'
  <2>1. DeliveriesStay
    BY <1>2 DEF DeliveriesStay
  <2> QED
    BY <1>2, <1>t, <2>1, LapsesAreFinal, SeenElsewhere DEF SeenInv, PipelineAnswersAreSeen
<1>3. ASSUME NEW s \in Sessions, Forget(s)
      PROVE  \A d \in Sessions : memory[d] \subseteq memory'[d] \cup lapsed'
  BY <1>3, <1>t DEF Forget, TypeOK
<1>4. CASE (\E c \in cache : Expire(c)) \/ (\E s \in Sessions : Forget(s))
           \/ (\E r \in bucket : Slide(r)) \/ UNCHANGED vars
  BY <1>2, <1>3, <1>4 DEF Expire, Forget, Slide, vars
<1> QED
  BY <1>1, <1>4 DEF Next, RequestStep

\* Whoever reacts to an answer of the pipeline is taken for a follow-up: the
\* exchange is appended by the last node, before `done` is sent (supervisor.py:214-226),
\* for any number of conversations, unless it lapsed.
THEOREM FollowUpsSeeTheirPast == Spec => []PipelineAnswersAreSeen
<1>1. Init => SeenInv
  BY LedgerInvInit DEF Init, SeenInv, Kept, Follows, At, Has, Unsent, PipelineAnswersAreSeen
<1>2. Spec => []LedgerInv
  <2>1. Spec => []TypeOK
    BY RouteTypes
  <2>2. LedgerInv /\ TypeOK' /\ [Next]_vars => LedgerInv'
    BY LedgerInvStep
  <2> QED
    BY <2>1, <2>2, LedgerInvInit, PTL DEF Spec
<1>3. SeenInv /\ LedgerInv' /\ [Next]_vars => SeenInv'
  BY SeenInvStep
<1>4. SeenInv => PipelineAnswersAreSeen
  BY DEF SeenInv
<1> QED
  BY <1>1, <1>2, <1>3, <1>4, PTL DEF Spec
=============================================================================
