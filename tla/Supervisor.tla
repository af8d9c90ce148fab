------------------------------ MODULE Supervisor ------------------------------
(***************************************************************************)
(* The pipeline of app/agents/supervisor.py: a graph of ten nodes a        *)
(* request walks once, and the events ask_stream yields on the way.  A     *)
(* node is a step here, the rate limit two.  The pipelines of concurrent   *)
(* requests share the answer cache, the conversation memories and one      *)
(* rate-limit bucket, each in the abstract form its callers rely on        *)
(* (RateLimiter, SemanticCache and SessionMemory model how they are kept). *)
(*                                                                         *)
(* A text stands for all its wordings that the cache does not tell apart.  *)
(* A message sent in the course of a conversation may mean another text    *)
(* than it says ("what about it?"): meaning is what its sender asks.       *)
(***************************************************************************)
EXTENDS Integers, Sequences, FiniteSets

CONSTANTS
    Requests,   \* the requests of a behaviour
    Users,      \* their senders
    Sessions,   \* conversations
    NoSession,  \* the session of a request sent without one
    Texts,      \* messages, and standalone questions
    NoText,     \* no text yet
    NoUser,     \* no user yet
    Limit       \* settings.rate_limit_rpm

ASSUME PipelineAssumption ==
    /\ NoSession \notin Sessions
    /\ NoText \notin Texts
    /\ NoUser \notin Users
    /\ Limit \in Nat \ {0}

VARIABLES
    req,        \* per request, its AgentState and the locals of its route
    cache,      \* the answers the cache can find, with the text they are found by
    memory,     \* per session, the exchanges its turns and summary cover
    bucket,     \* the requests counted in the window of the bucket "default"
    stream      \* per request, the events its client has been sent

Kinds == {"none", "synthesized", "limited", "failed"}

\* about is the question the answer was written for; framed is TRUE when it was
\* written with a conversation in the prompt.
Answers == [kind : Kinds, about : Texts \cup {NoText}, framed : BOOLEAN]

NoAnswer == [kind |-> "none", about |-> NoText, framed |-> FALSE]

\* A request that has not been sent.
Unsent ==
    [pc |-> "unsent", route |-> "stream", user |-> NoUser, session |-> NoSession,
     text |-> NoText, meaning |-> NoText, known |-> {}, contextual |-> FALSE,
     standalone |-> NoText, classified |-> FALSE, answer |-> NoAnswer,
     hit |-> FALSE, live |-> FALSE, fast |-> FALSE]

PipelineNodes ==
    {"classify", "embed", "cache_check", "rate_limit", "rate_add", "retrieval", "sql",
     "hybrid", "synthesize", "cache_store", "append_memory"}

-----------------------------------------------------------------------------

At(r, l) == req[r].pc = l

Become(r, s) == req' = [req EXCEPT ![r] = s]

Goto(r, l) == Become(r, [req[r] EXCEPT !.pc = l])

\* Only a streamed request has somebody to send events to before its answer.
\* The status events, notices of progress, are left out.
Yield(r, events) ==
    stream' = [stream EXCEPT ![r] =
                  @ \o (IF req[r].route = "stream" THEN events ELSE <<>>)]

\* The answers a lookup of text t can find, in one step (SemanticCache has the commands).
Found(t) == {c.answer : c \in {d \in cache : d.key = t}}

-----------------------------------------------------------------------------

\* Mutants, here and below: slips a change to the code could make, each checked
\* to break a property.  If the call raises there is no question:
ClassifyForgets(r) ==
    /\ At(r, "classify")
    /\ Goto(r, "embed")
    /\ UNCHANGED <<cache, memory, bucket, stream>>

\* _node_classify: a follow-up is rewritten into what it means; a message with
\* no conversation is standalone.  If the call raises, the raw text stands in.
Classify(r) ==
    /\ At(r, "classify")
    /\ \/ Become(r, [req[r] EXCEPT !.pc = "embed", !.classified = TRUE,
                        !.standalone = IF req[r].contextual THEN req[r].meaning
                                       ELSE req[r].text])
       \/ Become(r, [req[r] EXCEPT !.pc = "embed", !.standalone = req[r].text])
    /\ UNCHANGED <<cache, memory, bucket, stream>>

\* _node_embed: nothing catches an exception of the embedding call.
Embed(r) ==
    /\ At(r, "embed")
    /\ \E l \in {"cache_check", "raised"} : Goto(r, l)
    /\ UNCHANGED <<cache, memory, bucket, stream>>

\* _node_cache_check and _route_after_cache.  A lookup that raises is a miss.
CacheCheck(r) ==
    /\ At(r, "cache_check")
    /\ \/ \E a \in Found(req[r].standalone) :
             Become(r, [req[r] EXCEPT !.pc = "cache_store", !.hit = TRUE, !.answer = a])
       \/ Goto(r, "rate_limit")
    /\ UNCHANGED <<cache, memory, bucket, stream>>

\* _route_after_rate_limit, when the answer is not set: the intent, any of four,
\* is first looked at here.
Workers(r) ==
    IF req[r].classified THEN {"retrieval", "sql", "hybrid", "synthesize"}
    ELSE {"retrieval"}

\* _node_rate_limit: check_rate_limit() counts the requests of one bucket.  If the
\* limiter raises the request goes on.
RateLimit(r) ==
    /\ At(r, "rate_limit")
    /\ \/ Cardinality(bucket) < Limit /\ Goto(r, "rate_add")
       \/ /\ Cardinality(bucket) >= Limit
          /\ Become(r, [req[r] EXCEPT !.pc = "cache_store",
                           !.answer = [NoAnswer EXCEPT !.kind = "limited"]])
       \/ \E l \in Workers(r) : Goto(r, l)
    /\ UNCHANGED <<cache, memory, bucket, stream>>

\* Its ZADD, a command of its own: other requests count and add in between.  It
\* may raise, applied or not, and the request goes on all the same.
RateAdd(r) ==
    /\ At(r, "rate_add")
    /\ bucket' \in {bucket, bucket \cup {r}}
    /\ \E l \in Workers(r) : Goto(r, l)
    /\ UNCHANGED <<cache, memory, stream>>

\* _node_retrieval, _node_sql, _node_hybrid_workers: whatever fails in a worker
\* becomes an empty result.  Only retrieved chunks are announced as sources.
Work(r) ==
    /\ req[r].pc \in {"retrieval", "sql", "hybrid"}
    /\ \/ UNCHANGED stream
       \/ ~ At(r, "sql") /\ Yield(r, <<"source">>)
    /\ Goto(r, "synthesize")
    /\ UNCHANGED <<cache, memory, bucket>>

\* The first tokens of the model, sent on while it goes on generating.
SynthesizeToken(r) ==
    /\ At(r, "synthesize")
    /\ req[r].route = "stream" /\ ~ req[r].live
    /\ Become(r, [req[r] EXCEPT !.live = TRUE])
    /\ Yield(r, <<"token">>)
    /\ UNCHANGED <<cache, memory, bucket>>

\* The end of _node_synthesize.  The prompt holds the literal message and the
\* conversation.  Any exception becomes the answer "Synthesis failed".
Synthesize(r) ==
    /\ At(r, "synthesize")
    /\ \/ /\ Become(r, [req[r] EXCEPT !.pc = "cache_store",
                           !.live = (req[r].route = "stream"),
                           !.answer = [kind |-> "synthesized",
                                       about |-> IF req[r].contextual THEN req[r].meaning
                                                 ELSE req[r].text,
                                       framed |-> req[r].contextual]])
          /\ Yield(r, IF req[r].live THEN <<>> ELSE <<"token">>)
       \/ /\ Become(r, [req[r] EXCEPT !.pc = "cache_store",
                           !.answer = [NoAnswer EXCEPT !.kind = "failed"]])
          /\ UNCHANGED stream
    /\ UNCHANGED <<cache, memory, bucket>>

\* Mutant: the answer is stored whatever it was written with.
CacheStoreContextual(r) ==
    /\ At(r, "cache_store")
    /\ cache' = cache \cup IF req[r].hit THEN {}
                           ELSE {[key |-> req[r].standalone, answer |-> req[r].answer]}
    /\ Goto(r, "append_memory")
    /\ UNCHANGED <<memory, bucket, stream>>

\* Mutant: an apology ends the graph here.
CacheStoreEndsFailed(r) ==
    /\ At(r, "cache_store")
    /\ Goto(r, IF req[r].answer.kind = "failed" THEN "answered" ELSE "append_memory")
    /\ UNCHANGED <<cache, memory, bucket, stream>>

\* _node_cache_store: an answer that is new and made without a conversation is
\* stored under the standalone question and the raw text.  cache_set may raise
\* having stored part of it, or nothing.
CacheStore(r) ==
    LET keys == {req[r].standalone, req[r].text}
        stored == IF req[r].hit \/ req[r].contextual THEN {} ELSE keys
    IN  /\ At(r, "cache_store")
        /\ \E ks \in SUBSET stored :
              cache' = cache \cup [key : ks, answer : {req[r].answer}]
        /\ Goto(r, "append_memory")
        /\ UNCHANGED <<memory, bucket, stream>>

\* The exchange of r reaches the memory of its session, if it has one; in one step
\* (SessionMemory has the commands).
Remember(r) ==
    memory' = [s \in Sessions |-> IF s = req[r].session THEN memory[s] \cup {r}
                                  ELSE memory[s]]

\* _node_append_memory: an append that raises is swallowed.
AppendMemory(r) ==
    /\ At(r, "append_memory")
    /\ Remember(r) \/ UNCHANGED memory
    /\ Goto(r, "answered")
    /\ UNCHANGED <<cache, bucket, stream>>

\* One node of the graph.
Node(r) ==
    \/ Classify(r) \/ Embed(r) \/ CacheCheck(r) \/ RateLimit(r) \/ RateAdd(r)
    \/ Work(r) \/ SynthesizeToken(r) \/ Synthesize(r) \/ CacheStore(r) \/ AppendMemory(r)
=============================================================================
