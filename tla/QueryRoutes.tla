------------------------------ MODULE QueryRoutes ------------------------------
(***************************************************************************)
(* POST /api/query and POST /api/query/stream (app/api/routes.py) around   *)
(* the pipeline: the per-user rate limit, the conversation memory loaded   *)
(* once, the exact-match fast path, the 120 s deadline, the server-sent    *)
(* events up to the terminal one, and the metrics record of each request.  *)
(*                                                                         *)
(* The answer of POST /query is a "done" event here, its 500 an "error".   *)
(* Consecutive token and source events count as one.  The decision of the   *)
(* per-user limiter is left open: RateLimiter models it.                   *)
(***************************************************************************)
EXTENDS Supervisor

CONSTANT
    Messages    \* the requests that may be sent: [route, user, session, text]

ASSUME RoutesAssumption ==
    Messages \subseteq [route : {"stream", "query"}, user : Users,
                        session : Sessions \cup {NoSession}, text : Texts]

VARIABLES
    recorded,   \* per request, the calls of record_query: [error, hit]
    lapsed      \* history: exchanges whose append failed or whose TTL ran out

vars == <<req, cache, memory, bucket, stream, recorded, lapsed>>

-----------------------------------------------------------------------------

Record(r, error, hit) ==
    recorded' = [recorded EXCEPT ![r] = Append(@, [error |-> error, hit |-> hit])]

Send(r, events) == stream' = [stream EXCEPT ![r] = @ \o events]

Sent(r, event) == \E i \in 1 .. Len(stream[r]) : stream[r][i] = event

\* A request is over: its AgentState and locals are gone, the model keeps what
\* the properties ask of it.
Closed(r) ==
    [Unsent EXCEPT !.pc = "closed", !.route = req[r].route, !.user = req[r].user,
                   !.session = req[r].session, !.hit = req[r].hit, !.fast = req[r].fast]

\* The except and finally clauses, where nothing is awaited.
Failed(r) ==
    /\ Become(r, Closed(r))
    /\ Send(r, <<"error">>)
    /\ Record(r, TRUE, req[r].hit)

\* The requests of session s whose answer has been delivered, in full.
Delivered(s) == {q \in Requests : req[q].session = s /\ s # NoSession /\ Sent(q, "done")}

Init ==
    /\ req = [r \in Requests |-> Unsent]
    /\ cache = {}
    /\ memory = [s \in Sessions |-> {}]
    /\ bucket = {}
    /\ stream = [r \in Requests |-> <<>>]
    /\ recorded = [r \in Requests |-> <<>>]
    /\ lapsed = {}

\* A request arrives and check_rate_limit(_rate_limit_key(request)) admits it; or
\* turns it away (429), or raises (500).  In a conversation a message may mean
\* anything.
Arrive(r, m) ==
    LET known == Delivered(m.session)
        sent == [Unsent EXCEPT !.route = m.route, !.user = m.user, !.known = known,
                               !.session = m.session, !.text = m.text]
    IN  /\ At(r, "unsent")
        /\ \/ \E t \in IF known = {} THEN {m.text} ELSE Texts :
                 Become(r, [sent EXCEPT !.pc = "load", !.meaning = t])
           \/ Become(r, [Unsent EXCEPT !.pc = "refused"])
        /\ UNCHANGED <<cache, memory, bucket, stream, recorded, lapsed>>

\* mem = await load_memory(...), in the route or in ask.  A streamed request
\* with no conversation takes the fast path, any other the pipeline.
Load(r) ==
    /\ At(r, "load")
    /\ \/ LET ctx == req[r].session \in Sessions /\ memory[req[r].session] # {}
          IN  Become(r, [req[r] EXCEPT !.contextual = ctx,
                            !.pc = IF req[r].route = "stream" /\ ~ ctx THEN "exact"
                                   ELSE "classify"])
       \/ req[r].session # NoSession /\ Goto(r, "raised")
    /\ UNCHANGED <<cache, memory, bucket, stream, recorded, lapsed>>

\* cached = await cache_get_exact(body.query)
ExactLookup(r) ==
    /\ At(r, "exact")
    /\ \/ \E a \in Found(req[r].text) :
             Become(r, [req[r] EXCEPT !.pc = "emit", !.hit = TRUE, !.fast = TRUE,
                                      !.answer = a])
       \/ Goto(r, "classify")
       \/ Goto(r, "raised")
    /\ UNCHANGED <<cache, memory, bucket, stream, recorded, lapsed>>

\* A hit of the fast path is sent up to `done`, event by event, before it is
\* remembered.
EmitCached(r) ==
    /\ At(r, "emit")
    /\ \E e \in {"source", "token", "done"} :
          /\ e = "source" => stream[r] = <<>>
          /\ e = "token" => ~ Sent(r, "token")
          /\ Send(r, <<e>>)
          /\ Goto(r, IF e = "done" THEN "append" ELSE "emit")
    /\ UNCHANGED <<cache, memory, bucket, recorded, lapsed>>

\* Mutant: the `return` of the fast path is lost.
FastAppendGoesOn(r) ==
    /\ At(r, "append")
    /\ Remember(r)
    /\ Goto(r, "classify")
    /\ UNCHANGED <<cache, bucket, stream, recorded, lapsed>>

\* await append_turns(...); return.  If it raises, applied or not, an error follows.
FastAppend(r) ==
    /\ At(r, "append")
    /\ \/ /\ Remember(r)
          /\ Become(r, Closed(r))
          /\ Record(r, FALSE, TRUE)
          /\ UNCHANGED lapsed
       \/ /\ req[r].session # NoSession
          /\ Goto(r, "raised")
          /\ lapsed' = lapsed \cup {r}
          /\ Remember(r) \/ UNCHANGED memory
          /\ UNCHANGED recorded
    /\ UNCHANGED <<cache, bucket, stream>>

\* A node of the pipeline runs.
Pipeline(r) ==
    /\ Node(r)
    /\ lapsed' = IF At(r, "append_memory") /\ memory' = memory THEN lapsed \cup {r}
                 ELSE lapsed
    /\ UNCHANGED recorded

\* The answer is out of the pipeline: a stream sends it now unless its tokens were
\* streamed live.
SendText(r) ==
    /\ At(r, "answered")
    /\ req[r].route = "stream" /\ ~ Sent(r, "token")
    /\ Send(r, <<"token">>)
    /\ Goto(r, "answered")
    /\ UNCHANGED <<cache, memory, bucket, recorded, lapsed>>

\* Mutant: `cache_hit = final_answer.cache_hit` is lost.
FinishUncounted(r) ==
    /\ At(r, "answered")
    /\ Become(r, Closed(r))
    /\ Send(r, <<"done">>)
    /\ Record(r, FALSE, FALSE)
    /\ UNCHANGED <<cache, memory, bucket, lapsed>>

\* Then `done`.  POST /query never reports a hit to the metrics.
Finish(r) ==
    /\ At(r, "answered")
    /\ Become(r, Closed(r))
    /\ Send(r, <<"done">>)
    /\ Record(r, FALSE, req[r].hit /\ req[r].route = "stream")
    /\ UNCHANGED <<cache, memory, bucket, lapsed>>

\* What builds an event or the response may raise.  POST /query does so behind its
\* try and its record: a 500 the metrics know as a success.
BuildRaises(r) ==
    /\ \/ At(r, "emit") /\ Failed(r)
       \/ At(r, "answered") /\ req[r].route = "stream" /\ Failed(r)
       \/ /\ At(r, "answered") /\ req[r].route = "query"
          /\ Become(r, Closed(r)) /\ Send(r, <<"error">>) /\ Record(r, FALSE, FALSE)
    /\ UNCHANGED <<cache, memory, bucket, lapsed>>

\* The exception of a load, a lookup, an append or a node reaches the route.
Fail(r) ==
    /\ At(r, "raised")
    /\ Failed(r)
    /\ UNCHANGED <<cache, memory, bucket, lapsed>>

\* Mutant: the deadline does not reach into the generation.
DeadlineBeforeSynthesis(r) ==
    /\ req[r].route = "stream" /\ req[r].pc \in PipelineNodes \ {"synthesize"}
    /\ Become(r, Closed(r))
    /\ Send(r, <<"error">>)
    /\ Record(r, TRUE, FALSE)
    /\ UNCHANGED <<cache, memory, bucket, lapsed>>

\* asyncio.timeout(_STREAM_TIMEOUT_S) cancels the pipeline, and no other part of
\* the stream.  An append it interrupts may have been applied.
Deadline(r) ==
    /\ req[r].route = "stream" /\ req[r].pc \in PipelineNodes
    /\ Become(r, Closed(r))
    /\ Send(r, <<"error">>)
    /\ Record(r, TRUE, FALSE)
    /\ UNCHANGED memory \/ (At(r, "append_memory") /\ Remember(r))
    /\ UNCHANGED <<cache, bucket, lapsed>>

\* The client of a stream is gone: the generator is cancelled at an await or at
\* a yield, and only its finally clause runs.
Disconnect(r) ==
    /\ req[r].route = "stream"
    /\ req[r].pc \in PipelineNodes \cup {"load", "exact", "emit", "append", "answered"}
    /\ Become(r, Closed(r))
    /\ \E hit \in IF req[r].fast THEN {TRUE}
                  ELSE IF At(r, "answered") THEN {FALSE, req[r].hit}
                  ELSE {FALSE} : Record(r, FALSE, hit)
    /\ UNCHANGED memory \/ (req[r].pc \in {"append", "append_memory"} /\ Remember(r))
    /\ lapsed' = lapsed \cup {r}
    /\ UNCHANGED <<cache, bucket, stream>>

\* The TTLs of the caches and of the memories, and the sliding window.
Expire(c) ==
    /\ cache' = cache \ {c}
    /\ UNCHANGED <<req, memory, bucket, stream, recorded, lapsed>>

Forget(s) ==
    /\ memory[s] # {}
    /\ memory' = [memory EXCEPT ![s] = {}]
    /\ lapsed' = lapsed \cup memory[s]
    /\ UNCHANGED <<req, cache, bucket, stream, recorded>>

Slide(r) ==
    /\ bucket' = bucket \ {r}
    /\ UNCHANGED <<req, cache, memory, stream, recorded, lapsed>>

Next ==
    \/ \E r \in Requests :
          \/ \E m \in Messages : Arrive(r, m)
          \/ Load(r) \/ ExactLookup(r) \/ EmitCached(r) \/ FastAppend(r) \/ Pipeline(r)
          \/ SendText(r) \/ Finish(r) \/ BuildRaises(r) \/ Fail(r)
          \/ Deadline(r) \/ Disconnect(r)
    \/ \E c \in cache : Expire(c)
    \/ \E s \in Sessions : Forget(s)
    \/ \E r \in bucket : Slide(r)

\* The event loop fires a timer that is due and runs a generator that waits for
\* nothing but itself.  Redis, the models and the database may never answer.
Fairness ==
    \A r \in Requests :
        WF_vars(Deadline(r)) /\ WF_vars(Finish(r)) /\ WF_vars(Fail(r))

Spec == Init /\ [][Next]_vars /\ Fairness

-----------------------------------------------------------------------------

PcValues ==
    PipelineNodes \cup
    {"unsent", "refused", "load", "exact", "emit", "append", "answered", "raised",
     "closed"}

RequestType ==
    [pc : PcValues, route : {"stream", "query"}, user : Users \cup {NoUser},
     session : Sessions \cup {NoSession}, text : Texts \cup {NoText},
     meaning : Texts \cup {NoText}, known : SUBSET Requests, contextual : BOOLEAN,
     standalone : Texts \cup {NoText}, classified : BOOLEAN,
     answer : Answers, hit : BOOLEAN, live : BOOLEAN,
     fast : BOOLEAN]

\* The types of the variables: no text is missing where one is used as a key.
TypeOK ==
    /\ req \in [Requests -> RequestType]
    /\ cache \in SUBSET [key : Texts, answer : Answers]
    /\ memory \in [Sessions -> SUBSET Requests]
    /\ bucket \in SUBSET Requests
    /\ stream \in [Requests -> Seq({"source", "token", "done", "error"})]
    /\ recorded \in [Requests -> Seq([error : BOOLEAN, hit : BOOLEAN])]
    /\ lapsed \in SUBSET Requests

\* The global cache is safe to share between conversations: an answer found by
\* a text was written for that text, with no conversation in the prompt
\* (supervisor.py:191-196), whatever requests of whatever sessions stored.
CacheIsContextFree ==
    \A c \in cache : c.answer.kind = "synthesized" =>
        c.answer.about = c.key /\ ~ c.answer.framed

\* The order of events every client relies on: sources come before the text, a
\* terminal event is followed by nothing (except that the fast path, which
\* appends after `done`, may report that append's failure), and a stream that
\* was not cut by its client has ended with one.
Terminal == {"done", "error"}

WellFormed(r) ==
    /\ \A i, j \in 1 .. Len(stream[r]) : i < j =>
          /\ stream[r][i] = "token" => stream[r][j] # "source"
          /\ stream[r][i] \in Terminal =>
                stream[r][i] = "done" /\ stream[r][j] = "error" /\ req[r].hit
    /\ At(r, "closed") => \/ Sent(r, "done") \/ Sent(r, "error")
                          \/ ~ recorded[r][1].error /\ r \in lapsed

StreamsAreWellFormed == \A r \in Requests : WellFormed(r)

\* A request is recorded once, no error goes unreported to its client, and what
\* the metrics of a stream say agrees with what its client saw: an error was
\* reported, a delivered answer was a hit.
MetricsMatchTheStream ==
    \A r \in Requests :
        IF ~ At(r, "closed") THEN recorded[r] = <<>>
        ELSE /\ Len(recorded[r]) = 1
             /\ recorded[r][1].error => Sent(r, "error")
             /\ req[r].route = "stream" =>
                    /\ Sent(r, "error") => recorded[r][1].error
                    /\ Sent(r, "done") => recorded[r][1].hit = req[r].hit

\* An answer of the pipeline is in the conversation by the time its client can
\* react to it: a request sent after that answer is treated as a follow-up,
\* unless the append failed or the memory expired.
PipelineAnswersAreSeen ==
    \A r \in Requests :
        (req[r].pc \in PipelineNodes \cup {"exact"} /\ ~ req[r].contextual) =>
            {q \in req[r].known : ~ req[q].fast} \subseteq lapsed

\* No stuck model, database or Redis call inside the pipeline holds a streamed
\* request for ever (routes.py:34-36): the deadline covers every node.  There are
\* finitely many requests, so a time comes when every stream that got as far as the
\* pipeline is over.
PipelinesEnd ==
    <>[] (\A r \in Requests : req[r].route = "stream" =>
              req[r].pc \notin PipelineNodes \cup {"answered", "raised"})

-----------------------------------------------------------------------------

\* What routes.py:79-80 says of the limiter, one bucket for everybody is gone: a
\* request is told "Rate limit exceeded" only for requests of its own user.
LimitedByOwnRequests ==
    [][\A r \in Requests :
          (req'[r].answer.kind = "limited" /\ req[r].answer.kind = "none") =>
              \A q \in bucket : req[q].user = req[r].user]_vars

\* What supervisor.py:191-192 says of the cache, only answers "synthesized with
\* no conversation history/summary" are written to it.
CachedAnswersAreSynthesized == \A c \in cache : c.answer.kind = "synthesized"

\* What supervisor.py:5-7 says of follow-ups, a raw "what about it?" "must not be
\* served by exact text": a request of a conversation in memory is never served
\* the cached answer to another question than it means.
FollowUpsAreResolved ==
    \A r \in Requests :
        (req[r].contextual /\ req[r].hit /\ req[r].answer.kind = "synthesized") =>
            req[r].answer.about = req[r].meaning
=============================================================================
