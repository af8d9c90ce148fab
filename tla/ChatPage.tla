------------------------------- MODULE ChatPage -------------------------------
(***************************************************************************)
(* The chat page of one browser tab (frontend/src/app/chat/page.tsx), the  *)
(* client of the answer stream (lib/api.ts) and the sessions kept in       *)
(* localStorage (lib/sessions.ts).  A stream goes on while the user starts, *)
(* selects and deletes sessions; its callbacks act on whatever messages    *)
(* are on the screen.  A write to localStorage may fail, and the sessions  *)
(* then live in memory until the page is reloaded.                         *)
(*                                                                         *)
(* A question, its answer and its stream share a number.  Of a text only   *)
(* whether it is empty is kept.  The page's copy `sessions` is read anew   *)
(* after every write, so that with one tab it is what getSessions returns. *)
(***************************************************************************)
EXTENDS Lists

CONSTANTS
    NoOne,                      \* null
    MaxSessions, MaxQuestions   \* bounds of the model

\* A question, its answer and its stream share the number q.
Message == [q : Nat, role : {"user", "assistant"}, text : BOOLEAN, live : BOOLEAN]

ChatSession == [id : Nat, messages : Seq(Message)]

ASSUME ChatAssumption ==
    /\ MaxSessions \in Nat /\ MaxQuestions \in Nat
    /\ NoOne \notin Nat /\ NoOne \notin Seq(ChatSession)

VARIABLES
    page,       \* [current, messages, streaming, abort]
    stream,     \* per question asked: [session, text, phase]
    stored,     \* localStorage: the sessions, latest first
    fallback,   \* _memoryFallback
    made,       \* sessions created so far
    kept,       \* history: questions whose stream answered or failed
    left,       \* history: questions whose session was left while they streamed
    disturbed   \* history: "strayed": such a stream ended; "late": a stream ended with
                \* the next question under way

pageVars == <<page, stream, stored, fallback, made, kept, left, disturbed>>

Questions == 1 .. MaxQuestions

-----------------------------------------------------------------------------

\* getSessions
View == IF fallback # NoOne THEN fallback ELSE stored

Session(s) == SelectInSeq(View, LAMBDA x : x.id = s)

\* _writeRaw, which may throw.
Write(sessions) ==
    \/ stored' = sessions /\ fallback' = NoOne
    \/ fallback' = sessions /\ UNCHANGED stored

\* Mutant: what streams is stored as it stands.
CleanNothing(msgs) == msgs

\* What persistMessages stores: what has content or is settled, without flags.
Clean(msgs) ==
    LET some == Pick(msgs, {k \in DOMAIN msgs : ~ msgs[k].live \/ msgs[k].text})
    IN  [k \in DOMAIN some |-> [some[k] EXCEPT !.live = FALSE]]

\* persistMessages, updateSession: nothing if the session has been deleted.
Persist(s, msgs) ==
    IF Session(s) = 0 THEN UNCHANGED <<stored, fallback>>
    ELSE Write([View EXCEPT ![Session(s)].messages = Clean(msgs)])

Posted(q, role) == [q |-> q, role |-> role, text |-> role = "user", live |-> role # "user"]

\* prev.map(m => m.id === assistantId ? ... : m)
Mapped(q, text, live) ==
    [k \in DOMAIN page.messages |->
        IF page.messages[k].q = q /\ page.messages[k].role = "assistant"
        THEN [page.messages[k] EXCEPT !.text = text, !.live = live]
        ELSE page.messages[k]]

\* A stream is open, or was answered by `done` or `error` and is read on.
Streaming(q) == stream[q].phase \in {"open", "answered"}

\* The streams whose session the user leaves by this step.
Leaving == left' = left \cup {q \in DOMAIN stream : Streaming(q)}

\* Mutant: the messages of the session before stay on the screen.
ShowStale(s) == [page EXCEPT !.current = s]

\* setCurrentSessionId, setMessages; the stream goes on.
Show(s) ==
    [page EXCEPT !.current = s,
                 !.messages = IF s = NoOne THEN <<>> ELSE View[Session(s)].messages]

First(sessions) ==
    IF sessions = <<>> THEN [page EXCEPT !.current = NoOne, !.messages = <<>>]
    ELSE [page EXCEPT !.current = Head(sessions).id, !.messages = Head(sessions).messages]

-----------------------------------------------------------------------------

PageInit ==
    /\ page = [current |-> NoOne, messages |-> <<>>, streaming |-> FALSE, abort |-> NoOne]
    /\ stream = <<>> /\ stored = <<>> /\ fallback = NoOne /\ made = 0
    /\ kept = {} /\ left = {} /\ disturbed = {}

\* createSession
Create ==
    /\ made < MaxSessions
    /\ made' = made + 1
    /\ Write(<<[id |-> made + 1, messages |-> <<>>]>> \o View)

\* handleNewChat
NewChat ==
    /\ Create
    /\ page' = [page EXCEPT !.current = made + 1, !.messages = <<>>]
    /\ Leaving
    /\ UNCHANGED <<stream, kept, disturbed>>

\* handleSelectSession
Select ==
    /\ \E k \in DOMAIN View : page' = Show(View[k].id)
    /\ Leaving
    /\ UNCHANGED <<stream, stored, fallback, made, kept, disturbed>>

\* handleDeleteSession
Delete ==
    \E k \in DOMAIN View :
        LET s == View[k].id
            rest == Pick(View, {l \in DOMAIN View : View[l].id # s})
        IN  /\ Write(rest)
            /\ IF s = page.current THEN page' = First(rest) /\ Leaving
               ELSE UNCHANGED <<page, left>>
            /\ UNCHANGED <<stream, made, kept, disturbed>>

\* Mutant: the form does not look at isStreaming.
MayAskAlways == TRUE

MayAsk == ~ page.streaming

\* handleSubmit: the messages are not stored before the stream ends.
Submit ==
    LET q == Len(stream) + 1
        s == IF page.current = NoOne THEN made + 1 ELSE page.current
    IN  /\ MayAsk /\ q <= MaxQuestions
        /\ IF page.current = NoOne THEN Create ELSE UNCHANGED <<stored, fallback, made>>
        /\ page' = [current |-> s, streaming |-> TRUE, abort |-> q,
                    messages |-> page.messages \o
                                    <<Posted(q, "user"), Posted(q, "assistant")>>]
        /\ stream' = Append(stream, [session |-> s, text |-> FALSE, phase |-> "open"])
        /\ UNCHANGED <<kept, left, disturbed>>

\* onToken
Token(q) ==
    /\ stream[q].phase = "open" /\ ~ stream[q].text
    /\ stream' = [stream EXCEPT ![q].text = TRUE]
    /\ page' = [page EXCEPT !.messages = Mapped(q, TRUE, TRUE)]
    /\ UNCHANGED <<stored, fallback, made, kept, left, disturbed>>

\* Mutant: isStreaming is not reset.
SettledOnly == [page EXCEPT !.abort = NoOne]

Settled == [page EXCEPT !.streaming = FALSE, !.abort = NoOne]

\* onDone and onError: the messages on the screen are stored under the session
\* the question was asked in.
Settle(q, phase) ==
    LET msgs == Mapped(q, stream[q].text, FALSE)
        others == \E r \in DOMAIN stream : r # q /\ stream[r].phase = "open"
    IN  /\ page' = [Settled EXCEPT !.messages = msgs]
        /\ Persist(stream[q].session, msgs)
        /\ stream' = [stream EXCEPT ![q].phase = phase]
        /\ kept' = kept \cup {q}
        /\ disturbed' = disturbed \cup (IF q \in left THEN {"strayed"} ELSE {})
                                  \cup (IF others THEN {"late"} ELSE {})
        /\ UNCHANGED <<made, left>>

\* An event `done`; the connection is read on.
Done(q) == stream[q].phase = "open" /\ Settle(q, "answered")

\* An event `error`, also after `done`; the connection is read on.
ErrorEvent(q) == Streaming(q) /\ Settle(q, "answered")

\* A response that is not ok, or a connection that breaks, also after `done` or
\* `error`.
Break(q) == Streaming(q) /\ Settle(q, "closed")

\* The response ends: after `done` or `error`, or with neither of them, which calls
\* nothing.
End(q) ==
    /\ Streaming(q)
    /\ stream' = [stream EXCEPT ![q].phase = IF @ = "open" THEN "cut" ELSE "closed"]
    /\ UNCHANGED <<page, stored, fallback, made, kept, left, disturbed>>

\* handleAbort: the first message that streams and its question are discarded.
Abort ==
    LET live == SelectInSeq(page.messages, LAMBDA m : m.live)
        next == IF live = 0 THEN page.messages
                ELSE Pick(page.messages, {k \in DOMAIN page.messages :
                                            page.messages[k].q # page.messages[live].q})
    IN  /\ page.streaming
        /\ page' = [Settled EXCEPT !.messages = next]
        /\ stream' = [q \in DOMAIN stream |->
                        IF q = page.abort THEN [stream[q] EXCEPT !.phase = "closed"]
                        ELSE stream[q]]
        /\ IF live # 0 /\ page.current # NoOne THEN Persist(page.current, next)
           ELSE UNCHANGED <<stored, fallback>>
        /\ UNCHANGED <<made, kept, left, disturbed>>

\* The questions asked in one of the sessions.
AskedIn(sessions) ==
    {q \in DOMAIN stream : \E k \in DOMAIN sessions : \E i \in DOMAIN sessions[k].messages :
        sessions[k].messages[i].role = "user" /\ sessions[k].messages[i].q = q}

\* The page is left and opened again, or reloaded, which empties the memory: what was
\* only there is lost.  A reload ends the streams; leaving the page does not abort
\* them, but their callbacks act on the messages of a page that is gone.
Reopen ==
    /\ fallback' \in {fallback, NoOne}
    /\ LET found == IF fallback' # NoOne THEN fallback' ELSE stored
       IN  page' = [First(found) EXCEPT !.streaming = FALSE, !.abort = NoOne]
    /\ stream' = [q \in DOMAIN stream |-> [stream[q] EXCEPT !.phase = "closed"]]
    /\ kept' = IF fallback' = fallback THEN kept ELSE kept \cap AskedIn(stored)
    /\ UNCHANGED <<stored, made, left, disturbed>>

Finish(q) == q \in DOMAIN stream /\ (End(q) \/ Break(q))

PageNext ==
    \/ NewChat \/ Select \/ Delete \/ Submit \/ Abort \/ Reopen
    \/ \E q \in DOMAIN stream :
          Token(q) \/ Done(q) \/ ErrorEvent(q) \/ Break(q) \/ End(q)

\* A response ends: the server has a deadline per question, and a connection that
\* breaks is an error.
PageSpec ==
    PageInit /\ [][PageNext]_pageVars /\ \A q \in Questions : WF_pageVars(Finish(q))

-----------------------------------------------------------------------------

\* The types; no session is listed twice, and what is stored does not stream
\* (persistMessages, page.tsx 394-400).
TypeOK ==
    /\ page.streaming \in BOOLEAN
    /\ page.current \in 1 .. made \cup {NoOne}
    /\ page.abort \in DOMAIN stream \cup {NoOne}
    /\ \A q \in DOMAIN stream :
          /\ stream[q].phase \in {"open", "answered", "cut", "closed"}
          /\ stream[q].session \in 1 .. made
    /\ \A k, l \in DOMAIN View : View[k].id = View[l].id => k = l
    /\ \A k \in DOMAIN View : \A i \in DOMAIN View[k].messages : ~ View[k].messages[i].live

\* A session holds, in order, questions asked in it and no other, and every one of
\* them that was answered or failed, also while localStorage refuses to be written
\* (sessions.ts 11-13); unless a stream ended after its session was left, or two
\* streams overlapped (page.tsx 464-509).
SessionsKeepTheirOwn ==
    disturbed = {} => \A k \in DOMAIN View :
        LET msgs == View[k].messages
            asked == {i \in DOMAIN msgs : msgs[i].role = "user"}
            its(q) == stream[q].session = View[k].id
        IN  /\ \A i \in asked : its(msgs[i].q)
            /\ \A i, j \in asked : i < j => msgs[i].q < msgs[j].q
            /\ \A q \in kept : its(q) => \E i \in asked : msgs[i].q = q

\* The page streams at most one answer and then shows that it does, with the Stop
\* button on that stream; unless a stream breaks, or sends an `error`, after its
\* answer, which clears the flag of the next question (api.ts 142-163, page.tsx 491-508).
OneStreamAtATime ==
    "late" \notin disturbed =>
        \A q \in DOMAIN stream : stream[q].phase = "open" => page.streaming /\ page.abort = q

\* A question gets the form back, whatever happens to the sessions meanwhile; but
\* for a response that ends without `done` or `error` (api.ts 86).
StreamingEnds ==
    page.streaming ~> (~ page.streaming \/ \E q \in DOMAIN stream : stream[q].phase = "cut")
=============================================================================
