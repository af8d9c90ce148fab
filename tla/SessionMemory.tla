---------------------------- MODULE SessionMemory ----------------------------
(***************************************************************************)
(* The conversation memory of app/retrieval/session_memory.py, for one     *)
(* session: sessions share no key.  Redis holds two keys, the recent turns *)
(* and the rolling summary.  append_turns reads both, folds the oldest     *)
(* turns into the summary when they exceed the token budget, and writes    *)
(* them back; load_memory reads both.  Every Redis command and the call to *)
(* the summarizer is a step, so appends and loads of one session (two      *)
(* tabs, or a request that goes on after "stop & edit") interleave.        *)
(*                                                                         *)
(* A user message and its answer are appended together and every slice the *)
(* code takes is even, so the unit is the exchange: KeepRecent and HardCap *)
(* are half of _KEEP_RECENT and _HARD_CAP.  A summary is the set of        *)
(* exchanges it covers.                                                    *)
(***************************************************************************)
EXTENDS Integers, Sequences, FiniteSets

CONSTANTS
    Procs,        \* requests of the session in flight
    KeepRecent,   \* _KEEP_RECENT, in exchanges
    HardCap,      \* _HARD_CAP, in exchanges
    MaxExchanges  \* bound of the model: exchanges appended

ASSUME MemoryAssumption ==
    /\ KeepRecent \in Nat \ {0}
    /\ HardCap \in Nat /\ HardCap > KeepRecent
    /\ MaxExchanges \in Nat

VARIABLES
    turns,      \* Redis: session:<id>:turns, oldest first
    summary,    \* Redis: session:<id>:summary
    op,         \* per request, its call: the next command and the locals
    started,    \* number of exchanges whose append has started
    done,       \* history: exchanges whose append has returned
    forgotten,  \* history: exchanges dropped by the cap, a TTL or the summarizer
    raced       \* history: two appends have overlapped

vars == <<turns, summary, op, started, done, forgotten, raced>>

Exchanges == 1 .. MaxExchanges

Nothing == 0

\* A request with no call in progress.  mine is the exchange it appends
\* (Nothing for a load), recent and gist its copies of the turns and of the
\* summary, and expected the history of done when the call started.
Idle == [pc |-> "idle", mine |-> Nothing, recent |-> <<>>, gist |-> {},
         expected |-> {}]

-----------------------------------------------------------------------------

Elements(s) == {s[i] : i \in 1 .. Len(s)}

\* s[-n:]
LastN(s, n) == IF Len(s) <= n THEN s ELSE SubSeq(s, Len(s) - n + 1, Len(s))

\* s[:-n]
AllButLastN(s, n) == IF Len(s) <= n THEN <<>> ELSE SubSeq(s, 1, Len(s) - n)

\* Mutants, here and below: slips a change to the code could make, each checked
\* to break a property.  The new exchange goes in front:
GrownInFront(o) == <<o.mine>> \o o.recent

\* turns = [*mem.turns, user, assistant]
Grown(o) == Append(o.recent, o.mine)

At(p, l) == op[p].pc = l

Become(p, o) == op' = [op EXCEPT ![p] = o]

\* An append that has read the turns and not written them back.
Appending(p) == op[p].mine # Nothing

-----------------------------------------------------------------------------

Init ==
    /\ turns = <<>> /\ summary = {}
    /\ op = [p \in Procs |-> Idle]
    /\ started = 0 /\ done = {} /\ forgotten = {} /\ raced = FALSE

AtRest(p) == op[p].pc \in {"idle", "done"}

\* load_memory, called by a route or a pipeline: turns_raw = await r.get(tk).
Load(p) ==
    /\ AtRest(p)
    /\ Become(p, [Idle EXCEPT !.pc = "summary", !.recent = turns, !.expected = done])
    /\ UNCHANGED <<turns, summary, started, done, forgotten, raced>>

\* append_turns starts with a load_memory of its own: turns_raw = await r.get(tk).
AppendTurns(p) ==
    /\ AtRest(p)
    /\ started < MaxExchanges
    /\ started' = started + 1
    /\ Become(p, [Idle EXCEPT !.pc = "summary", !.mine = started', !.recent = turns])
    /\ raced' = (raced \/ \E q \in Procs : Appending(q))
    /\ UNCHANGED <<turns, summary, done, forgotten>>

\* Mutant: a load returns early when there are no turns.
GetSummaryShortcut(p) ==
    /\ At(p, "summary")
    /\ \/ /\ op[p].mine = Nothing
          /\ Become(p, [op[p] EXCEPT !.pc = "done",
                                     !.gist = IF op[p].recent = <<>> THEN {} ELSE summary])
       \/ /\ op[p].mine # Nothing
          /\ \E l \in {"write", "summarize"} :
                /\ l = "summarize" => Len(Grown(op[p])) > KeepRecent
                /\ Become(p, [op[p] EXCEPT !.pc = l, !.gist = summary,
                                           !.recent = Grown(op[p])])
    /\ UNCHANGED <<turns, summary, started, done, forgotten, raced>>

\* summary = await r.get(sk): a load returns; an append adds its exchange and,
\* if the turns exceed the token budget (they may, or not), folds the oldest.
GetSummary(p) ==
    /\ At(p, "summary")
    /\ \/ /\ op[p].mine = Nothing
          /\ Become(p, [op[p] EXCEPT !.pc = "done", !.gist = summary])
       \/ /\ op[p].mine # Nothing
          /\ \E l \in {"write", "summarize"} :
                /\ l = "summarize" => Len(Grown(op[p])) > KeepRecent
                /\ Become(p, [op[p] EXCEPT !.pc = l, !.gist = summary,
                                           !.recent = Grown(op[p])])
    /\ UNCHANGED <<turns, summary, started, done, forgotten, raced>>

\* summary = await summarize(summary, overflow): the model covers what it is
\* given, or returns an empty text, or the call raises.
Summarize(p) ==
    LET overflow == Elements(AllButLastN(op[p].recent, KeepRecent))
    IN  /\ At(p, "summarize")
        /\ \/ /\ Become(p, [op[p] EXCEPT !.pc = "fold", !.gist = @ \cup overflow])
              /\ UNCHANGED forgotten
           \/ /\ Become(p, [op[p] EXCEPT !.pc = "fold", !.gist = {}])
              /\ forgotten' = forgotten \cup op[p].gist \cup overflow
           \/ /\ Become(p, [op[p] EXCEPT !.pc = "write"])
              /\ UNCHANGED forgotten
        /\ UNCHANGED <<turns, summary, started, done, raced>>

\* Mutant: the turns are trimmed although the SET raised.
SetSummaryTrimming(p) ==
    /\ At(p, "fold")
    /\ summary' \in {summary, op[p].gist}
    /\ Become(p, [op[p] EXCEPT !.pc = "write", !.recent = LastN(@, KeepRecent)])
    /\ UNCHANGED <<turns, started, done, forgotten, raced>>

\* await r.set(_summary_key(session_id), summary, ex=_TTL); turns = turns[-4:].
\* If the SET raises, applied or not, the turns stay whole.
SetSummary(p) ==
    /\ At(p, "fold")
    /\ \/ /\ summary' = op[p].gist
          /\ Become(p, [op[p] EXCEPT !.pc = "write", !.recent = LastN(@, KeepRecent)])
       \/ /\ summary' \in {summary, op[p].gist}
          /\ Become(p, [op[p] EXCEPT !.pc = "write"])
    /\ UNCHANGED <<turns, started, done, forgotten, raced>>

\* Mutant: the hard cap is dropped.
SetTurnsUncapped(p) ==
    /\ At(p, "write")
    /\ turns' = op[p].recent
    /\ done' = done \cup {op[p].mine}
    /\ Become(p, [Idle EXCEPT !.pc = "done"])
    /\ UNCHANGED <<summary, started, forgotten, raced>>

\* await r.set(_turns_key(session_id), json.dumps(turns[-20:]), ex=_TTL)
SetTurns(p) ==
    /\ At(p, "write")
    /\ turns' = LastN(op[p].recent, HardCap)
    /\ forgotten' = forgotten \cup Elements(AllButLastN(op[p].recent, HardCap))
    /\ done' = done \cup {op[p].mine}
    /\ Become(p, [Idle EXCEPT !.pc = "done"])
    /\ UNCHANGED <<summary, started, raced>>

\* The call ends between two commands: a GET or the last SET raises, the
\* request is cancelled, or the container stops.
Abort(p) ==
    /\ ~ AtRest(p)
    /\ Become(p, Idle)
    /\ UNCHANGED <<turns, summary, started, done, forgotten, raced>>

\* The 24 h TTL of a key runs out.
ExpireTurns ==
    /\ turns # <<>>
    /\ turns' = <<>>
    /\ forgotten' = forgotten \cup Elements(turns)
    /\ UNCHANGED <<summary, op, started, done, raced>>

ExpireSummary ==
    /\ summary # {}
    /\ summary' = {}
    /\ forgotten' = forgotten \cup summary
    /\ UNCHANGED <<turns, op, started, done, raced>>

Next ==
    \/ \E p \in Procs :
          \/ Load(p) \/ AppendTurns(p) \/ GetSummary(p)
          \/ Summarize(p) \/ SetSummary(p) \/ SetTurns(p) \/ Abort(p)
    \/ ExpireTurns
    \/ ExpireSummary

Spec == Init /\ [][Next]_vars

-----------------------------------------------------------------------------

OpType ==
    [pc : {"idle", "summary", "summarize", "fold", "write", "done"},
     mine : Exchanges \cup {Nothing}, recent : Seq(Exchanges),
     gist : SUBSET Exchanges, expected : SUBSET Exchanges]

\* The types of the variables; the stored turns never exceed the hard cap.
TypeOK ==
    /\ turns \in Seq(Exchanges) /\ Len(turns) <= HardCap
    /\ summary \in SUBSET Exchanges
    /\ op \in [Procs -> OpType]
    /\ started \in 0 .. MaxExchanges
    /\ done \in SUBSET Exchanges /\ forgotten \in SUBSET Exchanges
    /\ raced \in BOOLEAN

Remembered == Elements(turns) \cup summary

\* No exchange is lost by the folding: as long as no two appends overlap, every
\* appended exchange is in the turns or in the summary, whatever fails or
\* stops between the two SETs.
FoldingLosesNothing == ~ raced => done \subseteq Remembered \cup forgotten

\* A load is no snapshot, and misses nothing all the same: it reads the turns
\* before the summary, an append writes the summary before the turns.
LoadsSeeEverything ==
    \A p \in Procs : At(p, "done") /\ ~ raced =>
        op[p].expected \subseteq Elements(op[p].recent) \cup op[p].gist \cup forgotten

\* The stored turns are in the order they were appended, without repetition.
TurnsInOrder ==
    ~ raced => \A i, j \in 1 .. Len(turns) : i < j => turns[i] < turns[j]

\* What session_memory.py:4-5 says, "keeps the recent turns verbatim and [...]
\* folds the oldest into a rolling summary": an appended exchange stays in the
\* turns or in the summary until the cap or a TTL drops it.
AppendedIsRemembered == done \subseteq Remembered \cup forgotten
=============================================================================
