-------------------------------- MODULE Tracing --------------------------------
(***************************************************************************)
(* The decorator @traced of app/observability/tracing.py around            *)
(* text_to_sql, with its circuit breaker.  All traced functions are        *)
(* coroutines of one event loop and the wrapper awaits nothing but the     *)
(* function: it builds and posts the run in the step the function begins   *)
(* in, ends and patches it in the step the function ends in.               *)
(*                                                                         *)
(* settings.langsmith_tracing is on; where it is off the wrapper is the    *)
(* function (line 163).  The result is an SQLResult, whose str() does not  *)
(* raise: the wrapper takes it outside _safe_end, where a result that      *)
(* cannot be printed would turn an answer into an exception (line 183).    *)
(***************************************************************************)
EXTENDS SqlAgent

CONSTANT FailThreshold   \* _FAIL_THRESHOLD

ASSUME BreakerAssumption == FailThreshold \in Nat \ {0}

VARIABLES
    breaker,    \* _tracing_disabled and _consecutive_failures
    run,        \* per call, what LangSmith has of its run
    traced,     \* the calls that hold a RunTree
    unclosed,   \* history: the calls whose end or patch failed
    returned    \* per call, what its caller gets

traceVars == <<breaker, run, traced, unclosed, returned>>

vars == <<agentVars, traceVars>>

-----------------------------------------------------------------------------

\* Mutant: the breaker trips one failure late.
LateFailure(b) ==
    [failures |-> b.failures + 1, disabled |-> b.disabled \/ b.failures >= FailThreshold]

\* _record_failure
Failure(b) ==
    [failures |-> b.failures + 1, disabled |-> b.disabled \/ b.failures + 1 >= FailThreshold]

\* _record_success
Success(b) == [b EXCEPT !.failures = 0]

\* What _safe_post and _safe_patch may come to.
SafeCall(b) ==
    IF b.disabled THEN {[breaker |-> b, ok |-> FALSE]}
    ELSE {[breaker |-> Success(b), ok |-> TRUE], [breaker |-> Failure(b), ok |-> FALSE]}

\* Mutant: the breaker is not looked at again.
SafeEndAlways(b) == {b, Failure(b)}

\* _safe_end: local to the process, it records failures only.
SafeEnd(b) == IF b.disabled THEN {b} ELSE {b, Failure(b)}

\* run = _build_run(...), which may fail; then _safe_post(run).
Enter(c) ==
    \/ /\ breaker.disabled
       /\ UNCHANGED <<breaker, run, traced>>
    \/ /\ ~ breaker.disabled
       /\ breaker' = Failure(breaker)
       /\ UNCHANGED <<run, traced>>
    \/ /\ ~ breaker.disabled
       /\ traced' = traced \cup {c}
       /\ \E p \in SafeCall(breaker) :
             /\ breaker' = p.breaker
             /\ run' = [run EXCEPT ![c] = IF p.ok THEN "open" ELSE @]

\* Mutant: only what returns is patched.
CloseReturned(c, kind) ==
    IF c \in traced /\ kind \in {"answer", "failed"}
    THEN \E b \in SafeEnd(breaker) : \E p \in SafeCall(b) :
            /\ breaker' = p.breaker
            /\ run' = [run EXCEPT ![c] = IF p.ok THEN "closed" ELSE @]
            /\ unclosed' = IF p.ok THEN unclosed ELSE unclosed \cup {c}
    ELSE UNCHANGED <<breaker, run, unclosed>>

\* The function returned, or raised an Exception: _safe_end, then _safe_patch.
\* CancelledError is no Exception: it leaves the run as it is.
Close(c, kind) ==
    IF c \in traced /\ kind # "cancelled"
    THEN \E b \in SafeEnd(breaker) : \E p \in SafeCall(b) :
            /\ breaker' = p.breaker
            /\ run' = [run EXCEPT ![c] = IF p.ok THEN "closed" ELSE @]
            /\ unclosed' = IF p.ok THEN unclosed ELSE unclosed \cup {c}
    ELSE UNCHANGED <<breaker, run, unclosed>>

\* Mutant: the exception is logged and swallowed.
LeaveQuietly(c) ==
    /\ Close(c, job'[c].out.kind)
    /\ returned' = [returned EXCEPT ![c] =
                       IF job'[c].out.kind = "raised" THEN NoResult ELSE job'[c].out]

\* The wrapper returns the result, or raises the exception, of the function.
Leave(c) ==
    /\ Close(c, job'[c].out.kind)
    /\ returned' = [returned EXCEPT ![c] = job'[c].out]

-----------------------------------------------------------------------------

Init ==
    /\ AgentInit
    /\ breaker = [failures |-> 0, disabled |-> FALSE]
    /\ run = [c \in Calls |-> "unknown"]
    /\ traced = {} /\ unclosed = {}
    /\ returned = [c \in Calls |-> NoResult]

\* async_wrapper up to the first await of the function.
Call(c) ==
    /\ Begin(c)
    /\ Enter(c)
    /\ UNCHANGED <<unclosed, returned>>

\* A step of the function, and what the wrapper does if it is the last.
Proceed(c) ==
    /\ AgentStep(c)
    /\ IF job'[c].pc = "done" THEN Leave(c) ELSE UNCHANGED <<breaker, run, unclosed, returned>>
    /\ UNCHANGED traced

Next == \E c \in Calls : Call(c) \/ Proceed(c)

Spec == Init /\ [][Next]_vars

-----------------------------------------------------------------------------

ResultType ==
    [kind : {"none", "answer", "failed", "raised", "cancelled"},
     sql : Statements \cup {NoStatement}, rows : Statements \cup {NoStatement},
     retries : 0 .. MaxRetries + 1]

Reasons == {Flaws[i] : i \in DOMAIN Flaws} \cup {"no table", "not in allowlist", "execution"}

JobType ==
    [pc : {"idle", "schema", "build", "generate", "execute", "explain", "done"},
     attempt : 0 .. MaxRetries,
     sql : Statements \cup {NoStatement}, rows : Statements \cup {NoStatement},
     told : Seq([sql : Statements, why : Reasons]), out : ResultType]

\* The types of the variables; no call makes more than MaxRetries + 1 attempts.
TypeOK ==
    /\ schema \in BOOLEAN
    /\ job \in [Calls -> JobType]
    /\ ran \subseteq Statements
    /\ breaker \in [failures : Nat, disabled : BOOLEAN]
    /\ run \in [Calls -> {"unknown", "open", "closed"}]
    /\ traced \subseteq Calls /\ unclosed \subseteq Calls
    /\ returned \in [Calls -> ResultType]

\* The breaker is open exactly when the failures since the last success have
\* reached the threshold, whichever calls they were of, and never before.
TripsAtThreshold == breaker.disabled <=> breaker.failures >= FailThreshold

\* "subsequent tracing calls are skipped entirely" (tracing.py:156): once it has
\* tripped, the calls in flight leave LangSmith and the breaker alone too.
QuietOnceTripped ==
    [][breaker.disabled => UNCHANGED <<breaker, run>>]_vars

\* A run that stays open at LangSmith after its call is over belongs to a call
\* that was cancelled, or whose end or patch failed or was skipped.
OpenRunsAreExcused ==
    \A c \in Calls : job[c].pc = "done" /\ run[c] = "open" =>
        c \in unclosed \/ job[c].out.kind = "cancelled"

\* What the callers see: their calls, with the results the wrapper gave them.
CallerView == [c \in Calls |-> [job[c] EXCEPT !.out = returned[c]]]

Untraced == INSTANCE SqlAgent WITH job <- CallerView

\* "the wrapped function always runs and its result/exception is
\* returned/propagated unchanged" (tracing.py:154-155): to its callers the traced
\* function is the function, whatever LangSmith does.
TracedIsUntraced == Untraced!AgentSpec
=============================================================================
