------------------------------- MODULE SqlAgent -------------------------------
(***************************************************************************)
(* text_to_sql of app/sql/agent.py: the model writes a statement, the      *)
(* static check lets it pass or not, the database runs it or raises; what  *)
(* fails is told to the model, up to MaxRetries times, and what ran is     *)
(* explained.  Every await is the end of a step: the thread that builds    *)
(* the schema, each call of the model, the thread that runs the statement. *)
(*                                                                         *)
(* A statement is what the static check sees of it: its flaws, and the     *)
(* names its pattern finds after FROM and JOIN.  What the database reads   *)
(* for it is not modelled, and no property speaks of it.  Rows are         *)
(* represented by the statement they were fetched with.                    *)
(***************************************************************************)
EXTENDS Integers, Sequences, FiniteSets

CONSTANTS
    Calls,          \* calls of text_to_sql
    Statements,     \* what the model may write
    Tables,         \* names the pattern may find, without their schema
    AllowedTables,  \* ALLOWED_TABLES, the catalog
    MaxRetries,     \* _MAX_RETRIES
    NoStatement     \* the empty string sql starts with, and no rows

\* What validate_sql looks for, in its order.
Flaws == <<"empty", "comment", "semicolon", "no SELECT", "UNION", "WITH", "INTO">>

StatementType == [flaws : SUBSET {Flaws[i] : i \in DOMAIN Flaws}, refs : SUBSET Tables]

ASSUME AgentAssumption ==
    /\ MaxRetries \in Nat
    /\ AllowedTables \subseteq Tables
    /\ Statements \subseteq StatementType
    /\ NoStatement \notin Statements

VARIABLES
    schema,   \* _schema_ddl is built
    job,      \* per call, its next await and its locals
    ran       \* history: the statements handed to the database

agentVars == <<schema, job, ran>>

NoResult == [kind |-> "none", sql |-> NoStatement, rows |-> NoStatement, retries |-> 0]

\* told are the failed attempts the messages hold, out is what the call comes to.
Fresh == [pc |-> "idle", attempt |-> 0, sql |-> NoStatement, rows |-> NoStatement,
          told |-> <<>>, out |-> NoResult]

-----------------------------------------------------------------------------

\* validate_sql(s) returns (True, ""): every check passes.
Validated(s) ==
    /\ \A i \in DOMAIN Flaws : Flaws[i] \notin s.flaws
    /\ s.refs # {}
    /\ s.refs \subseteq AllowedTables

\* The reason of the first check that fails.
Reason(s) ==
    CASE \E i \in DOMAIN Flaws : Flaws[i] \in s.flaws ->
            Flaws[CHOOSE i \in DOMAIN Flaws :
                     /\ Flaws[i] \in s.flaws
                     /\ \A j \in 1 .. i - 1 : Flaws[j] \notin s.flaws]
      [] OTHER -> IF s.refs = {} THEN "no table" ELSE "not in allowlist"

Awaits(c, l) == job[c].pc = l

Set(c, j) == job' = [job EXCEPT ![c] = j]

Ended(j, kind, sql, rows) ==
    [j EXCEPT !.pc = "done",
              !.out = [kind |-> kind, sql |-> sql, rows |-> rows, retries |-> Len(j.told)]]

Raises(c) == Set(c, Ended(job[c], "raised", NoStatement, NoStatement))

\* Mutants, here and below: slips a change to the code could make, each checked
\* to break a property.  A statement that does not run is tried again in silence:
ToldInvalid(j, s, why) ==
    IF why = "execution" THEN j ELSE [j EXCEPT !.told = Append(@, [sql |-> s, why |-> why])]

\* messages.append(...) twice; retries += 1.
Told(j, s, why) == [j EXCEPT !.told = Append(@, [sql |-> s, why |-> why])]

\* Mutant: one attempt too many.
OneMore(j) ==
    IF j.attempt <= MaxRetries THEN [j EXCEPT !.pc = "generate", !.attempt = @ + 1]
    ELSE [j EXCEPT !.pc = "explain"]

\* `continue`, or the end of range(_MAX_RETRIES + 1).
NextAttempt(j) ==
    IF j.attempt < MaxRetries THEN [j EXCEPT !.pc = "generate", !.attempt = @ + 1]
    ELSE [j EXCEPT !.pc = "explain"]

-----------------------------------------------------------------------------

AgentInit ==
    /\ schema = FALSE
    /\ job = [c \in Calls |-> Fresh]
    /\ ran = {}

\* The call starts and runs up to asyncio.to_thread(_build_schema_ddl).
Begin(c) ==
    /\ Awaits(c, "idle")
    /\ Set(c, [Fresh EXCEPT !.pc = "schema"])
    /\ UNCHANGED <<schema, ran>>

\* _build_schema_ddl: its thread looks at the cache of the process first.
CheckSchema(c) ==
    /\ Awaits(c, "schema")
    /\ Set(c, [job[c] EXCEPT !.pc = IF schema THEN "generate" ELSE "build"])
    /\ UNCHANGED <<schema, ran>>

\* It found none: the database is asked, or raises, whoever has built one since.
BuildSchema(c) ==
    /\ Awaits(c, "build")
    /\ \/ schema' = TRUE /\ Set(c, [job[c] EXCEPT !.pc = "generate"])
       \/ Raises(c) /\ UNCHANGED schema
    /\ UNCHANGED ran

\* The model writes s, which is checked; or its call raises.
Generate(c) ==
    /\ Awaits(c, "generate")
    /\ \/ \E s \in Statements :
             Set(c, IF Validated(s) THEN [job[c] EXCEPT !.pc = "execute", !.sql = s]
                    ELSE NextAttempt(Told(job[c], s, Reason(s))))
       \/ Raises(c)
    /\ UNCHANGED <<schema, ran>>

\* Mutant: the return after the last failure is lost.
ExecuteGoesOn(c) ==
    LET s == job[c].sql
    IN  /\ Awaits(c, "execute")
        /\ ran' = ran \cup {s}
        /\ \/ Set(c, [job[c] EXCEPT !.pc = "explain", !.rows = s])
           \/ Set(c, NextAttempt(Told(job[c], s, "execution")))
        /\ UNCHANGED schema

\* _execute_sql returns rows, or raises; after the last attempt that is the result.
Execute(c) ==
    LET s == job[c].sql
        failed == Told(job[c], s, "execution")
    IN  /\ Awaits(c, "execute")
        /\ ran' = ran \cup {s}
        /\ \/ Set(c, [job[c] EXCEPT !.pc = "explain", !.rows = s])
           \/ Set(c, IF job[c].attempt = MaxRetries
                     THEN Ended(failed, "failed", s, NoStatement)
                     ELSE NextAttempt(failed))
        /\ UNCHANGED schema

\* The model explains the rows, and the call returns; or its call raises.
Explain(c) ==
    /\ Awaits(c, "explain")
    /\ \/ Set(c, Ended(job[c], "answer", job[c].sql, job[c].rows))
       \/ Raises(c)
    /\ UNCHANGED <<schema, ran>>

\* The deadline of the route cancels the call at the await it is in; a thread that
\* has started goes on.
Cancel(c) ==
    /\ job[c].pc \notin {"idle", "done"}
    /\ Set(c, Ended(job[c], "cancelled", NoStatement, NoStatement))
    /\ \/ UNCHANGED <<schema, ran>>
       \/ job[c].pc \in {"schema", "build"} /\ schema' = TRUE /\ UNCHANGED ran
       \/ Awaits(c, "execute") /\ ran' = ran \cup {job[c].sql} /\ UNCHANGED schema

AgentStep(c) ==
    CheckSchema(c) \/ BuildSchema(c) \/ Generate(c) \/ Execute(c) \/ Explain(c) \/ Cancel(c)

AgentNext == \E c \in Calls : Begin(c) \/ AgentStep(c)

AgentSpec == AgentInit /\ [][AgentNext]_agentVars

-----------------------------------------------------------------------------

\* Every attempt that failed has been told to the model before the next one, and a
\* call reports as many retries: one more than _MAX_RETRIES when all of them fail.
RetriesBounded ==
    \A c \in Calls :
        /\ job[c].pc \in {"generate", "execute"} => Len(job[c].told) = job[c].attempt
        /\ job[c].out.kind \in {"answer", "failed"} =>
              /\ job[c].out.retries = Len(job[c].told)
              /\ job[c].out.retries <= MaxRetries + 1

\* What a caller can rely on, by the retries alone.  Up to MaxRetries of them, an
\* answer shows the rows of the statement it names.  One more, and no attempt came
\* to anything: an answer then shows no rows, its last attempt did not pass the check,
\* and it names, and explains as empty, whatever passed it before, refused by the
\* database or not (agent.py:223-228, 260-268); a failure names the statement the
\* database refused last.
AnswersShowWhatRan ==
    \A c \in Calls :
        LET out == job[c].out
            last == job[c].told[MaxRetries + 1]
        IN  /\ out.kind = "answer" =>
                  IF out.retries <= MaxRetries
                  THEN out.rows = out.sql /\ out.sql \in ran
                  ELSE out.rows = NoStatement /\ last.why # "execution"
            /\ out.kind = "failed" =>
                  /\ out.retries = MaxRetries + 1 /\ last = [sql |-> out.sql, why |-> "execution"]
                  /\ out.sql \in ran
=============================================================================
