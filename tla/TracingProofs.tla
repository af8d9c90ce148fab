----------------------------- MODULE TracingProofs -----------------------------
(* The SQL agent under @traced, for any calls, statements, tables, number of *)
(* retries and threshold: what the calls report, when the breaker trips,     *)
(* which runs stay open, and that the traced function implements the         *)
(* untraced one.                                                             *)
EXTENDS Tracing, WellFoundedInduction, TLAPS

-----------------------------------------------------------------------------
(* One call.  JobOK says what a call in state j knows, r being the          *)
(* statements the database has been handed.                                 *)

\* An answer is about rows that were fetched, or every attempt failed, the last of
\* them before it ran.
Founded(j, sql, rows, r) ==
    IF Len(j.told) <= MaxRetries THEN rows = sql /\ sql \in r
    ELSE rows = NoStatement /\ j.told[MaxRetries + 1].why # "execution"

\* The last of all attempts ran, and was refused.
Refused(j, sql, r) ==
    /\ Len(j.told) = MaxRetries + 1
    /\ j.told[MaxRetries + 1] = [sql |-> sql, why |-> "execution"]
    /\ sql \in r

JobOK(j, r) ==
    /\ j \in JobType
    /\ Len(j.told) <= MaxRetries + 1
    /\ j.pc \in {"idle", "schema", "build"} => j.told = <<>> /\ j.attempt = 0
    /\ j.pc \in {"generate", "execute"} => Len(j.told) = j.attempt
    /\ j.pc \in {"idle", "schema", "build", "generate", "execute"} => j.rows = NoStatement
    /\ j.pc = "execute" => j.sql \in Statements
    /\ j.pc = "explain" => Founded(j, j.sql, j.rows, r)
    /\ j.pc # "done" => j.out = NoResult
    /\ j.out.kind \in {"answer", "failed"} => j.out.retries = Len(j.told)
    /\ j.out.kind = "answer" => Founded(j, j.out.sql, j.out.rows, r)
    /\ j.out.kind = "failed" => Refused(j, j.out.sql, r)

\* A set of numbers up to n that is not empty has a least one.
LEMMA LeastOf ==
    ASSUME NEW n \in Nat, NEW S \in SUBSET (1 .. n), S # {}
    PROVE  \E i \in S : \A j \in 1 .. i - 1 : j \notin S
<1>0. S \in SUBSET Nat
  BY SMT
<1>1. PICK m \in S : \A k \in S : ~ (<<k, m>> \in OpToRel(<, Nat))
  BY <1>0, WFMin, NatLessThanWellFounded, Zenon
<1>2. \A k \in S : ~ (k < m)
  BY <1>0, <1>1, Zenon DEF OpToRel
<1> QED BY <1>2, SMT

LEMMA Appended ==
    ASSUME NEW E, NEW q \in Seq(E), NEW e \in E
    PROVE  /\ Append(q, e) \in Seq(E) /\ Append(q, e) # <<>>
           /\ Len(Append(q, e)) = Len(q) + 1
           /\ Append(q, e)[Len(q) + 1] = e
<1>1. Append(q, e) \in Seq(E) /\ Len(Append(q, e)) = Len(q) + 1 /\ Len(q) \in Nat
  OBVIOUS
<1>2. Append(q, e)[Len(q) + 1] = e
  OBVIOUS
<1>3. Len(<<>>) = 0
  OBVIOUS
<1>4. Append(q, e) # <<>>
  BY <1>1, <1>3
<1> QED BY <1>1, <1>2, <1>4

\* The reason a check gives is a known one, and never "execution".
LEMMA ReasonKnown ==
    ASSUME NEW s
    PROVE  Reason(s) \in Reasons /\ Reason(s) # "execution"
<1>1. CASE \E i \in DOMAIN Flaws : Flaws[i] \in s.flaws
  <2> DEFINE S == {i \in 1 .. 7 : Flaws[i] \in s.flaws}
  <2>0. DOMAIN Flaws = 1 .. 7
    BY DEF Flaws
  <2>3. PICK n \in S : \A j \in 1 .. n - 1 : j \notin S
    <3>1. S \in SUBSET (1 .. 7) /\ S # {}
      BY <1>1, <2>0
    <3> HIDE DEF S
    <3> QED BY <3>1, LeastOf
  <2>1. \E k \in DOMAIN Flaws : Flaws[k] \in s.flaws /\ \A j \in 1 .. k - 1 : Flaws[j] \notin s.flaws
    <3>1. \A j \in 1 .. n - 1 : j \in 1 .. 7
      BY <2>3
    <3> QED BY <2>0, <2>3, <3>1
  <2>2. \E i \in DOMAIN Flaws : Reason(s) = Flaws[i]
    <3> DEFINE P(k) == /\ Flaws[k] \in s.flaws
                        /\ \A j \in 1 .. k - 1 : Flaws[j] \notin s.flaws
           ch == CHOOSE k \in DOMAIN Flaws : P(k)
    <3>1. ch \in DOMAIN Flaws
      BY <2>1, Zenon
    <3>2. Reason(s) = Flaws[ch]
      BY <1>1, Zenon DEF Reason
    <3> QED BY <3>1, <3>2
  <2>4. \A k \in DOMAIN Flaws : Flaws[k] \in Reasons /\ Flaws[k] # "execution"
    <3> SUFFICES ASSUME NEW k \in DOMAIN Flaws
                 PROVE  Flaws[k] \in Reasons /\ Flaws[k] # "execution"
      OBVIOUS
    <3>1. k \in 1 .. 7
      BY <2>0
    <3>2. k = 1 \/ k = 2 \/ k = 3 \/ k = 4 \/ k = 5 \/ k = 6 \/ k = 7
      BY <3>1
    <3>3. Flaws[k] \in Reasons
      <4>1. Flaws[k] \in {Flaws[i] : i \in DOMAIN Flaws}
        BY Zenon
      <4> QED BY <4>1, Zenon DEF Reasons
    <3>4. Flaws[k] # "execution"
      <4>1. /\ Flaws[1] = "empty" /\ Flaws[2] = "comment" /\ Flaws[3] = "semicolon"
            /\ Flaws[4] = "no SELECT" /\ Flaws[5] = "UNION" /\ Flaws[6] = "WITH"
            /\ Flaws[7] = "INTO"
        BY DEF Flaws
      <4> QED BY <3>2, <4>1
    <3> QED BY <3>3, <3>4
  <2> QED BY <2>2, <2>4
<1>2. CASE ~ \E i \in DOMAIN Flaws : Flaws[i] \in s.flaws
  <2>1. Reason(s) = IF s.refs = {} THEN "no table" ELSE "not in allowlist"
    BY <1>2 DEF Reason
  <2> QED BY <2>1 DEF Reasons
<1> QED BY <1>1, <1>2

\* The statements handed to the database only grow.
LEMMA JobMonotone ==
    ASSUME NEW j, NEW r, NEW r2, JobOK(j, r), r \subseteq r2
    PROVE  JobOK(j, r2)
BY DEF JobOK, Founded, Refused

\* A call that ends, however it does, reports the failures it was told.
LEMMA EndedOK ==
    ASSUME NEW j \in JobType, NEW r, Len(j.told) <= MaxRetries + 1,
           NEW kind \in {"answer", "failed", "raised", "cancelled"},
           NEW sql \in Statements \cup {NoStatement},
           NEW rows \in Statements \cup {NoStatement},
           kind = "answer" => Founded(j, sql, rows, r),
           kind = "failed" => Refused(j, sql, r)
    PROVE  JobOK(Ended(j, kind, sql, rows), r) /\ Ended(j, kind, sql, rows).pc = "done"
<1> DEFINE o == [kind |-> kind, sql |-> sql, rows |-> rows, retries |-> Len(j.told)]
           e == Ended(j, kind, sql, rows)
<1>1. /\ j \in JobType /\ Len(j.told) \in Nat /\ Len(j.told) <= MaxRetries + 1
  BY DEF JobType
<1>2. o \in ResultType
  BY <1>1, AgentAssumption DEF ResultType
<1>3. /\ e \in JobType /\ e.pc = "done" /\ e.out = o /\ e.told = j.told
  BY <1>1, <1>2 DEF JobType, Ended
<1>4. /\ Founded(e, sql, rows, r) <=> Founded(j, sql, rows, r)
      /\ Refused(e, sql, r) <=> Refused(j, sql, r)
  BY <1>3 DEF Founded, Refused
<1> QED
  BY <1>1, <1>3, <1>4 DEF JobOK

\* What the model is told of an attempt that failed.
LEMMA ToldType ==
    ASSUME NEW j \in JobType, NEW s \in Statements, NEW why \in Reasons
    PROVE  /\ Told(j, s, why) \in JobType
           /\ Told(j, s, why) = [j EXCEPT !.told = Told(j, s, why).told]
           /\ Len(Told(j, s, why).told) = Len(j.told) + 1
           /\ Told(j, s, why).told # <<>>
           /\ Told(j, s, why).told[Len(j.told) + 1] = [sql |-> s, why |-> why]
<1> DEFINE E == [sql : Statements, why : Reasons]
           m == [sql |-> s, why |-> why]
           t == Told(j, s, why)
<1>1. j.told \in Seq(E) /\ m \in E /\ m.why = why
  BY DEF JobType
<1>2. t = [j EXCEPT !.told = Append(j.told, m)]
  BY DEF Told
<1> HIDE DEF E, m
<1>3. /\ Append(j.told, m) \in Seq(E) /\ Append(j.told, m) # <<>>
      /\ Len(Append(j.told, m)) = Len(j.told) + 1
      /\ Append(j.told, m)[Len(j.told) + 1] = m
  BY <1>1, Appended
<1>4. t \in JobType /\ t.told = Append(j.told, m)
  BY <1>2, <1>3 DEF E, JobType
<1> HIDE DEF t
<1>5. t.told[Len(j.told) + 1] = [sql |-> s, why |-> why]
  BY <1>3, <1>4 DEF m
<1> QED BY <1>2, <1>3, <1>4, <1>5 DEF t

\* An attempt that failed leads to the next one, or to the explanation.
LEMMA NextAttemptOK ==
    ASSUME NEW j, NEW r, JobOK(j, r), j.pc \in {"generate", "execute"},
           NEW s \in Statements, NEW why \in Reasons,
           why = "execution" => j.attempt < MaxRetries
    PROVE  JobOK(NextAttempt(Told(j, s, why)), r)
<1> DEFINE t == Told(j, s, why)
           n == NextAttempt(t)
<1>1. /\ j \in JobType /\ Len(j.told) = j.attempt /\ j.attempt \in 0 .. MaxRetries
      /\ j.rows = NoStatement /\ j.out = NoResult /\ MaxRetries \in Nat
  BY AgentAssumption DEF JobOK, JobType
<1>2. /\ t \in JobType /\ t = [j EXCEPT !.told = t.told]
      /\ Len(t.told) = j.attempt + 1 /\ t.told[j.attempt + 1].why = why
  <2>1. /\ t \in JobType /\ t = [j EXCEPT !.told = t.told]
        /\ Len(t.told) = j.attempt + 1
        /\ t.told[j.attempt + 1] = [sql |-> s, why |-> why]
    BY <1>1, ToldType
  <2> HIDE DEF t
  <2> QED BY <2>1
<1>3. t.attempt = j.attempt /\ t.rows = NoStatement /\ t.out = NoResult
  <2> HIDE DEF t
  <2> QED BY <1>1, <1>2 DEF JobType
<1>4. CASE j.attempt < MaxRetries
  <2>1. /\ n \in JobType /\ n.pc = "generate" /\ n.attempt = j.attempt + 1
        /\ n.told = t.told /\ n.rows = NoStatement /\ n.out = NoResult
    <3>1. t.attempt + 1 \in 0 .. MaxRetries /\ t.attempt < MaxRetries
      BY <1>1, <1>3, <1>4
    <3>2. n = [t EXCEPT !.pc = "generate", !.attempt = t.attempt + 1]
      BY <3>1 DEF NextAttempt
    <3> HIDE DEF t, n
    <3> QED BY <1>1, <1>2, <1>3, <3>1, <3>2 DEF JobType
  <2> QED BY <1>1, <1>2, <1>3, <2>1 DEF JobOK, NoResult
<1>5. CASE ~ (j.attempt < MaxRetries)
  <2>1. /\ n \in JobType /\ n.pc = "explain" /\ n.told = t.told
        /\ n.rows = NoStatement /\ n.out = NoResult
    <3>1. n = [t EXCEPT !.pc = "explain"]
      BY <1>3, <1>5 DEF NextAttempt
    <3> HIDE DEF t, n
    <3> QED BY <1>2, <1>3, <3>1 DEF JobType
  <2>2. why # "execution" /\ j.attempt = MaxRetries
    BY <1>1, <1>5
  <2>3. Founded(n, n.sql, n.rows, r)
    BY <1>1, <1>2, <2>1, <2>2 DEF Founded
  <2> QED BY <1>1, <1>2, <1>3, <2>1, <2>3 DEF JobOK, NoResult
<1> QED BY <1>4, <1>5

-----------------------------------------------------------------------------
(* All calls.  The inductive invariant of the agent, with or without the    *)
(* decorator.                                                               *)

AgentInv ==
    /\ schema \in BOOLEAN
    /\ job = [c \in Calls |-> job[c]]
    /\ \A c \in Calls : JobOK(job[c], ran)
    /\ ran \subseteq Statements

\* What a step of call c does: it moves its own call only.
LEMMA AgentMoves ==
    ASSUME AgentInv, NEW c \in Calls, NEW j, job' = [job EXCEPT ![c] = j],
           NEW r, JobOK(j, r), ran \subseteq r, r \subseteq Statements,
           ran' = r, schema' \in BOOLEAN
    PROVE  AgentInv'
<1>1. \A d \in Calls : job'[d] = IF d = c THEN j ELSE job[d]
  BY DEF AgentInv
<1>2. ASSUME NEW d \in Calls PROVE JobOK(job'[d], r)
  <2>1. CASE d = c
    BY <1>1, <2>1
  <2>2. CASE d # c
    <3>1. JobOK(job[d], ran)
      BY DEF AgentInv
    <3>2. job'[d] = job[d]
      BY <1>1, <2>2
    <3> QED BY <3>1, <3>2, JobMonotone
  <2> QED BY <2>1, <2>2
<1>3. job' = [d \in Calls |-> job'[d]]
  BY DEF AgentInv
<1>4. \A d \in Calls : JobOK(job'[d], ran')
  BY <1>2
<1> QED BY <1>3, <1>4 DEF AgentInv, JobOK

\* Every call, when it starts.
LEMMA FreshOK ==
    ASSUME NEW r
    PROVE  JobOK(Fresh, r) /\ JobOK([Fresh EXCEPT !.pc = "schema"], r)
<1>1. NoResult \in ResultType
  BY AgentAssumption DEF NoResult, ResultType
<1>2. <<>> \in Seq([sql : Statements, why : Reasons]) /\ Len(<<>>) = 0
  OBVIOUS
<1>3. 0 \in 0 .. MaxRetries /\ 0 <= MaxRetries + 1
  BY AgentAssumption
<1>4. Fresh \in JobType /\ [Fresh EXCEPT !.pc = "schema"] \in JobType
  BY <1>1, <1>2, <1>3 DEF Fresh, JobType
<1> QED BY <1>2, <1>3, <1>4 DEF JobOK, Fresh, NoResult

\* A step that ends call c, handing over nothing new.
LEMMA EndMoves ==
    ASSUME AgentInv, NEW c \in Calls,
           NEW kind \in {"answer", "raised", "cancelled"},
           NEW sql \in Statements \cup {NoStatement},
           NEW rows \in Statements \cup {NoStatement},
           kind = "answer" => Founded(job[c], sql, rows, ran),
           Set(c, Ended(job[c], kind, sql, rows)), ran' = ran, schema' \in BOOLEAN
    PROVE  AgentInv'
<1>1. JobOK(job[c], ran) /\ ran \subseteq Statements
  BY DEF AgentInv
<1>t. job[c] \in JobType /\ Len(job[c].told) <= MaxRetries + 1
  BY <1>1 DEF JobOK
<1>2. JobOK(Ended(job[c], kind, sql, rows), ran)
  BY <1>t, EndedOK
<1>3. job' = [job EXCEPT ![c] = Ended(job[c], kind, sql, rows)]
  BY DEF Set
<1> QED BY <1>1, <1>2, <1>3, AgentMoves

\* Every step of the agent keeps the invariant: one step per action.
LEMMA AgentInvStep ==
    ASSUME AgentInv, NEW c \in Calls, Begin(c) \/ AgentStep(c)
    PROVE  AgentInv'
<1> DEFINE j == job[c]
<1>0. /\ JobOK(j, ran) /\ j \in JobType /\ ran \subseteq Statements
      /\ schema \in BOOLEAN
  BY DEF AgentInv, JobOK
<1>t. /\ j.sql \in Statements \cup {NoStatement} /\ j.rows \in Statements \cup {NoStatement}
      /\ NoStatement \in Statements \cup {NoStatement}
  BY <1>0 DEF JobType
<1>1. CASE Begin(c)
  BY <1>0, <1>1, FreshOK, AgentMoves DEF Begin, Set
<1>r. ASSUME Raises(c), ran' = ran, schema' = schema
      PROVE  AgentInv'
  BY <1>0, <1>t, <1>r, EndMoves DEF Raises
<1>2. CASE CheckSchema(c) \/ BuildSchema(c)
  <2>1. ASSUME NEW l \in {"generate", "build"}, Set(c, [j EXCEPT !.pc = l]),
               schema' \in BOOLEAN
        PROVE  AgentInv'
    <3> DEFINE n == [j EXCEPT !.pc = l]
    <3>2. /\ n \in JobType /\ n.pc = l /\ n.told = j.told /\ n.rows = j.rows
          /\ n.attempt = j.attempt /\ n.out = j.out
      BY <1>0 DEF JobType
    <3>3. /\ j.told = <<>> /\ j.attempt = 0 /\ j.out = NoResult /\ Len(j.told) = 0
          /\ j.rows = NoStatement
      BY <1>0, <1>2 DEF CheckSchema, BuildSchema, Awaits, JobOK
    <3>1. JobOK(n, ran)
      BY <3>2, <3>3, AgentAssumption DEF JobOK, NoResult
    <3> QED BY <1>0, <1>2, <2>1, <3>1, AgentMoves DEF CheckSchema, BuildSchema, Set
  <2> QED BY <1>0, <1>2, <1>r, <2>1 DEF CheckSchema, BuildSchema
<1>3. CASE Generate(c)
  <2>1. ASSUME NEW s \in Statements, Validated(s), Set(c, [j EXCEPT !.pc = "execute", !.sql = s])
        PROVE  AgentInv'
    <3> DEFINE n == [j EXCEPT !.pc = "execute", !.sql = s]
    <3>2. /\ n \in JobType /\ n.pc = "execute" /\ n.told = j.told /\ n.sql = s
          /\ n.rows = j.rows /\ n.attempt = j.attempt /\ n.out = j.out
      BY <1>0 DEF JobType
    <3>3. /\ Len(j.told) = j.attempt /\ j.out = NoResult /\ Len(j.told) <= MaxRetries + 1
          /\ j.rows = NoStatement
      BY <1>0, <1>3 DEF Generate, Awaits, JobOK
    <3>1. JobOK(n, ran)
      BY <2>1, <3>2, <3>3 DEF JobOK, NoResult
    <3> QED BY <1>0, <1>3, <2>1, <3>1, AgentMoves DEF Generate, Set
  <2>2. ASSUME NEW s \in Statements, Set(c, NextAttempt(Told(j, s, Reason(s))))
        PROVE  AgentInv'
    <3>1. JobOK(NextAttempt(Told(j, s, Reason(s))), ran)
      BY <1>0, <1>3, ReasonKnown, NextAttemptOK DEF Generate, Awaits
    <3> QED BY <1>0, <1>3, <2>2, <3>1, AgentMoves DEF Generate, Set
  <2> QED BY <1>3, <1>r, <2>1, <2>2 DEF Generate
<1>4. CASE Execute(c)
  <2> DEFINE s == j.sql
             r == ran \cup {s}
             failed == Told(j, s, "execution")
  <2>1. /\ j.pc = "execute" /\ s \in Statements
        /\ ran' = r /\ schema' = schema
    BY <1>0, <1>4 DEF Execute, Awaits, JobOK
  <2>2. ran \subseteq r /\ r \subseteq Statements
    BY <1>0, <2>1
  <2>3. JobOK(j, r)
    BY <1>0, <2>2, JobMonotone
  <2>4. CASE Set(c, [j EXCEPT !.pc = "explain", !.rows = s])
    <3> DEFINE n == [j EXCEPT !.pc = "explain", !.rows = s]
    <3>1. /\ n \in JobType /\ n.pc = "explain" /\ n.sql = s /\ n.rows = s
          /\ n.told = j.told /\ n.out = j.out /\ s \in r
      BY <1>0, <2>1 DEF JobType
    <3>4. Len(j.told) <= MaxRetries
      BY <1>0, <2>1 DEF JobOK, JobType
    <3>2. Founded(n, n.sql, n.rows, r)
      BY <3>1, <3>4 DEF Founded
    <3>3. JobOK(n, r)
      BY <2>1, <2>3, <3>1, <3>2 DEF JobOK, NoResult
    <3> QED BY <1>0, <2>1, <2>2, <2>4, <3>3, AgentMoves DEF Set
  <2>5. CASE j.attempt = MaxRetries /\ Set(c, Ended(failed, "failed", s, NoStatement))
    <3>1. "execution" \in Reasons
      BY DEF Reasons
    <3>2. /\ failed \in JobType /\ Len(failed.told) <= MaxRetries + 1
          /\ Refused(failed, s, r)
      <4>1. Len(j.told) = j.attempt /\ j.attempt \in 0 .. MaxRetries /\ MaxRetries \in Nat
        BY <1>0, <2>1, AgentAssumption DEF JobOK, JobType
      <4>2. /\ failed \in JobType /\ Len(failed.told) = Len(j.told) + 1
            /\ failed.told[Len(j.told) + 1] = [sql |-> s, why |-> "execution"]
        BY <1>0, <2>1, <3>1, ToldType
      <4> HIDE DEF failed
      <4> QED BY <2>5, <4>1, <4>2 DEF Refused
    <3> HIDE DEF failed
    <3>3. JobOK(Ended(failed, "failed", s, NoStatement), r)
      BY <2>1, <3>2, EndedOK
    <3> QED BY <1>0, <2>1, <2>2, <2>5, <3>3, AgentMoves DEF Set
  <2>6. CASE j.attempt # MaxRetries /\ Set(c, NextAttempt(failed))
    <3>0. "execution" \in Reasons
      BY DEF Reasons
    <3>1. j.attempt < MaxRetries
      <4>1. j.attempt \in 0 .. MaxRetries /\ MaxRetries \in Nat
        BY <1>0, AgentAssumption DEF JobType
      <4> QED BY <2>6, <4>1
    <3>2. JobOK(NextAttempt(failed), r)
      BY <2>1, <2>3, <3>0, <3>1, NextAttemptOK
    <3> QED BY <1>0, <2>1, <2>2, <2>6, <3>2, AgentMoves DEF Set
  <2> QED BY <1>4, <2>4, <2>5, <2>6 DEF Execute
<1>5. CASE Explain(c)
  <2>1. CASE Set(c, Ended(j, "answer", j.sql, j.rows)) /\ ran' = ran /\ schema' = schema
    <3>1. Founded(j, j.sql, j.rows, ran)
      BY <1>0, <1>5 DEF Explain, Awaits, JobOK
    <3> QED BY <1>0, <1>t, <2>1, <3>1, EndMoves
  <2> QED BY <1>5, <1>r, <2>1 DEF Explain
<1>6. CASE Cancel(c)
  <2> DEFINE s == j.sql
             r == ran \cup {s}
  <2>1. Set(c, Ended(j, "cancelled", NoStatement, NoStatement)) /\ schema' \in BOOLEAN
    BY <1>0, <1>6 DEF Cancel
  <2>2. CASE ran' = ran
    BY <1>t, <2>1, <2>2, EndMoves
  <2>3. CASE Awaits(c, "execute") /\ ran' = r
    <3>1. s \in Statements
      BY <1>0, <2>3 DEF Awaits, JobOK
    <3>2. ran \subseteq r /\ r \subseteq Statements
      BY <1>0, <3>1
    <3>3. JobOK(Ended(j, "cancelled", NoStatement, NoStatement), r)
      <4>1. Len(j.told) <= MaxRetries + 1
        BY <1>0 DEF JobOK
      <4> QED BY <1>0, <4>1, EndedOK
    <3> QED BY <2>1, <2>3, <3>2, <3>3, AgentMoves DEF Set
  <2> QED BY <1>6, <2>2, <2>3 DEF Cancel
<1> QED BY <1>1, <1>2, <1>3, <1>4, <1>5, <1>6 DEF AgentStep

-----------------------------------------------------------------------------
(* The breaker and the runs.                                               *)

Sound(b) ==
    /\ b \in [failures : Nat, disabled : BOOLEAN]
    /\ b.disabled <=> b.failures >= FailThreshold

LEMMA FailureSound ==
    ASSUME NEW b, Sound(b)
    PROVE  Sound(Failure(b))
<1> DEFINE n == b.failures + 1
<1>1. b.failures \in Nat /\ n \in Nat /\ FailThreshold \in Nat
  BY BreakerAssumption DEF Sound
<1>2. b.disabled => n >= FailThreshold
  <2>1. b.disabled => b.failures >= FailThreshold
    BY Zenon DEF Sound
  <2> QED BY <1>1, <2>1
<1> DEFINE d == b.disabled \/ n >= FailThreshold
<1>3. d \in BOOLEAN /\ (d <=> n >= FailThreshold)
  BY <1>2, Zenon
<1>4. Failure(b) = [failures |-> n, disabled |-> d]
  BY Zenon DEF Failure
<1> HIDE DEF n, d
<1>5. /\ Failure(b) \in [failures : Nat, disabled : BOOLEAN]
      /\ Failure(b).failures = n /\ Failure(b).disabled = d
  BY <1>1, <1>3, <1>4
<1> QED BY <1>3, <1>5, Zenon DEF Sound

LEMMA SuccessSound ==
    ASSUME NEW b, Sound(b), ~ b.disabled
    PROVE  Sound(Success(b))
<1>1. b \in [failures : Nat, disabled : BOOLEAN]
  BY DEF Sound
<1>2. /\ Success(b) \in [failures : Nat, disabled : BOOLEAN]
      /\ Success(b).failures = 0
  BY <1>1 DEF Success
<1>3. Success(b).disabled = b.disabled
  BY <1>1, Zenon DEF Success
<1>4. ~ (0 >= FailThreshold)
  BY BreakerAssumption
<1> QED BY <1>2, <1>3, <1>4, Zenon DEF Sound

LEMMA SafeCallSound ==
    ASSUME NEW b, Sound(b), NEW p \in SafeCall(b)
    PROVE  Sound(p.breaker) /\ (b.disabled => p.breaker = b /\ ~ p.ok)
<1>1. CASE b.disabled
  <2>1. p = [breaker |-> b, ok |-> FALSE]
    BY <1>1, Zenon DEF SafeCall
  <2>2. p.breaker = b /\ p.ok = FALSE
    BY <2>1
  <2> QED BY <2>2
<1>2. CASE ~ b.disabled
  <2>1. \/ p = [breaker |-> Success(b), ok |-> TRUE]
        \/ p = [breaker |-> Failure(b), ok |-> FALSE]
    BY <1>2, Zenon DEF SafeCall
  <2>2. p.breaker = Success(b) \/ p.breaker = Failure(b)
    BY <2>1
  <2> QED BY <1>2, <2>2, FailureSound, SuccessSound
<1> QED BY <1>1, <1>2

LEMMA SafeEndSound ==
    ASSUME NEW b, Sound(b), NEW e \in SafeEnd(b)
    PROVE  Sound(e) /\ (b.disabled => e = b)
BY FailureSound, Zenon DEF SafeEnd

RunType == [Calls -> {"unknown", "open", "closed"}]

TraceInv ==
    /\ Sound(breaker)
    /\ run \in RunType /\ traced \subseteq Calls /\ unclosed \subseteq Calls
    /\ \A c \in Calls : run[c] = "open" => c \in traced
    /\ OpenRunsAreExcused
    /\ returned = [c \in Calls |-> job[c].out]

\* What entering a traced call does to the runs, and that an open breaker is left
\* alone.
LEMMA EnterKeeps ==
    ASSUME Sound(breaker), run \in RunType, traced \subseteq Calls, NEW c \in Calls, Enter(c)
    PROVE  /\ Sound(breaker') /\ run' \in RunType /\ traced' \subseteq Calls
           /\ traced \subseteq traced'
           /\ run' = run \/ (c \in traced' /\ run' = [run EXCEPT ![c] = "open"])
           /\ breaker.disabled => breaker' = breaker /\ run' = run
<1>1. CASE breaker.disabled /\ UNCHANGED <<breaker, run, traced>>
  BY <1>1
<1>2. CASE ~ breaker.disabled /\ breaker' = Failure(breaker) /\ UNCHANGED <<run, traced>>
  BY <1>2, FailureSound
<1>3. ASSUME ~ breaker.disabled, traced' = traced \cup {c}, NEW p \in SafeCall(breaker),
             breaker' = p.breaker,
             run' = [run EXCEPT ![c] = IF p.ok THEN "open" ELSE run[c]]
      PROVE  /\ Sound(breaker') /\ run' \in RunType /\ traced' \subseteq Calls
             /\ traced \subseteq traced'
             /\ run' = run \/ (c \in traced' /\ run' = [run EXCEPT ![c] = "open"])
  <2>1. Sound(breaker')
    BY <1>3, SafeCallSound
  <2>2. CASE p.ok
    BY <1>3, <2>1, <2>2 DEF RunType
  <2>3. CASE ~ p.ok
    BY <1>3, <2>1, <2>3 DEF RunType
  <2> QED BY <2>2, <2>3
<1> QED BY <1>1, <1>2, <1>3 DEF Enter

\* What leaving it does: the run is closed, or its call is among the excused.
LEMMA CloseKeeps ==
    ASSUME Sound(breaker), run \in RunType, unclosed \subseteq Calls,
           NEW c \in Calls, NEW kind, Close(c, kind)
    PROVE  /\ Sound(breaker') /\ run' \in RunType /\ unclosed' \subseteq Calls
           /\ unclosed \subseteq unclosed'
           /\ run' = run \/ run' = [run EXCEPT ![c] = "closed"]
           /\ c \in traced /\ kind # "cancelled" => run'[c] = "closed" \/ c \in unclosed'
           /\ breaker.disabled => breaker' = breaker /\ run' = run
<1>1. CASE c \in traced /\ kind # "cancelled"
  <2>1. PICK b \in SafeEnd(breaker) : \E p \in SafeCall(b) :
            /\ breaker' = p.breaker
            /\ run' = [run EXCEPT ![c] = IF p.ok THEN "closed" ELSE run[c]]
            /\ unclosed' = IF p.ok THEN unclosed ELSE unclosed \cup {c}
    BY <1>1 DEF Close
  <2>1a. PICK p \in SafeCall(b) :
            /\ breaker' = p.breaker
            /\ run' = [run EXCEPT ![c] = IF p.ok THEN "closed" ELSE run[c]]
            /\ unclosed' = IF p.ok THEN unclosed ELSE unclosed \cup {c}
    BY <2>1
  <2>2. Sound(b) /\ Sound(breaker') /\ (breaker.disabled => breaker' = breaker /\ ~ p.ok)
    BY <2>1a, SafeEndSound, SafeCallSound
  <2>3. CASE p.ok
    BY <2>1a, <2>2, <2>3 DEF RunType
  <2>4. CASE ~ p.ok
    BY <2>1a, <2>2, <2>4 DEF RunType
  <2> QED BY <2>3, <2>4
<1>2. CASE ~ (c \in traced /\ kind # "cancelled")
  BY <1>2 DEF Close
<1> QED BY <1>1, <1>2

\* A step of call c moves no other call, and a call that is over takes none.
LEMMA OneMoves ==
    ASSUME AgentInv, NEW c \in Calls, Begin(c) \/ AgentStep(c)
    PROVE  /\ \A d \in Calls : d # c => job'[d] = job[d]
           /\ job[c].pc # "done"
           /\ Begin(c) => job'[c].out = job[c].out /\ job'[c].pc = "schema"
           /\ job'[c].pc # "done" => job'[c].out = job[c].out
<1>1. PICK j : job' = [job EXCEPT ![c] = j]
  BY DEF Begin, AgentStep, CheckSchema, BuildSchema, Generate, Execute, Explain, Cancel,
         Raises, Set
<1>2. job'[c] = j /\ \A d \in Calls : d # c => job'[d] = job[d]
  BY <1>1 DEF AgentInv
<1>3. job[c].pc # "done"
  BY DEF Begin, AgentStep, CheckSchema, BuildSchema, Generate, Execute, Explain, Cancel,
         Awaits
<1>4. JobOK(job[c], ran) /\ JobOK(job'[c], ran')
  BY AgentInvStep DEF AgentInv
<1>5. job'[c].pc # "done" => job'[c].out = job[c].out
  BY <1>3, <1>4 DEF JobOK
<1>6. Begin(c) => job'[c].pc = "schema"
  BY <1>2 DEF Begin, Set, Fresh, AgentInv
<1> QED BY <1>2, <1>3, <1>5, <1>6

IInv == AgentInv /\ TraceInv

\* The invariant is inductive.
LEMMA IInvStep ==
    IInv /\ [Next]_vars => IInv'
<1> SUFFICES ASSUME IInv, [Next]_vars PROVE IInv'
  OBVIOUS
<1>0. AgentInv /\ TraceInv
  BY DEF IInv
<1>1. ASSUME NEW c \in Calls, Call(c) PROVE IInv'
  <2>1. AgentInv' /\ Begin(c) /\ Enter(c) /\ unclosed' = unclosed /\ returned' = returned
    BY <1>0, <1>1, AgentInvStep DEF Call
  <2>2. /\ \A d \in Calls : d # c => job'[d] = job[d]
        /\ job'[c].out = job[c].out /\ job'[c].pc = "schema"
    BY <1>0, <2>1, OneMoves
  <2>3. /\ Sound(breaker') /\ run' \in RunType /\ traced' \subseteq Calls
        /\ traced \subseteq traced'
        /\ run' = run \/ (c \in traced' /\ run' = [run EXCEPT ![c] = "open"])
    BY <1>0, <2>1, EnterKeeps DEF TraceInv
  <2>4. \A d \in Calls : job'[d].out = job[d].out
    BY <2>2
  <2>5. returned' = [d \in Calls |-> job'[d].out]
    BY <1>0, <2>1, <2>4 DEF TraceInv
  <2>6. \A d \in Calls : d # c => run'[d] = run[d]
    BY <1>0, <2>3 DEF TraceInv, RunType
  <2>7. \A d \in Calls : run'[d] = "open" => d \in traced'
    BY <1>0, <2>3, <2>6 DEF TraceInv
  <2>8. OpenRunsAreExcused'
    BY <1>0, <2>1, <2>2, <2>6 DEF TraceInv, OpenRunsAreExcused
  <2> QED BY <1>0, <2>1, <2>3, <2>5, <2>7, <2>8 DEF IInv, TraceInv
<1>2. ASSUME NEW c \in Calls, Proceed(c) PROVE IInv'
  <2>1. AgentInv' /\ AgentStep(c) /\ traced' = traced
    BY <1>0, <1>2, AgentInvStep DEF Proceed
  <2>2. /\ \A d \in Calls : d # c => job'[d] = job[d]
        /\ job'[c].pc # "done" => job'[c].out = job[c].out
    BY <1>0, <2>1, OneMoves
  <2>3. CASE job'[c].pc = "done"
    <3>1. Close(c, job'[c].out.kind) /\ returned' = [returned EXCEPT ![c] = job'[c].out]
      BY <1>2, <2>3 DEF Proceed, Leave
    <3>2. /\ Sound(breaker') /\ run' \in RunType /\ unclosed' \subseteq Calls
          /\ unclosed \subseteq unclosed'
          /\ run' = run \/ run' = [run EXCEPT ![c] = "closed"]
          /\ c \in traced /\ job'[c].out.kind # "cancelled" => run'[c] = "closed" \/ c \in unclosed'
      BY <1>0, <3>1, CloseKeeps DEF TraceInv
    <3>3. returned' = [d \in Calls |-> job'[d].out]
      BY <1>0, <2>2, <3>1 DEF TraceInv
    <3>4. \A d \in Calls : run'[d] = "open" => run[d] = "open"
      BY <1>0, <3>2 DEF TraceInv, RunType
    <3>5. OpenRunsAreExcused'
      <4> SUFFICES ASSUME NEW d \in Calls, job'[d].pc = "done", run'[d] = "open"
                   PROVE  d \in unclosed' \/ job'[d].out.kind = "cancelled"
        BY DEF OpenRunsAreExcused
      <4>1. run[d] = "open" /\ d \in traced
        BY <1>0, <3>4 DEF TraceInv
      <4>2. CASE d = c
        BY <3>2, <4>1, <4>2
      <4>3. CASE d # c
        BY <1>0, <2>2, <3>2, <4>1, <4>3 DEF TraceInv, OpenRunsAreExcused
      <4> QED BY <4>2, <4>3
    <3>6. \A d \in Calls : run'[d] = "open" => d \in traced'
      BY <1>0, <2>1, <3>4 DEF TraceInv
    <3> QED BY <1>0, <2>1, <3>2, <3>3, <3>5, <3>6 DEF IInv, TraceInv
  <2>4. CASE job'[c].pc # "done"
    <3>1. UNCHANGED <<breaker, run, unclosed, returned>>
      BY <1>2, <2>4 DEF Proceed
    <3>2. \A d \in Calls : job'[d].out = job[d].out
      BY <2>2, <2>4
    <3>3. returned' = [d \in Calls |-> job'[d].out]
      BY <1>0, <3>1, <3>2 DEF TraceInv
    <3>4. OpenRunsAreExcused'
      BY <1>0, <2>2, <2>4, <3>1 DEF TraceInv, OpenRunsAreExcused
    <3> QED BY <1>0, <2>1, <3>1, <3>3, <3>4 DEF IInv, TraceInv
  <2> QED BY <2>3, <2>4
<1>3. CASE UNCHANGED vars
  BY <1>0, <1>3 DEF IInv, AgentInv, TraceInv, OpenRunsAreExcused, vars, agentVars, traceVars
<1> QED BY <1>1, <1>2, <1>3 DEF Next

LEMMA IInvInit == Init => IInv
<1> SUFFICES ASSUME Init PROVE IInv
  OBVIOUS
<1>1. AgentInv
  BY FreshOK DEF Init, AgentInit, AgentInv
<1>2. Sound(breaker)
  BY BreakerAssumption DEF Init, Sound
<1>3. run \in RunType /\ traced = {} /\ unclosed = {} /\ \A c \in Calls : run[c] = "unknown"
  BY DEF Init, RunType
<1>4. returned = [c \in Calls |-> job[c].out]
  BY DEF Init, AgentInit, Fresh
<1> QED BY <1>1, <1>2, <1>3, <1>4 DEF IInv, TraceInv, OpenRunsAreExcused

LEMMA Invariance == Spec => []IInv
BY IInvInit, IInvStep, PTL DEF Spec

-----------------------------------------------------------------------------
(* The theorems.                                                           *)

LEMMA TypesFollow == IInv => TypeOK
<1> SUFFICES ASSUME IInv PROVE TypeOK
  OBVIOUS
<1>1. \A c \in Calls : job[c] \in JobType /\ job[c].out \in ResultType
  BY DEF IInv, AgentInv, JobOK, JobType
<1>2. job \in [Calls -> JobType] /\ returned \in [Calls -> ResultType]
  BY <1>1 DEF IInv, AgentInv, TraceInv
<1> QED BY <1>2 DEF IInv, AgentInv, TraceInv, TypeOK, RunType, Sound

\* The variables keep their types, so that no call makes more than MaxRetries + 1
\* attempts (agent.py:195-251), whatever the model writes.
THEOREM TracingTypes == Spec => []TypeOK
BY Invariance, TypesFollow, PTL

LEMMA RetriesFollow == IInv => RetriesBounded
BY DEF IInv, AgentInv, JobOK, RetriesBounded

\* What a call reports as retries is what the model was told, at most
\* MaxRetries + 1 (agent.py:216-251, 279-285).
THEOREM RetriesAreBounded == Spec => []RetriesBounded
BY Invariance, RetriesFollow, PTL

LEMMA AnswersFollow == IInv => AnswersShowWhatRan
<1> SUFFICES ASSUME IInv, NEW c \in Calls
             PROVE  LET out == job[c].out
                        last == job[c].told[MaxRetries + 1]
                    IN  /\ out.kind = "answer" =>
                              IF out.retries <= MaxRetries
                              THEN out.rows = out.sql /\ out.sql \in ran
                              ELSE out.rows = NoStatement /\ last.why # "execution"
                        /\ out.kind = "failed" =>
                              /\ out.retries = MaxRetries + 1
                              /\ last = [sql |-> out.sql, why |-> "execution"]
                              /\ out.sql \in ran
  BY DEF AnswersShowWhatRan
<1>1. JobOK(job[c], ran)
  BY DEF IInv, AgentInv
<1> QED BY <1>1 DEF JobOK, Founded, Refused

\* By its retries a caller tells an answer that shows the rows of the statement it
\* names from one that shows none because every attempt failed (agent.py:205-268),
\* whatever the model writes and the database refuses.
THEOREM AnswersAreTold == Spec => []AnswersShowWhatRan
BY Invariance, AnswersFollow, PTL

LEMMA TripsFollow == IInv => TripsAtThreshold
BY DEF IInv, TraceInv, Sound, TripsAtThreshold

\* The breaker is open exactly from the threshold on (tracing.py:36-58).
THEOREM BreakerTrips == Spec => []TripsAtThreshold
BY Invariance, TripsFollow, PTL

\* A run stays open only if its call was cancelled or closing it failed
\* (tracing.py:98-108, 161-193).
THEOREM OpenRuns == Spec => []OpenRunsAreExcused
<1>1. IInv => OpenRunsAreExcused
  BY DEF IInv, TraceInv
<1> QED BY <1>1, Invariance, PTL

LEMMA QuietStep ==
    IInv /\ [Next]_vars => [breaker.disabled => UNCHANGED <<breaker, run>>]_vars
<1> SUFFICES ASSUME IInv, [Next]_vars, breaker.disabled
             PROVE  UNCHANGED <<breaker, run>>
  OBVIOUS
<1>0. Sound(breaker) /\ run \in RunType /\ traced \subseteq Calls /\ unclosed \subseteq Calls
  BY DEF IInv, TraceInv
<1>1. ASSUME NEW c \in Calls, Call(c) PROVE UNCHANGED <<breaker, run>>
  BY <1>0, <1>1, EnterKeeps DEF Call
<1>2. ASSUME NEW c \in Calls, Proceed(c) PROVE UNCHANGED <<breaker, run>>
  <2>1. CASE job'[c].pc = "done"
    <3>1. Close(c, job'[c].out.kind)
      BY <1>2, <2>1 DEF Proceed, Leave
    <3> QED BY <1>0, <3>1, CloseKeeps
  <2>2. CASE job'[c].pc # "done"
    BY <1>2, <2>2 DEF Proceed
  <2> QED BY <2>1, <2>2
<1>3. CASE UNCHANGED vars
  BY <1>3 DEF vars, traceVars
<1> QED BY <1>1, <1>2, <1>3 DEF Next

\* A breaker that has tripped is never touched again, nor is LangSmith
\* (tracing.py:79-108).
THEOREM QuietForGood == Spec => QuietOnceTripped
BY Invariance, QuietStep, PTL DEF Spec, QuietOnceTripped

\* What callers see of their calls is the calls.
LEMMA ViewIsJob == IInv => CallerView = job
<1> SUFFICES ASSUME IInv PROVE CallerView = job
  OBVIOUS
<1>1. \A c \in Calls : [job[c] EXCEPT !.out = returned[c]] = job[c]
  BY DEF IInv, AgentInv, TraceInv, JobOK, JobType
<1> QED BY <1>1 DEF CallerView, IInv, AgentInv

\* The operators on data are the same on both sides.
LEMMA SameOperators ==
    /\ \A s : Untraced!Validated(s) <=> Validated(s)
    /\ \A s : Untraced!Reason(s) = Reason(s)
    /\ \A j, s, w : Untraced!Told(j, s, w) = Told(j, s, w)
    /\ \A j : Untraced!NextAttempt(j) = NextAttempt(j)
<1>0. Untraced!Flaws = Flaws
  BY Zenon DEF Flaws, Untraced!Flaws
<1>1. \A s : Untraced!Validated(s) <=> Validated(s)
  BY <1>0 DEF Validated, Untraced!Validated
<1>2. \A s : Untraced!Reason(s) = Reason(s)
  BY <1>0, Zenon DEF Reason, Untraced!Reason
<1>3. \A j, s, w : Untraced!Told(j, s, w) = Told(j, s, w)
  BY Zenon DEF Told, Untraced!Told
<1>4. \A j : Untraced!NextAttempt(j) = NextAttempt(j)
  BY Zenon DEF NextAttempt, Untraced!NextAttempt
<1> QED BY <1>1, <1>2, <1>3, <1>4

\* Every step is a step of the untraced function, or none of its calls' business.
LEMMA RefinesStep ==
    IInv /\ IInv' /\ [Next]_vars => [Untraced!AgentNext]_Untraced!agentVars
<1> SUFFICES ASSUME IInv, IInv', [Next]_vars
             PROVE  Untraced!AgentNext \/ UNCHANGED Untraced!agentVars
  OBVIOUS
<1>0a. CallerView = job
  BY ViewIsJob
<1>0b. (CallerView = job)'
  BY ViewIsJob, PTL
<1>0. CallerView = job /\ CallerView' = job'
  BY <1>0a, <1>0b
<1>1. ASSUME NEW c \in Calls, Begin(c) PROVE Untraced!AgentNext
  <2>1. Untraced!Begin(c)
    BY <1>0, <1>1 DEF Begin, Untraced!Begin, Awaits, Untraced!Awaits, Set, Untraced!Set,
          Fresh, Untraced!Fresh, NoResult, Untraced!NoResult
  <2> QED BY <2>1 DEF Untraced!AgentNext
<1>2. ASSUME NEW c \in Calls, AgentStep(c) PROVE Untraced!AgentNext
  <2> USE <1>0 DEF Awaits, Untraced!Awaits, Set, Untraced!Set, Raises, Untraced!Raises,
        Ended, Untraced!Ended
  <2>0. CASE CheckSchema(c)
    BY <2>0 DEF CheckSchema, Untraced!CheckSchema, Untraced!AgentStep, Untraced!AgentNext
  <2>1. CASE BuildSchema(c)
    BY <2>1 DEF BuildSchema, Untraced!BuildSchema, Untraced!AgentStep, Untraced!AgentNext
  <2>2. CASE Generate(c)
    BY <2>2, SameOperators DEF Generate, Untraced!Generate, Untraced!AgentStep, Untraced!AgentNext
  <2>3. CASE Execute(c)
    BY <2>3, SameOperators DEF Execute, Untraced!Execute, Untraced!AgentStep, Untraced!AgentNext
  <2>4. CASE Explain(c)
    BY <2>4 DEF Explain, Untraced!Explain, Untraced!AgentStep, Untraced!AgentNext
  <2>5. CASE Cancel(c)
    BY <2>5 DEF Cancel, Untraced!Cancel, Untraced!AgentStep, Untraced!AgentNext
  <2> QED BY <1>2, <2>0, <2>1, <2>2, <2>3, <2>4, <2>5 DEF AgentStep
<1>3. CASE UNCHANGED vars
  BY <1>0, <1>3 DEF vars, agentVars, Untraced!agentVars
<1> QED BY <1>1, <1>2, <1>3 DEF Next, Call, Proceed

LEMMA RefinesInit == Init => Untraced!AgentInit
<1> SUFFICES ASSUME Init PROVE Untraced!AgentInit
  OBVIOUS
<1>1. CallerView = job
  BY IInvInit, ViewIsJob
<1> QED BY <1>1 DEF Init, AgentInit, Untraced!AgentInit, Fresh, Untraced!Fresh,
           NoResult, Untraced!NoResult

\* To its callers the traced function is the function (tracing.py:150-193): every
\* behaviour of the wrapper implements one of the agent alone.
THEOREM TracingIsTransparent == Spec => TracedIsUntraced
<1>1. Spec => Untraced!AgentInit
  BY RefinesInit DEF Spec
<1>2. []IInv /\ [][Next]_vars => [][Untraced!AgentNext]_Untraced!agentVars
  BY RefinesStep, PTL
<1> QED BY <1>1, <1>2, Invariance, PTL DEF Spec, TracedIsUntraced, Untraced!AgentSpec
=============================================================================
