----------------------------- MODULE RateLimiter -----------------------------
(***************************************************************************)
(* The sliding-window limiter of app/retrieval/rate_limiter.py.  A call of *)
(* check_rate_limit is a sequence of Redis commands with an await between  *)
(* every two of them, so the calls of all request handlers, of this        *)
(* container and of the others, interleave command by command on the       *)
(* sorted set of a bucket ("ratelimit:<user_id>").                         *)
(*                                                                         *)
(* Time is a discrete clock shared by the containers and Redis.  A member  *)
(* of the sorted set is str(now) with score now, hence here just the stamp *)
(* now: two calls that read the same time write one member.                *)
(***************************************************************************)
EXTENDS Integers, FiniteSets

CONSTANTS
    Procs,      \* the request handlers that may be inside check_rate_limit
    Buckets,    \* the user ids the limiter is called with
    Limit,      \* settings.rate_limit_rpm
    Window,     \* settings.rate_limit_window
    MaxTime     \* bound of the model: the clock stops there

ASSUME LimiterAssumption ==
    /\ IsFiniteSet(Procs)
    /\ Limit \in Nat \ {0}
    /\ Window \in Nat \ {0}
    /\ MaxTime \in Nat

VARIABLES
    clock,      \* the time every container and Redis read
    zset,       \* per bucket, the stamps of the sorted set
    expiresAt,  \* per bucket, when Redis drops the key (Never: no TTL set)
    unrenewed,  \* history: stamps added since the last EXPIRE of the key
    pc,         \* per handler, the next Redis command of its call
    bucket,     \* per handler, the bucket of its call
    now,        \* per handler, the time.time() its call read
    resetIn     \* per handler, RateLimitResult.reset_in of its last call

redisVars == <<zset, expiresAt, unrenewed>>
callVars  == <<bucket, now>>
vars      == <<clock, redisVars, pc, callVars, resetIn>>

Never == -1

-----------------------------------------------------------------------------

\* Mutants, here and below: slips a change to the code could make, each checked
\* to break a property.  The inclusive end of the range taken as exclusive:
PrunedExclusive(stamps, t) == {m \in stamps : m >= t - Window}

\* ... or the window one second short.
PrunedShort(stamps, t) == {m \in stamps : m > t - Window + 1}

\* ZREMRANGEBYSCORE key -inf (t - Window): both ends are inclusive.
Pruned(stamps, t) == {m \in stamps : m > t - Window}

\* ZRANGE key 0 0: the member with the lowest score.
Oldest(stamps) == CHOOSE m \in stamps : \A n \in stamps : m <= n

\* Mutant: the max(0.0, ...) is dropped.
ResetAfterUnclamped(stamps, t) ==
    IF stamps = {} THEN Window ELSE Oldest(stamps) + Window - t

\* The reset_in of a rejected call that read the time t.
ResetAfter(stamps, t) ==
    IF stamps = {} THEN Window
    ELSE LET wait == Oldest(stamps) + Window - t
         IN  IF wait > 0 THEN wait ELSE 0

\* The calls of bucket b that have been admitted and not yet recorded.
Admitted(b) == {p \in Procs : pc[p] = "add" /\ bucket[p] = b}

AtRest(p) == pc[p] \in {"idle", "allowed", "rejected"}

\* Redis deletes a sorted set with its last member, and the TTL with it.
TtlOf(stamps, t) == IF stamps = {} THEN Never ELSE t

-----------------------------------------------------------------------------

Init ==
    /\ clock = 0
    /\ zset = [b \in Buckets |-> {}]
    /\ expiresAt = [b \in Buckets |-> Never]
    /\ unrenewed = [b \in Buckets |-> {}]
    /\ pc = [p \in Procs |-> "idle"]
    /\ bucket \in [Procs -> Buckets]
    /\ now = [p \in Procs |-> 0]
    /\ resetIn = [p \in Procs |-> 0]

\* check_rate_limit(b) starts: it reads the clock once.
Begin(p, b) ==
    /\ AtRest(p)
    /\ pc' = [pc EXCEPT ![p] = "prune"]
    /\ bucket' = [bucket EXCEPT ![p] = b]
    /\ now' = [now EXCEPT ![p] = clock]
    /\ resetIn' = [resetIn EXCEPT ![p] = 0]
    /\ UNCHANGED <<clock, redisVars>>

\* await r.zremrangebyscore(key, "-inf", window_start)
Prune(p) ==
    LET b == bucket[p]
        kept == Pruned(zset[b], now[p])
    IN  /\ pc[p] = "prune"
        /\ zset' = [zset EXCEPT ![b] = kept]
        /\ expiresAt' = [expiresAt EXCEPT ![b] = TtlOf(kept, expiresAt[b])]
        /\ unrenewed' = [unrenewed EXCEPT ![b] = @ \cap kept]
        /\ pc' = [pc EXCEPT ![p] = "count"]
        /\ UNCHANGED <<clock, callVars, resetIn>>

\* Mutant: `count > limit`.
CountOffByOne(p) ==
    /\ pc[p] = "count"
    /\ pc' = [pc EXCEPT ![p] =
                 IF Cardinality(zset[bucket[p]]) > Limit THEN "oldest" ELSE "add"]
    /\ UNCHANGED <<clock, redisVars, callVars, resetIn>>

\* count = await r.zcard(key): the decision is taken on this value.
Count(p) ==
    /\ pc[p] = "count"
    /\ pc' = [pc EXCEPT ![p] =
                 IF Cardinality(zset[bucket[p]]) >= Limit THEN "oldest" ELSE "add"]
    /\ UNCHANGED <<clock, redisVars, callVars, resetIn>>

\* oldest = await r.zrange(key, 0, 0): the call is rejected.
Reject(p) ==
    /\ pc[p] = "oldest"
    /\ resetIn' = [resetIn EXCEPT ![p] = ResetAfter(zset[bucket[p]], now[p])]
    /\ pc' = [pc EXCEPT ![p] = "rejected"]
    /\ UNCHANGED <<clock, redisVars, callVars>>

\* await r.zadd(key, {str(now): now}): the count is not looked at again.
Add(p) ==
    LET b == bucket[p]
    IN  /\ pc[p] = "add"
        /\ zset' = [zset EXCEPT ![b] = @ \cup {now[p]}]
        /\ unrenewed' = [unrenewed EXCEPT ![b] = @ \cup ({now[p]} \ zset[b])]
        /\ pc' = [pc EXCEPT ![p] = "expire"]
        /\ UNCHANGED <<clock, expiresAt, callVars, resetIn>>

\* await r.expire(key, window * 2): a no-op on a key that is gone.
Expire(p) ==
    LET b == bucket[p]
    IN  /\ pc[p] = "expire"
        /\ expiresAt' = [expiresAt EXCEPT ![b] = TtlOf(zset[b], clock + 2 * Window)]
        /\ unrenewed' = [unrenewed EXCEPT ![b] = {}]
        /\ pc' = [pc EXCEPT ![p] = "allowed"]
        /\ UNCHANGED <<clock, zset, callVars, resetIn>>

\* The call ends between two commands: a Redis call raises, the client's
\* disconnect cancels the handler, or the container stops.
Abort(p) ==
    /\ ~ AtRest(p)
    /\ pc' = [pc EXCEPT ![p] = "idle"]
    /\ UNCHANGED <<clock, redisVars, callVars, resetIn>>

\* A second passes; Redis drops the keys whose TTL has run out.
Due(b) == expiresAt[b] # Never /\ expiresAt[b] <= clock + 1

Tick ==
    /\ clock < MaxTime
    /\ clock' = clock + 1
    /\ zset' = [b \in Buckets |-> IF Due(b) THEN {} ELSE zset[b]]
    /\ expiresAt' = [b \in Buckets |-> IF Due(b) THEN Never ELSE expiresAt[b]]
    /\ unrenewed' = [b \in Buckets |-> IF Due(b) THEN {} ELSE unrenewed[b]]
    /\ UNCHANGED <<pc, callVars, resetIn>>

Call(p) ==
    \/ \E b \in Buckets : Begin(p, b)
    \/ Prune(p)
    \/ Count(p)
    \/ Reject(p)
    \/ Add(p)
    \/ Expire(p)
    \/ Abort(p)

Next == Tick \/ \E p \in Procs : Call(p)

Spec == Init /\ [][Next]_vars

-----------------------------------------------------------------------------

\* The types of the variables: stamps are times that have been read, so none
\* lies in the future of the clock (rate_limiter.py:26).
TypeOK ==
    /\ clock \in Nat
    /\ zset \in [Buckets -> SUBSET (0 .. clock)]
    /\ expiresAt \in [Buckets -> Nat \cup {Never}]
    /\ unrenewed \in [Buckets -> SUBSET (0 .. clock)]
    /\ pc \in [Procs -> {"idle", "prune", "count", "oldest", "add", "expire",
                         "allowed", "rejected"}]
    /\ bucket \in [Procs -> Buckets]
    /\ now \in [Procs -> 0 .. clock]
    /\ resetIn \in [Procs -> Nat]

\* Counting and recording are two commands, so concurrent calls of one bucket
\* can pass the check together.  The overshoot is bounded: the sorted set never
\* holds more than Limit - 1 stamps plus one per handler in flight.
OvershootBounded ==
    \A b \in Buckets : Cardinality(zset[b]) <= Limit - 1 + Cardinality(Procs)

\* The stamps a step makes bucket b forget have left the window, or no EXPIRE
\* has followed the ZADD that recorded them.
Forgets(b) ==
    \A m \in zset[b] \ zset'[b] : m <= clock' - Window \/ m \in unrenewed[b]

ForgetsOnlyPast == \A b \in Buckets : Forgets(b)

\* No command and no TTL makes the limiter forget a stamp that is still inside
\* the window, except a TTL that fires on stamps no EXPIRE has followed yet
\* (the call stalled or ended between its ZADD and its EXPIRE).
NoStampForgottenInWindow == [][ForgetsOnlyPast]_vars

\* The reset_in of a rejection is long enough for a retry that waits for it to
\* prune at least one stamp of the set the rejection saw: the boundary of the
\* window is inclusive.  (The route's Retry-After header is int(reset_in), which
\* can be a fraction of a second too short: routes.py:102.)
ResetInFreesASlot ==
    [][\A p \in Procs :
          (pc[p] = "oldest" /\ pc'[p] = "rejected" /\ zset[bucket[p]] # {})
             => Pruned(zset[bucket[p]], now[p] + resetIn'[p]) # zset[bucket[p]]]_vars
=============================================================================
