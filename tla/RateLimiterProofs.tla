-------------------------- MODULE RateLimiterProofs --------------------------
(* Safety of the sliding-window limiter for any number of handlers, any    *)
(* set of buckets, any limit and any window: the type invariant, the bound *)
(* on the overshoot, that no stamp is forgotten inside the window, and     *)
(* that a rejected call is told how long to wait.                          *)
EXTENDS RateLimiter, FiniteSetTheorems, WellFoundedInduction, TLAPS

-----------------------------------------------------------------------------
(* The types.                                                              *)

USE DEF Never

\* The stamp ZRANGE key 0 0 returns is one of the stamps.
LEMMA OldestInStamps ==
    ASSUME NEW stamps \in SUBSET Nat, stamps # {}
    PROVE  Oldest(stamps) \in stamps
<1>1. PICK m \in stamps : \A n \in stamps : ~ (<<n, m>> \in OpToRel(<, Nat))
  BY WFMin, NatLessThanWellFounded, Zenon
<1>2. \A n \in stamps : ~ (n < m)
  BY <1>1, Zenon DEF OpToRel
<1>3. \A n \in stamps : m <= n
  BY <1>2
<1> QED
  BY <1>3, Zenon DEF Oldest

\* A rejected call's wait is a natural number, whatever stamps it saw
\* (rate_limiter.py:37-38, the max(0.0, ...)).
LEMMA ResetAfterNat ==
    ASSUME NEW stamps \in SUBSET Nat, NEW t \in Nat
    PROVE  ResetAfter(stamps, t) \in Nat
<1>1. CASE stamps = {}
  BY <1>1, LimiterAssumption DEF ResetAfter
<1>2. CASE stamps # {}
  <2>1. Oldest(stamps) \in stamps
    BY <1>2, OldestInStamps
  <2>2. Oldest(stamps) \in Nat
    BY <2>1
  <2> QED
    BY <1>2, <2>2, LimiterAssumption DEF ResetAfter
<1> QED
  BY <1>1, <1>2

\* TypeOK is inductive: one step per action.
LEMMA TypeOKStep ==
    TypeOK /\ [Next]_vars => TypeOK'
<1> SUFFICES ASSUME TypeOK, [Next]_vars
             PROVE  TypeOK'
  OBVIOUS
<1> USE LimiterAssumption DEF TypeOK, vars, redisVars, callVars
<1>1. CASE Tick
  BY <1>1 DEF Tick, Due
<1>2. ASSUME NEW p \in Procs, NEW b \in Buckets, Begin(p, b)
      PROVE  TypeOK'
  BY <1>2 DEF Begin
<1>3. ASSUME NEW p \in Procs, Prune(p)
      PROVE  TypeOK'
  BY <1>3 DEF Prune, Pruned, TtlOf
<1>4. ASSUME NEW p \in Procs, Count(p)
      PROVE  TypeOK'
  BY <1>4 DEF Count
<1>5. ASSUME NEW p \in Procs, Reject(p)
      PROVE  TypeOK'
  <2>1. ResetAfter(zset[bucket[p]], now[p]) \in Nat
    BY ResetAfterNat
  <2> QED BY <1>5, <2>1 DEF Reject
<1>6. ASSUME NEW p \in Procs, Add(p)
      PROVE  TypeOK'
  BY <1>6 DEF Add
<1>7. ASSUME NEW p \in Procs, Expire(p)
      PROVE  TypeOK'
  BY <1>7 DEF Expire, TtlOf
<1>8. ASSUME NEW p \in Procs, Abort(p)
      PROVE  TypeOK'
  BY <1>8 DEF Abort
<1>9. CASE UNCHANGED vars
  BY <1>9
<1> QED
  BY <1>1, <1>2, <1>3, <1>4, <1>5, <1>6, <1>7, <1>8, <1>9 DEF Next, Call

\* Every variable keeps its type.
THEOREM LimiterTypes == Spec => []TypeOK
<1>1. Init => TypeOK
  BY LimiterAssumption DEF Init, TypeOK
<1> QED
  BY <1>1, TypeOKStep, PTL DEF Spec

-----------------------------------------------------------------------------
(* The overshoot.  The stamps recorded and the calls admitted but not yet  *)
(* recorded are bounded together: a call that is admitted has just counted *)
(* fewer than Limit stamps, and at most every handler is in that position. *)

\* The inductive invariant behind OvershootBounded.
AdmittedBounded ==
    \A b \in Buckets :
        /\ IsFiniteSet(zset[b])
        /\ Cardinality(zset[b]) + Cardinality(Admitted(b))
              <= Limit - 1 + Cardinality(Procs)

LEMMA AdmittedFinite ==
    ASSUME NEW b \in Buckets
    PROVE  /\ IsFiniteSet(Admitted(b))
           /\ Cardinality(Admitted(b)) \in Nat
           /\ Cardinality(Admitted(b)) <= Cardinality(Procs)
           /\ Cardinality(Procs) \in Nat
<1>1. Admitted(b) \in SUBSET Procs
  BY DEF Admitted
<1> QED
  BY <1>1, FS_Subset, FS_CardinalityType, LimiterAssumption

\* A step that adds no stamp and admits no call keeps the bound.
LEMMA BoundKept ==
    ASSUME TypeOK, AdmittedBounded,
           \A b \in Buckets : zset'[b] \subseteq zset[b],
           \A b \in Buckets : Admitted(b)' \subseteq Admitted(b)
    PROVE  AdmittedBounded'
<1> SUFFICES ASSUME NEW b \in Buckets
             PROVE  /\ IsFiniteSet(zset'[b])
                    /\ Cardinality(zset'[b]) + Cardinality(Admitted(b)')
                          <= Limit - 1 + Cardinality(Procs)
  BY DEF AdmittedBounded
<1>1. /\ IsFiniteSet(zset'[b])
      /\ Cardinality(zset'[b]) <= Cardinality(zset[b])
      /\ Cardinality(zset'[b]) \in Nat
      /\ Cardinality(zset[b]) \in Nat
  BY FS_Subset, FS_CardinalityType DEF AdmittedBounded
<1>2. /\ Cardinality(Admitted(b)') <= Cardinality(Admitted(b))
      /\ Cardinality(Admitted(b)') \in Nat
      /\ Cardinality(Admitted(b)) \in Nat
  BY AdmittedFinite, FS_Subset, FS_CardinalityType
<1>3. Cardinality(zset[b]) + Cardinality(Admitted(b))
        <= Limit - 1 + Cardinality(Procs)
  BY DEF AdmittedBounded
<1> QED
  BY <1>1, <1>2, <1>3, AdmittedFinite, LimiterAssumption

\* Counting: an admitted call saw at most Limit - 1 stamps.
LEMMA CountKeepsBound ==
    ASSUME TypeOK, AdmittedBounded, NEW p \in Procs, Count(p)
    PROVE  AdmittedBounded'
<1> SUFFICES ASSUME NEW b \in Buckets
             PROVE  /\ IsFiniteSet(zset'[b])
                    /\ Cardinality(zset'[b]) + Cardinality(Admitted(b)')
                          <= Limit - 1 + Cardinality(Procs)
  BY DEF AdmittedBounded
<1>1. zset' = zset /\ bucket' = bucket
  BY DEF Count, redisVars, callVars
<1>2. IsFiniteSet(zset[b]) /\ Cardinality(zset[b]) \in Nat
  BY FS_CardinalityType DEF AdmittedBounded
<1>3. Admitted(b)' \in SUBSET Procs
  BY DEF Admitted
<1>4. /\ Cardinality(Admitted(b)') \in Nat
      /\ Cardinality(Admitted(b)') <= Cardinality(Procs)
      /\ Cardinality(Procs) \in Nat
  BY <1>3, FS_Subset, FS_CardinalityType, LimiterAssumption
<1>5. CASE bucket[p] = b /\ ~ (Cardinality(zset[b]) >= Limit)
  BY <1>1, <1>2, <1>4, <1>5, LimiterAssumption
<1>6. CASE ~ (bucket[p] = b /\ ~ (Cardinality(zset[b]) >= Limit))
  <2>1. Admitted(b)' \subseteq Admitted(b)
    BY <1>1, <1>6 DEF Admitted, Count, TypeOK
  <2>2. Cardinality(Admitted(b)') <= Cardinality(Admitted(b))
    BY <2>1, AdmittedFinite, FS_Subset
  <2>3. Cardinality(zset[b]) + Cardinality(Admitted(b))
          <= Limit - 1 + Cardinality(Procs)
    BY DEF AdmittedBounded
  <2> QED
    BY <1>1, <1>2, <1>4, <2>2, <2>3, AdmittedFinite, LimiterAssumption
<1> QED
  BY <1>5, <1>6

\* Recording: the call leaves the admitted ones as its stamp arrives.
LEMMA AddKeepsBound ==
    ASSUME TypeOK, AdmittedBounded, NEW p \in Procs, Add(p)
    PROVE  AdmittedBounded'
<1> SUFFICES ASSUME NEW b \in Buckets
             PROVE  /\ IsFiniteSet(zset'[b])
                    /\ Cardinality(zset'[b]) + Cardinality(Admitted(b)')
                          <= Limit - 1 + Cardinality(Procs)
  BY DEF AdmittedBounded
<1>1. IsFiniteSet(zset[b]) /\ Cardinality(zset[b]) \in Nat
  BY FS_CardinalityType DEF AdmittedBounded
<1>2. Cardinality(zset[b]) + Cardinality(Admitted(b))
        <= Limit - 1 + Cardinality(Procs)
  BY DEF AdmittedBounded
<1>3. bucket' = bucket /\ pc' = [pc EXCEPT ![p] = "expire"] /\ pc[p] = "add"
  BY DEF Add, callVars
<1>4. CASE bucket[p] = b
  <2>1. zset'[b] = zset[b] \cup {now[p]}
    BY <1>4 DEF Add, TypeOK
  <2>2. /\ IsFiniteSet(zset'[b])
        /\ Cardinality(zset'[b]) \in Nat
        /\ Cardinality(zset'[b]) <= Cardinality(zset[b]) + 1
    BY <1>1, <2>1, FS_AddElement, FS_CardinalityType
  <2>3. p \in Admitted(b) /\ Admitted(b)' = Admitted(b) \ {p}
    BY <1>3, <1>4 DEF Admitted, TypeOK
  <2>4. Cardinality(Admitted(b)') = Cardinality(Admitted(b)) - 1
    BY <2>3, AdmittedFinite, FS_RemoveElement
  <2> QED
    BY <1>1, <1>2, <2>2, <2>4, AdmittedFinite, LimiterAssumption
<1>5. CASE bucket[p] # b
  <2>1. zset'[b] = zset[b]
    BY <1>5 DEF Add, TypeOK
  <2>2. Admitted(b)' = Admitted(b)
    BY <1>3, <1>5 DEF Admitted, TypeOK
  <2> QED
    BY <1>1, <1>2, <2>1, <2>2
<1> QED
  BY <1>4, <1>5

LEMMA AdmittedBoundedStep ==
    TypeOK /\ AdmittedBounded /\ [Next]_vars => AdmittedBounded'
<1> SUFFICES ASSUME TypeOK, AdmittedBounded, [Next]_vars
             PROVE  AdmittedBounded'
  OBVIOUS
<1> USE DEF redisVars, callVars
<1>1. CASE Tick
  BY <1>1, BoundKept DEF Tick, Due, Admitted, TypeOK
<1>2. ASSUME NEW p \in Procs, NEW b \in Buckets, Begin(p, b)
      PROVE  AdmittedBounded'
  <2>1. \A c \in Buckets : Admitted(c)' \subseteq Admitted(c)
    BY <1>2 DEF Begin, Admitted, AtRest, TypeOK
  <2> QED BY <1>2, <2>1, BoundKept DEF Begin
<1>3. ASSUME NEW p \in Procs, Prune(p)
      PROVE  AdmittedBounded'
  <2>1. \A c \in Buckets : Admitted(c)' \subseteq Admitted(c)
    BY <1>3 DEF Prune, Admitted, TypeOK
  <2>2. \A c \in Buckets : zset'[c] \subseteq zset[c]
    BY <1>3 DEF Prune, Pruned, TypeOK
  <2> QED BY <2>1, <2>2, BoundKept
<1>4. ASSUME NEW p \in Procs, Count(p)
      PROVE  AdmittedBounded'
  BY <1>4, CountKeepsBound
<1>5. ASSUME NEW p \in Procs, Reject(p)
      PROVE  AdmittedBounded'
  <2>1. \A c \in Buckets : Admitted(c)' \subseteq Admitted(c)
    BY <1>5 DEF Reject, Admitted, TypeOK
  <2> QED BY <1>5, <2>1, BoundKept DEF Reject
<1>6. ASSUME NEW p \in Procs, Add(p)
      PROVE  AdmittedBounded'
  BY <1>6, AddKeepsBound
<1>7. ASSUME NEW p \in Procs, Expire(p)
      PROVE  AdmittedBounded'
  <2>1. \A c \in Buckets : Admitted(c)' \subseteq Admitted(c)
    BY <1>7 DEF Expire, Admitted, TypeOK
  <2> QED BY <1>7, <2>1, BoundKept DEF Expire
<1>8. ASSUME NEW p \in Procs, Abort(p)
      PROVE  AdmittedBounded'
  <2>1. \A c \in Buckets : Admitted(c)' \subseteq Admitted(c)
    BY <1>8 DEF Abort, Admitted, TypeOK
  <2> QED BY <1>8, <2>1, BoundKept DEF Abort
<1>9. CASE UNCHANGED vars
  BY <1>9, BoundKept DEF vars, Admitted
<1> QED
  BY <1>1, <1>2, <1>3, <1>4, <1>5, <1>6, <1>7, <1>8, <1>9 DEF Next, Call

\* The check-then-add race of rate_limiter.py:34-44 lets a bucket exceed the
\* limit by fewer stamps than there are handlers, and by no more.
THEOREM LimiterOvershootBounded == Spec => []OvershootBounded
<1>1. Init => AdmittedBounded
  <2> SUFFICES ASSUME Init, NEW b \in Buckets
               PROVE  /\ IsFiniteSet(zset[b])
                      /\ Cardinality(zset[b]) + Cardinality(Admitted(b))
                            <= Limit - 1 + Cardinality(Procs)
    BY DEF AdmittedBounded
  <2>1. zset[b] = {} /\ Admitted(b) = {}
    BY DEF Init, Admitted
  <2> QED
    BY <2>1, FS_EmptySet, FS_CardinalityType, LimiterAssumption
<1>2. TypeOK /\ AdmittedBounded => OvershootBounded
  <2> SUFFICES ASSUME AdmittedBounded, NEW b \in Buckets
               PROVE  Cardinality(zset[b]) <= Limit - 1 + Cardinality(Procs)
    BY DEF OvershootBounded
  <2>1. IsFiniteSet(zset[b]) /\ Cardinality(zset[b]) \in Nat
    BY FS_CardinalityType DEF AdmittedBounded
  <2>2. Cardinality(zset[b]) + Cardinality(Admitted(b))
          <= Limit - 1 + Cardinality(Procs)
    BY DEF AdmittedBounded
  <2> QED
    BY <2>1, <2>2, AdmittedFinite, LimiterAssumption
<1>3. Spec => []AdmittedBounded
  BY <1>1, AdmittedBoundedStep, LimiterTypes, PTL DEF Spec
<1> QED
  BY <1>2, <1>3, LimiterTypes, PTL

-----------------------------------------------------------------------------
(* The memory of the limiter.  An EXPIRE sets the key's TTL two windows    *)
(* ahead of a clock that no stamp exceeds, so a TTL that fires takes only  *)
(* stamps that left the window, and those added since the last EXPIRE.     *)

\* The inductive invariant behind NoStampForgottenInWindow.
RenewedOutlivesWindow ==
    \A b \in Buckets : \A m \in zset[b] :
        m \in unrenewed[b] \/ expiresAt[b] = Never \/ expiresAt[b] >= m + 2 * Window

LEMMA RenewedStep ==
    TypeOK /\ RenewedOutlivesWindow /\ [Next]_vars => RenewedOutlivesWindow'
<1> SUFFICES ASSUME TypeOK, RenewedOutlivesWindow, [Next]_vars
             PROVE  RenewedOutlivesWindow'
  OBVIOUS
<1> USE LimiterAssumption
    DEF TypeOK, RenewedOutlivesWindow, vars, redisVars, callVars
<1>1. CASE Tick
  BY <1>1 DEF Tick
<1>2. ASSUME NEW p \in Procs, NEW b \in Buckets, Begin(p, b)
      PROVE  RenewedOutlivesWindow'
  BY <1>2 DEF Begin
<1>3. ASSUME NEW p \in Procs, Prune(p)
      PROVE  RenewedOutlivesWindow'
  BY <1>3 DEF Prune, Pruned, TtlOf
<1>4. ASSUME NEW p \in Procs, Count(p)
      PROVE  RenewedOutlivesWindow'
  BY <1>4 DEF Count
<1>5. ASSUME NEW p \in Procs, Reject(p)
      PROVE  RenewedOutlivesWindow'
  BY <1>5 DEF Reject
<1>6. ASSUME NEW p \in Procs, Add(p)
      PROVE  RenewedOutlivesWindow'
  BY <1>6 DEF Add
<1>7. ASSUME NEW p \in Procs, Expire(p)
      PROVE  RenewedOutlivesWindow'
  BY <1>7 DEF Expire, TtlOf
<1>8. ASSUME NEW p \in Procs, Abort(p)
      PROVE  RenewedOutlivesWindow'
  BY <1>8 DEF Abort
<1>9. CASE UNCHANGED vars
  BY <1>9
<1> QED
  BY <1>1, <1>2, <1>3, <1>4, <1>5, <1>6, <1>7, <1>8, <1>9 DEF Next, Call

LEMMA ForgetsStep ==
    ASSUME TypeOK, RenewedOutlivesWindow, [Next]_vars, NEW b \in Buckets
    PROVE  Forgets(b)
<1> USE LimiterAssumption DEF TypeOK, Forgets, vars, redisVars, callVars
<1>1. CASE Tick
  BY <1>1 DEF Tick, Due, RenewedOutlivesWindow
<1>2. ASSUME NEW p \in Procs, Prune(p)
      PROVE  Forgets(b)
  <2>1. zset'[b] = zset[b] \/ zset'[b] = Pruned(zset[b], now[p])
    BY <1>2 DEF Prune
  <2> QED
    BY <1>2, <2>1 DEF Prune, Pruned
<1>3. ASSUME NEW p \in Procs, Add(p)
      PROVE  Forgets(b)
  <2>1. zset[b] \subseteq zset'[b]
    BY <1>3 DEF Add
  <2> QED
    BY <2>1
<1>4. CASE zset' = zset
  BY <1>4
<1>5. ASSUME NEW p \in Procs, Call(p)
      PROVE  Prune(p) \/ Add(p) \/ zset' = zset
  BY <1>5 DEF Call, Begin, Count, Reject, Expire, Abort
<1> QED
  BY <1>1, <1>2, <1>3, <1>4, <1>5 DEF Next

\* No stamp inside the window is forgotten, whatever the containers do and
\* wherever a call stops, once an EXPIRE has followed its ZADD
\* (rate_limiter.py:32 and 43-44).
THEOREM LimiterForgetsNothingInWindow == Spec => NoStampForgottenInWindow
<1>1. Init => RenewedOutlivesWindow
  BY DEF Init, RenewedOutlivesWindow
<1>2. Spec => []RenewedOutlivesWindow
  BY <1>1, RenewedStep, LimiterTypes, PTL DEF Spec
<1>3. TypeOK /\ RenewedOutlivesWindow /\ [Next]_vars => [ForgetsOnlyPast]_vars
  BY ForgetsStep DEF ForgetsOnlyPast
<1> QED
  BY <1>2, <1>3, LimiterTypes, PTL DEF Spec, NoStampForgottenInWindow
-----------------------------------------------------------------------------
(* The time a rejected call is told to wait.                               *)

\* Only the rejection of p ends its call with a reset_in.
LEMMA OnlyRejectRejects ==
    ASSUME TypeOK, [Next]_vars, NEW p \in Procs, pc[p] = "oldest", pc'[p] = "rejected"
    PROVE  Reject(p)
<1>1. pc' # pc
  OBVIOUS
<1>2. PICK q \in Procs : Call(q)
  BY <1>1 DEF Next, Tick, vars
<1>3. q = p
  BY <1>2 DEF TypeOK, Call, Begin, Prune, Count, Reject, Add, Expire, Abort
<1>4. Call(p)
  BY <1>2, <1>3
<1>5. ~ AtRest(p)
  BY DEF AtRest
<1>6. ~ Abort(p)
  BY DEF TypeOK, Abort
<1> QED
  BY <1>4, <1>5, <1>6 DEF Call, Begin, Prune, Count, Add, Expire

\* The oldest stamp leaves the window by the time a rejected call is told.
LEMMA WaitFreesOldest ==
    ASSUME NEW stamps \in SUBSET Nat, stamps # {}, NEW t \in Nat
    PROVE  Pruned(stamps, t + ResetAfter(stamps, t)) # stamps
<1> DEFINE first == Oldest(stamps)
           r == ResetAfter(stamps, t)
<1>1. first \in stamps /\ first \in Nat /\ Window \in Nat /\ r \in Nat
  BY OldestInStamps, ResetAfterNat, LimiterAssumption
<1>2. r = IF first + Window - t > 0 THEN first + Window - t ELSE 0
  BY DEF ResetAfter
<1> HIDE DEF first, r
<1>3. first \notin Pruned(stamps, t + r)
  BY <1>1, <1>2 DEF Pruned
<1> QED
  BY <1>1, <1>3 DEF r

\* Whoever waits as long as it was told finds at least one stamp of the set that
\* refused it gone, also when the clock it read is older than those stamps
\* (rate_limiter.py:36-40).
THEOREM LimiterTellsWhenToRetry == Spec => ResetInFreesASlot
<1>1. TypeOK /\ [Next]_vars =>
        [\A p \in Procs :
            (pc[p] = "oldest" /\ pc'[p] = "rejected" /\ zset[bucket[p]] # {})
               => Pruned(zset[bucket[p]], now[p] + resetIn'[p]) # zset[bucket[p]]]_vars
  <2> SUFFICES ASSUME TypeOK, [Next]_vars, NEW p \in Procs,
                      pc[p] = "oldest", pc'[p] = "rejected", zset[bucket[p]] # {}
               PROVE  Pruned(zset[bucket[p]], now[p] + resetIn'[p]) # zset[bucket[p]]
    OBVIOUS
  <2>1. Reject(p)
    BY OnlyRejectRejects
  <2>2. /\ zset[bucket[p]] \in SUBSET Nat /\ now[p] \in Nat
        /\ resetIn'[p] = ResetAfter(zset[bucket[p]], now[p])
    BY <2>1 DEF Reject, TypeOK
  <2> QED
    BY <2>2, WaitFreesOldest
<1> QED
  BY <1>1, LimiterTypes, PTL DEF Spec, ResetInFreesASlot
=============================================================================
